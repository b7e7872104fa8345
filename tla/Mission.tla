------------------------------ MODULE Mission ------------------------------
(***************************************************************************)
(* A mission at work: the agent turn of llm_controller.stream_inference,   *)
(* the ordered executor of agent.py, the user's task and review commands,  *)
(* and the workspace lens of tui_app.py, over the mission ledger and the   *)
(* workspace.                                                              *)
(*                                                                         *)
(* Two kinds of thread act.  The event loop runs the turn, the commands    *)
(* and every ledger operation; its steps here wait for LoopFree, that is,  *)
(* for the ledger operation or the command that the loop is inside.  The   *)
(* executor and an editor save run in worker threads (asyncio.to_thread)   *)
(* and touch only the workspace.                                           *)
(*                                                                         *)
(* The model writes a response's actions down as the executor reaches      *)
(* them: nothing looks at a later action before.  read_file stands for the *)
(* three actions that only read.  The turn of a plain chat is not here: it *)
(* touches neither the ledger nor the workspace.                           *)
(***************************************************************************)
EXTENDS MissionLedger, Workspace

CONSTANTS
  Tools,         \* the executor's actions a response may hold
  MaxEpochs,     \* INTERMIX_AGENT_MAX_EPOCHS
  MaxActions,    \* MAX_ACTIONS
  Overlap,       \* whether a key's action may run while a submitted line does, and vice versa
  MaxInputs,     \* lines and saves of the user (bounds TLC)
  MaxCrashes     \* crashes of the process (bounds TLC)

ResultKinds == {"output", "stopped", "error"}

ASSUME MissionAssumption ==
  /\ Evidence = ResultKinds \X (Contents \cup {Absent})
  /\ "lens" \notin Tasks   \* a task_id is drawn from hexadecimal digits
  /\ Tools \subseteq {"write_file", "read_file", "run_python", "delete_file", "task_completed"}
  /\ MaxEpochs \in Nat \ {0}
  /\ MaxActions \in Nat \ {0}
  /\ Overlap \in BOOLEAN
  /\ MaxInputs \in Nat
  /\ MaxCrashes \in Nat

VARIABLES
  turn,      \* "ready", "generating", "executing", "recording" or "judging"
  mission,   \* the task_id of the turn
  epoch,     \* its step + 1
  idle,      \* no_action_steps
  batch,     \* the events of this epoch's response, in order
  cancel,    \* AgentRuntime._cancel
  lens,      \* the editor save in progress
  decision,  \* the event of a review command, not yet offered to the ledger
  inputs,    \* user inputs so far
  crashes,   \* crashes so far
  untested,  \* ghost: files whose last write is not followed by a test that passed, by writer
  misled,    \* ghost: those of them that their writer failed to delete since
  asked,     \* ghost: for each mission, the reviews that its delete_file actions got
  lost       \* ghost: missions with events that never reached the ledger

turnVars == <<turn, mission, epoch, idle, batch>>
userVars == <<lens, decision, inputs>>
ghostVars == <<untested, asked, misled, lost>>
missionVars == <<ledgerVars, workspaceVars, turnVars, cancel, userVars, crashes, ghostVars>>

NoSave == [stage |-> "none", path |-> NoPath]

MissionInit ==
  /\ LedgerInit
  /\ WorkspaceInit
  /\ turn = "ready" /\ mission = NoTask /\ epoch = 0 /\ idle = 0 /\ batch = <<>>
  /\ cancel = FALSE
  /\ lens = NoSave
  /\ decision = <<>>
  /\ inputs = 0
  /\ crashes = 0
  /\ untested = {}
  /\ asked = [t \in Tasks |-> {}]
  /\ misled = {}
  /\ lost = {}

LoopFree == pc = "idle" /\ decision = <<>> /\ hand.op \notin {"consented", "moved"}

\* A submitted line is taken when no turn runs (the busy guard), and a key's action and a
\* line do not overlap where the application's message pump handles them one by one.
LineAllowed ==
  /\ turn = "ready"
  /\ LoopFree
  /\ inputs < MaxInputs
  /\ Overlap \/ lens = NoSave

KeyAllowed == Overlap \/ (turn = "ready" /\ LoopFree)

Outcome(action, path, exit, request, kind, hash) ==
  [action |-> action, path |-> path, exit |-> exit, request |-> request, evidence |-> <<kind, hash>>]

Ok(action, path) == Outcome(action, path, "ok", NoRequest, "output", Absent)

Failed(action, path, kind, hash) == Outcome(action, path, "fail", NoRequest, kind, hash)

ProtocolError == Failed("protocol_error", NoPath, "error", Absent)

-----------------------------------------------------------------------------
(* The turn.                                                               *)

\* get_or_create_task resumes the active mission or opens a new one.
StartTurn ==
  /\ LineAllowed
  /\ IF active # NoTask /\ ledger[active].status = "active"
     THEN mission' = active /\ UNCHANGED ledgerVars
     ELSE \E t \in Tasks : CreateTask(t) /\ mission' = t
  /\ turn' = "generating"
  /\ epoch' = 1
  /\ inputs' = inputs + 1
  /\ UNCHANGED <<workspaceVars, idle, batch, cancel, lens, decision, crashes, ghostVars>>

\* Mutant: the next turn starts from the old mission.
TurnToReady_KeepsMission ==
  /\ turn' = "ready" /\ mission' = mission /\ epoch' = 0 /\ idle' = 0 /\ batch' = <<>>

TurnToReady ==
  /\ turn' = "ready" /\ mission' = NoTask /\ epoch' = 0 /\ idle' = 0 /\ batch' = <<>>

\* The grounding guard rejects the request or the draft, the model or the prompt fails, or a write
\* to the database or the ledger raises.  Events that were not recorded by then never are.
AbandonTurn ==
  /\ turn \in {"generating", "recording", "judging"}
  /\ LoopFree
  /\ TurnToReady
  /\ lost' = IF turn = "recording" /\ batch # <<>> THEN lost \cup {mission} ELSE lost
  /\ UNCHANGED <<ledgerVars, workspaceVars, cancel, userVars, crashes, untested, asked, misled>>

\* A response with tool tags starts the executor, which forgets an earlier cancellation.
ResponseWithTools ==
  /\ turn = "generating"
  /\ LoopFree
  /\ turn' = "executing"
  /\ cancel' = FALSE
  /\ UNCHANGED <<ledgerVars, workspaceVars, mission, epoch, idle, batch, userVars, crashes, ghostVars>>

ResponseWithoutTools ==
  /\ turn = "generating"
  /\ LoopFree
  /\ turn' = "recording"
  /\ UNCHANGED <<ledgerVars, workspaceVars, mission, epoch, idle, batch, cancel, userVars, crashes,
                 ghostVars>>

-----------------------------------------------------------------------------
(* The executor, one action of the response after another.                 *)

\* A failure, a cancellation or a deletion request discards the rest of the response.
Emit(e) ==
  /\ batch' = Append(batch, e)
  /\ turn' = IF e.exit # "ok" THEN "recording" ELSE "executing"
  /\ UNCHANGED <<ledgerVars, mission, epoch, idle, cancel, userVars, crashes>>

\* The loop of execute_agent_tools_detailed reaches one more action of the response.
Reached(tool) ==
  /\ turn = "executing"
  /\ hand.op = "none"
  /\ tool \in Tools
  /\ Len(batch) < MaxActions
  /\ ~cancel

BetweenActions == ~(hand.op = "write" /\ hand.by = "agent")

AgentWrite(p, c) ==
  /\ Reached("write_file")
  /\ BeginWrite("agent", p, c)
  /\ UNCHANGED <<ledgerVars, turnVars, cancel, userVars, crashes, ghostVars>>

\* The journal may refuse the event of a file that was replaced.
AgentWritten ==
  LET p == hand.path IN
    /\ FinishWrite("agent")
    /\ Emit(Ok("write_file", p)) \/ Emit(Failed("write_file", p, "error", Absent))
    /\ untested' = IF p \in PyPaths THEN untested \cup {[path |-> p, by |-> mission]} ELSE untested
    /\ misled' = misled \ {[path |-> p, by |-> mission]}
    /\ UNCHANGED <<asked, lost>>

\* Too large, a directory in the way, or no space.
AgentWriteFails(p) ==
  /\ Reached("write_file")
  /\ Emit(Failed("write_file", p, "error", Absent))
  /\ UNCHANGED <<workspaceVars, ghostVars>>

AgentRead(p) ==
  /\ Reached("read_file")
  /\ Emit(IF Present(p) THEN Ok("read_file", p) ELSE Failed("read_file", p, "error", Absent))
  /\ UNCHANGED <<workspaceVars, ghostVars>>

\* The program ends by itself, or at the time limit, or by a cancellation.
AgentRun(p) ==
  /\ Reached("run_python")
  /\ IF Present(p)
     THEN \/ Emit(Ok("run_python", p)) /\ untested' = {} /\ misled' = {}
          \/ \E kind \in {"output", "stopped"} :
               Emit(Failed("run_python", p, kind, disk[p])) /\ UNCHANGED <<untested, misled>>
     ELSE Emit(Failed("run_python", p, "error", Absent)) /\ UNCHANGED <<untested, misled>>
  /\ UNCHANGED <<workspaceVars, asked, lost>>

\* request_deletion raises when there is no such file, and when the file, the list or the journal
\* cannot be used: then the review may be stored, and its id is lost.  The event of each failure is
\* a "delete_file", which the ledger books as a deletion.
AgentDelete(p) ==
  /\ Reached("delete_file")
  /\ \/ \E r \in Requests :
          /\ RequestDeletion(p, r)
          /\ Emit(Outcome("delete_requested", p, "none", r, "output", Absent))
          /\ asked' = [asked EXCEPT ![mission] = @ \cup {r}]
          /\ UNCHANGED misled
     \/ /\ \/ UNCHANGED workspaceVars
           \/ ReviewsOf(p) = {} /\ \E r \in Requests : RequestDeletion(p, r)
        /\ Emit(Failed("delete_file", p, "error", Absent))
        /\ misled' = misled \cup (untested \cap {[path |-> p, by |-> mission]})
        /\ UNCHANGED asked
  /\ UNCHANGED <<untested, lost>>

AgentComplete ==
  /\ Reached("task_completed")
  /\ Emit(Ok("task_completed", NoPath))
  /\ UNCHANGED <<workspaceVars, ghostVars>>

\* Mutant: a cancelled executor neither stops nor says so.
StopCancelled_Never(p) == FALSE /\ UNCHANGED <<missionVars, p>>

StopCancelled(p) ==
  /\ turn = "executing"
  /\ BetweenActions
  /\ cancel
  /\ Len(batch) < MaxActions
  /\ Emit(Failed("cancelled", p, "stopped", Absent))
  /\ UNCHANGED <<workspaceVars, ghostVars>>

\* The response had no further action.
ResponseDone ==
  /\ turn = "executing"
  /\ BetweenActions
  /\ batch # <<>>
  /\ turn' = "recording"
  /\ UNCHANGED <<ledgerVars, workspaceVars, mission, epoch, idle, batch, cancel, userVars, crashes,
                 ghostVars>>

Execute ==
  \/ \E p \in Paths, c \in Contents : AgentWrite(p, c)
  \/ AgentWritten
  \/ \E p \in Paths : AgentWriteFails(p)
  \/ \E p \in Paths : AgentRead(p)
  \/ \E p \in PyPaths : AgentRun(p)
  \/ \E p \in Paths : AgentDelete(p)
  \/ AgentComplete
  \/ \E p \in Paths \cup {NoPath} : StopCancelled(p)
  \/ ResponseDone

-----------------------------------------------------------------------------
(* Back on the event loop: the ledger, then the verdict on the epoch.      *)

\* Mutant: only the event that ended the batch is recorded.
RecordBatch_LastOnly ==
  /\ turn = "recording"
  /\ LoopFree
  /\ BeginRecord(mission, IF batch = <<>> THEN <<ProtocolError>> ELSE <<batch[Len(batch)]>>)
  /\ idle' = IF batch = <<>> THEN idle + 1 ELSE 0
  /\ turn' = "judging"
  /\ UNCHANGED <<workspaceVars, mission, epoch, batch, cancel, userVars, crashes, ghostVars>>

RecordBatch ==
  /\ turn = "recording"
  /\ LoopFree
  /\ BeginRecord(mission, IF batch = <<>> THEN <<ProtocolError>> ELSE batch)
  /\ idle' = IF batch = <<>> THEN idle + 1 ELSE 0
  /\ turn' = "judging"
  /\ UNCHANGED <<workspaceVars, mission, epoch, batch, cancel, userVars, crashes, ghostVars>>

InBatch(action) == \E i \in 1..Len(batch) : batch[i].action = action

\* The status is the one that record_events returned: a lens record that comes in between
\* does not change it.
TurnIsOver ==
  \/ idle >= 2
  \/ InBatch("task_completed") /\ CompletionIsVerified(ledger[mission])
  \/ InBatch("delete_requested")
  \/ ledger[mission].status = "blocked"
  \/ epoch = MaxEpochs

Judge ==
  /\ turn = "judging"
  /\ LoopFree
  /\ IF InBatch("task_completed") THEN MarkCompleted(mission) ELSE UNCHANGED ledgerVars
  /\ IF TurnIsOver
     THEN TurnToReady
     ELSE /\ turn' = "generating"
          /\ epoch' = epoch + 1
          /\ batch' = <<>>
          /\ UNCHANGED <<mission, idle>>
  /\ UNCHANGED <<workspaceVars, cancel, userVars, crashes, ghostVars>>

-----------------------------------------------------------------------------
(* Task and review commands.                                               *)

TaskCommand ==
  /\ LineAllowed
  /\ \/ \E t \in Tasks : CreateTask(t)         \* /task new
     \/ \E t \in Tasks : ActivateTask(t)       \* /task resume
     \/ PauseActiveTask                        \* /task pause
  /\ inputs' = inputs + 1
  /\ UNCHANGED <<workspaceVars, turnVars, cancel, lens, decision, crashes, ghostVars>>

\* The second half of create_task, activate_task or record_events, whoever called it.
LedgerStep ==
  /\ SetActive \/ RecordEvent \/ CommitRecord
  /\ UNCHANGED <<workspaceVars, turnVars, cancel, userVars, crashes, ghostVars>>

Approve(rv) ==
  /\ LineAllowed
  /\ CheckConsent(rv)
  /\ inputs' = inputs + 1
  /\ UNCHANGED <<ledgerVars, turnVars, cancel, lens, decision, crashes, ghostVars>>

ApprovedMoves ==
  /\ MoveToTrash
  /\ untested' = {u \in untested : u.path # hand.review.path}
  /\ misled' = misled \cap untested'
  /\ UNCHANGED <<ledgerVars, turnVars, cancel, userVars, crashes, asked, lost>>

\* The user is shown the error, the ledger hears nothing.
ApprovalFails ==
  /\ AbandonApproval
  /\ UNCHANGED <<ledgerVars, turnVars, cancel, userVars, crashes, ghostVars>>

Approved ==
  /\ CloseApproved
  /\ decision' = <<Outcome("delete_file", hand.review.path, "ok", hand.review.id, "output", Absent)>>
  /\ UNCHANGED <<ledgerVars, turnVars, cancel, lens, inputs, crashes, ghostVars>>

Deny(rv) ==
  /\ LineAllowed
  /\ DenyDeletion(rv)
  /\ decision' = <<Outcome("delete_denied", rv.path, "fail", rv.id, "output", Absent)>>
  /\ inputs' = inputs + 1
  /\ UNCHANGED <<ledgerVars, turnVars, cancel, lens, crashes, ghostVars>>

\* The event goes to whichever mission is active now, unless that one is completed, or a write
\* before it raises.
RecordDecision ==
  /\ pc = "idle"
  /\ decision # <<>>
  /\ \/ /\ active # NoTask /\ ledger[active].status \in {"active", "blocked", "paused"}
        /\ BeginRecord(active, decision)
     \/ UNCHANGED ledgerVars
  /\ decision' = <<>>
  /\ UNCHANGED <<workspaceVars, turnVars, cancel, lens, inputs, crashes, ghostVars>>

-----------------------------------------------------------------------------
(* Keys: cancel, and the lens's save.                                      *)

Cancel ==
  /\ KeyAllowed
  /\ ~cancel
  /\ cancel' = TRUE
  /\ UNCHANGED <<ledgerVars, workspaceVars, turnVars, userVars, crashes, ghostVars>>

\* The file was opened while it existed; it may have been deleted since.
LensSave(p, c) ==
  /\ KeyAllowed
  /\ lens = NoSave
  /\ Present(p) \/ \E x \in trash : x.path = p
  /\ inputs < MaxInputs
  /\ BeginWrite("lens", p, c)
  /\ lens' = [stage |-> "saving", path |-> p]
  /\ inputs' = inputs + 1
  /\ UNCHANGED <<ledgerVars, turnVars, cancel, decision, crashes, ghostVars>>

LensWritten ==
  /\ FinishWrite("lens")
  /\ lens' = [lens EXCEPT !.stage = "saved"]
  /\ untested' = IF lens.path \in PyPaths
                 THEN untested \cup {[path |-> lens.path, by |-> "lens"]} ELSE untested
  /\ UNCHANGED <<ledgerVars, turnVars, cancel, decision, inputs, crashes, asked, misled, lost>>

\* record_manual_workspace_event tells the active mission, if its status is "active" and no write
\* before it raises.
LensRecord ==
  /\ lens.stage = "saved"
  /\ LoopFree
  /\ \/ /\ active # NoTask /\ ledger[active].status = "active"
        /\ BeginRecord(active, <<Ok("write_file", lens.path)>>)
     \/ UNCHANGED ledgerVars
  /\ lens' = NoSave
  /\ UNCHANGED <<workspaceVars, turnVars, cancel, decision, inputs, crashes, ghostVars>>

-----------------------------------------------------------------------------

\* Missions with events on their way to the ledger.
Telling == (IF turn \in {"executing", "recording"} /\ batch # <<>> THEN {mission} ELSE {})
           \cup (IF pc = "record" THEN {target} ELSE {})

\* The process dies and is started again: what is not on disk is gone.
Crash ==
  /\ crashes < MaxCrashes
  /\ crashes' = crashes + 1
  /\ lost' = lost \cup Telling
  /\ pc' = "idle" /\ target' = NoTask /\ draft' = NoDraft /\ todo' = <<>>
  /\ UNCHANGED <<ledger, active>>
  /\ WorkspaceCrash
  /\ TurnToReady
  /\ cancel' = FALSE
  /\ lens' = NoSave
  /\ decision' = <<>>
  /\ UNCHANGED <<inputs, untested, asked, misled>>

TurnStep ==
  \/ ResponseWithTools
  \/ ResponseWithoutTools
  \/ AbandonTurn
  \/ Execute
  \/ RecordBatch
  \/ Judge

BackgroundStep ==
  \/ LedgerStep
  \/ ApprovedMoves
  \/ Approved
  \/ ApprovalFails
  \/ RecordDecision
  \/ LensWritten
  \/ LensRecord

UserStep ==
  \/ StartTurn
  \/ TaskCommand
  \/ \E rv \in reviews : Approve(rv)
  \/ \E rv \in reviews : Deny(rv)
  \/ Cancel
  \/ \E p \in Paths, c \in Contents : LensSave(p, c)

MissionNext == TurnStep \/ BackgroundStep \/ UserStep \/ Crash

\* The event loop and the worker threads go on; the user need not, and a crash need not come.
MissionSpec ==
  /\ MissionInit
  /\ [][MissionNext]_missionVars
  /\ WF_missionVars(TurnStep)
  /\ WF_missionVars(BackgroundStep)

-----------------------------------------------------------------------------

\* The variables have their types.
MissionTypeOK ==
  /\ LedgerTypeOK
  /\ WorkspaceTypeOK
  /\ turn \in {"ready", "generating", "executing", "recording", "judging"}
  /\ mission \in Tasks \cup {NoTask}
  /\ (turn = "ready") = (mission = NoTask)
  /\ epoch \in 0..MaxEpochs
  /\ idle \in 0..2
  /\ batch \in Seq(Event)
  /\ cancel \in BOOLEAN
  /\ lens \in [stage : {"none", "saving", "saved"}, path : Paths \cup {NoPath}]
  /\ decision \in Seq(Event)
  /\ untested \subseteq [path : PyPaths, by : Tasks \cup {"lens"}]
  /\ asked \in [Tasks -> SUBSET Requests]
  /\ misled \subseteq untested
  /\ lost \subseteq Tasks

Completes(t) == ledger[t].status # "completed" /\ ledger'[t].status = "completed"

\* A file leaves the disk only under a review that names it and was opened for the content
\* that it holds at that moment, whatever the lens and the agent wrote in between.
ConsentedDeletion ==
  [][\A p \in Paths :
       Present(p) /\ ~Present(p)'
         => \E rv \in reviews : rv.path = p /\ rv.expected = disk[p]]_missionVars

\* Every content that the agent or the lens replaces or a review deletes stays recoverable,
\* from the checkpoints or from the trash, wherever the process dies.
NothingLost ==
  [][\A p \in Paths :
       Present(p) /\ disk'[p] # disk[p]
         => disk[p] \in blobs' \/ [path |-> p, content |-> disk[p]] \in trash']_missionVars

\* A mission whose events all reached the ledger, through deaths and failing writes, completes only
\* when every Python file that its turns wrote and that is still there has passed a test since
\* that write, in the order in which things happened on disk (and not only in the order in which
\* the ledger was told).  Excepted is a file that the mission then failed to delete: the ledger
\* books it as deleted (agent.py:371-373, task_ledger.py:246-248).
AgentWorkIsTested ==
  [][\A t \in Tasks : Completes(t) /\ t \notin lost
       => \A u \in untested \ misled : u.by = t => ~Present(u.path)]_missionVars

\* A mission whose events all reached the ledger never completes while a deletion that it asked for
\* still waits for the user.  Excepted is a request that raised after its review was stored:
\* nobody was told of that review (workspace_state.py:227-228).
ReviewsGateCompletion ==
  [][\A t \in Tasks : Completes(t) /\ t \notin lost
       => \A rv \in reviews : rv.id \notin asked[t]]_missionVars

\* A blocked mission needs the user: no turn completes it, though a task_completed event
\* counts as a success that clears the failures.
BlockedNeverCompletes ==
  [][\A t \in Tasks : Completes(t) => ledger[t].status # "blocked"]_missionVars

\* A turn ends, whatever the response, the user's keys and the cancellation do.
TurnEnds == turn # "ready" ~> turn = "ready"

-----------------------------------------------------------------------------
(* What the repository says of the program and the program does not do.    *)

\* task_ledger.py:302 refuses a completion with "Deletion approval is still pending.": when
\* it does, one of the mission's reviews is undecided.  The code keeps an approved review in
\* the mission's list for ever, because its event names a path and takes an earlier branch
\* of record_events.
RefusalIsTrue ==
  turn = "judging" /\ LoopFree /\ InBatch("task_completed") /\ ledger[mission].pending # {}
    => \E rv \in reviews : rv.id \in ledger[mission].pending

\* docs/MEMORY.md:73: "a task is complete only when its acceptance criteria and required tests
\* have verified events".  A save of the lens reaches only a mission that is active at that
\* moment, so a mission resumed later completes over a file that was saved, and not tested,
\* after its last test.
CompletedFilesAreTested ==
  [][\A t \in Tasks : Completes(t) /\ crashes = 0
       => \A u \in untested : ledger[t].files[u.path] = "present" => ~Present(u.path)]_missionVars

=============================================================================
