--------------------------- MODULE MissionHistory ---------------------------
(***************************************************************************)
(* The mission ledger together with each mission's completed_steps, the    *)
(* ordered list of recorded events that record_events extends beside the   *)
(* summary fields (task_ledger.py:218, 236, 286; the code keeps the last   *)
(* 32, the model all of them).  The list never influences a ledger         *)
(* decision, so it says independently what the summary fields, from which  *)
(* completion and blocking are decided, ought to mean.                     *)
(***************************************************************************)
EXTENDS MissionLedger

VARIABLES
  steps,       \* completed_steps in each mission's state.json
  draftSteps   \* record_events: the list of the copy

historyVars == <<ledger, active, pc, target, draft, todo, steps, draftSteps>>

HistoryInit ==
  /\ LedgerInit
  /\ steps = [t \in Tasks |-> <<>>]
  /\ draftSteps = <<>>

LoadSteps == steps' = steps /\ draftSteps' = steps[target']

AppendStep == steps' = steps /\ draftSteps' = Append(draftSteps, Head(todo))

CommitSteps == steps' = [steps EXCEPT ![target] = draftSteps] /\ draftSteps' = <<>>

DropSteps == steps' = steps /\ draftSteps' = <<>>

HistoryNext ==
  \/ \E t \in Tasks : CreateTask(t) /\ DropSteps
  \/ \E t \in Tasks : ActivateTask(t) /\ DropSteps
  \/ SetActive /\ DropSteps
  \/ PauseActiveTask /\ DropSteps
  \/ \E t \in Tasks, events \in Batches : BeginRecord(t, events) /\ LoadSteps
  \/ RecordEvent /\ AppendStep
  \/ CommitRecord /\ CommitSteps
  \/ \E t \in Tasks : MarkCompleted(t) /\ DropSteps
  \/ LedgerCrash /\ DropSteps

HistorySpec == HistoryInit /\ [][HistoryNext]_historyVars

-----------------------------------------------------------------------------
(* What a list of recorded events says.                                    *)

\* p was written, and no later event deletes it.
Standing(h, p) ==
  \E i \in 1..Len(h) :
    /\ h[i].action = "write_file" /\ h[i].path = p
    /\ \A j \in (i + 1)..Len(h) : ~(h[j].action = "delete_file" /\ h[j].path = p)

\* p was written, and no later event deletes it or is a test that passed.
UntestedWrite(h, p) ==
  \E i \in 1..Len(h) :
    /\ h[i].action = "write_file" /\ h[i].path = p
    /\ \A j \in (i + 1)..Len(h) :
         ~Passed(h[j]) /\ ~(h[j].action = "delete_file" /\ h[j].path = p)

\* A deletion review was requested, and no later event denies it.
OpenReview(h, r) ==
  \E i \in 1..Len(h) :
    /\ h[i].action = "delete_requested" /\ h[i].path # NoPath /\ h[i].request = r
    /\ \A j \in (i + 1)..Len(h) : r \notin Closed(h[j])

\* The same failure was recorded twice with nothing that ran in between.
RepeatedFailure(h) ==
  \E i, j \in 1..Len(h) :
    /\ i < j
    /\ h[i].exit = "fail" /\ h[j].exit = "fail"
    /\ FailureSignature(h[i]) = FailureSignature(h[j])
    /\ \A k \in (i + 1)..(j - 1) : h[k].exit = "none"

-----------------------------------------------------------------------------

\* The lists have their types.
HistoryTypeOK ==
  /\ LedgerTypeOK
  /\ steps \in [Tasks -> Seq(Event)]
  /\ draftSteps \in Seq(Event)

\* A mission becomes completed only when, by its recorded events, every Python file it wrote
\* has passed a test since (or is deleted) and no deletion review it opened is undecided:
\* the sequence numbers that completion_is_verified compares stand for the whole list.
CompletionGate ==
  [][\A t \in Tasks :
       ledger[t].status # "completed" /\ ledger'[t].status = "completed"
         => /\ \A p \in PyPaths : ~UntestedWrite(steps[t], p)
            /\ \A r \in Requests : ~OpenReview(steps[t], r)]_historyVars

\* A mission is blocked only after it really failed twice in the same way: the running
\* signature and count never add up failures that a success or a different failure separates.
BlockedAfterRepeat == \A t \in Tasks : ledger[t].status = "blocked" => RepeatedFailure(steps[t])

=============================================================================
