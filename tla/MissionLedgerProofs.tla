------------------------- MODULE MissionLedgerProofs -------------------------
(***************************************************************************)
(* Proofs about MissionLedger: its types, the pointer and the repeat limit *)
(* for any set of missions, files, reviews and batches.  The lemmas are    *)
(* stated of LedgerOperation, which takes any batch of events, so that a   *)
(* module which adds variables beside the ledger can cite them for its own *)
(* steps.                                                                  *)
(***************************************************************************)
EXTENDS MissionLedger, TLAPS

\* What holds of the operation that has the lock: its mission has a state file, and the copy
\* of record_events still has the status that it read.
Locked ==
  /\ pc = "point" => target \in Tasks /\ Exists(target)
  /\ pc = "record" => /\ target \in Tasks
                      /\ Exists(target)
                      /\ draft.status = ledger[target].status

LedgerIInv == LedgerTypeOK /\ Locked /\ ActivePointsAtTask /\ ActiveIsBelowRepeatLimit

\* The process ends, whether or not an operation holds the lock.
LedgerReset ==
  /\ pc' = "idle" /\ target' = NoTask /\ draft' = NoDraft /\ todo' = <<>>
  /\ UNCHANGED <<ledger, active>>

\* A step of the ledger, whoever takes it and whatever events he records.
LedgerWork ==
  \/ \E t \in Tasks : CreateTask(t) \/ ActivateTask(t) \/ MarkCompleted(t)
  \/ \E t \in Tasks, events \in Seq(Event) : BeginRecord(t, events)
  \/ SetActive \/ PauseActiveTask \/ RecordEvent \/ CommitRecord

LedgerOperation == LedgerWork \/ LedgerReset

LEMMA LedgerNextIsOperation == [LedgerNext]_ledgerVars => [LedgerOperation]_ledgerVars
  BY LedgerAssumption DEF LedgerNext, LedgerOperation, LedgerWork, LedgerCrash, LedgerReset

LEMMA FreshTaskType == FreshTask \in Task /\ NoDraft \in Task
  BY DEF FreshTask, NoDraft, Task

\* Folding one event keeps the shape of a mission and leaves its status alone.
LEMMA AfterEventType ==
  ASSUME NEW task \in Task, NEW e \in Event
  PROVE  AfterEvent(task, e) \in Task /\ AfterEvent(task, e).status = task.status
<1>1. FilesAfter(task.files, e) \in [Paths -> {"untracked", "present", "deleted"}]
  BY DEF FilesAfter, Mutates, Task, Event
<1>2. RepeatsAfter(task, e) \in Nat
  BY DEF RepeatsAfter, Task, Event
<1>3. SignatureAfter(task, e) \in Signature \cup {NoSignature}
  BY DEF SignatureAfter, FailureSignature, Signature, Task, Event
<1>4. (task.pending \cup Opened(e)) \ Closed(e) \in SUBSET Requests
  BY DEF Opened, Task, Event
<1>5. QED
  BY <1>1, <1>2, <1>3, <1>4 DEF AfterEvent, Task

\* The commit keeps the shape, never leaves an active mission at the limit, and never
\* changes a mission into an absent one.
LEMMA AfterBatchType ==
  ASSUME NEW task \in Task
  PROVE  /\ AfterBatch(task) \in Task
         /\ AfterBatch(task).status = "active" => AfterBatch(task).repeats < 2
         /\ task.status # "absent" => AfterBatch(task).status # "absent"
  BY DEF AfterBatch, Task

LEMMA LedgerInitInv == LedgerInit => LedgerIInv
  BY FreshTaskType DEF LedgerInit, LedgerIInv, LedgerTypeOK, Locked, ActivePointsAtTask,
     ActiveIsBelowRepeatLimit, NoDraft, FreshTask

LEMMA LedgerOperationInv == LedgerIInv /\ [LedgerOperation]_ledgerVars => LedgerIInv'
<1> SUFFICES ASSUME LedgerIInv, [LedgerOperation]_ledgerVars PROVE LedgerIInv'
  OBVIOUS
<1> USE DEF LedgerIInv, LedgerTypeOK
<1>1. ASSUME NEW t \in Tasks, CreateTask(t) PROVE LedgerIInv'
  <2>1. ledger'[t] = FreshTask /\ \A u \in Tasks \ {t} : ledger'[u] = ledger[u]
    BY <1>1 DEF CreateTask
  <2>2. LedgerTypeOK'
    BY <1>1, FreshTaskType DEF CreateTask
  <2>3. Locked' /\ ActivePointsAtTask' /\ ActiveIsBelowRepeatLimit'
    BY <1>1, <2>1 DEF CreateTask, Locked, ActivePointsAtTask, ActiveIsBelowRepeatLimit, Exists,
       FreshTask
  <2>4. QED
    BY <2>2, <2>3
<1>2. ASSUME NEW t \in Tasks, ActivateTask(t) PROVE LedgerIInv'
  <2>1. ledger[t] \in Task
    OBVIOUS
  <2>2. /\ ledger'[t] \in Task
        /\ ledger'[t].status = "active" /\ ledger'[t].repeats = 0
        /\ \A u \in Tasks \ {t} : ledger'[u] = ledger[u]
    BY <1>2, <2>1 DEF ActivateTask, Task
  <2>3. LedgerTypeOK'
    BY <1>2, <2>2 DEF ActivateTask
  <2>4. Locked' /\ ActivePointsAtTask' /\ ActiveIsBelowRepeatLimit'
    BY <1>2, <2>2 DEF ActivateTask, Locked, ActivePointsAtTask, ActiveIsBelowRepeatLimit, Exists
  <2>5. QED
    BY <2>3, <2>4
<1>3. CASE SetActive
  BY <1>3 DEF SetActive, Locked, ActivePointsAtTask, ActiveIsBelowRepeatLimit, Exists
<1>4. CASE PauseActiveTask
  <2>1. active \in Tasks /\ ledger[active] \in Task
    BY <1>4 DEF PauseActiveTask
  <2>2. /\ ledger'[active] \in Task /\ ledger'[active].status = "paused"
        /\ \A u \in Tasks \ {active} : ledger'[u] = ledger[u]
    BY <1>4, <2>1 DEF PauseActiveTask, Task
  <2>3. LedgerTypeOK'
    BY <1>4, <2>2 DEF PauseActiveTask
  <2>4. Locked' /\ ActivePointsAtTask' /\ ActiveIsBelowRepeatLimit'
    BY <1>4, <2>1, <2>2 DEF PauseActiveTask, Locked, ActivePointsAtTask,
       ActiveIsBelowRepeatLimit, Exists
  <2>5. QED
    BY <2>3, <2>4
<1>5. ASSUME NEW t \in Tasks, NEW events \in Seq(Event), BeginRecord(t, events)
      PROVE  LedgerIInv'
  BY <1>5 DEF BeginRecord, Locked, ActivePointsAtTask, ActiveIsBelowRepeatLimit, Exists
<1>6. CASE RecordEvent
  <2>1. Head(todo) \in Event /\ Tail(todo) \in Seq(Event)
    BY <1>6 DEF RecordEvent
  <2>2. draft' \in Task /\ draft'.status = draft.status
    BY <1>6, <2>1, AfterEventType DEF RecordEvent
  <2>3. QED
    BY <1>6, <2>1, <2>2 DEF RecordEvent, Locked, ActivePointsAtTask, ActiveIsBelowRepeatLimit,
       Exists
<1>7. CASE CommitRecord
  <2>1. target \in Tasks /\ draft.status # "absent"
    BY <1>7 DEF CommitRecord, Locked, Exists
  <2>2. /\ ledger'[target] \in Task /\ ledger'[target].status # "absent"
        /\ ledger'[target].status = "active" => ledger'[target].repeats < 2
        /\ \A u \in Tasks \ {target} : ledger'[u] = ledger[u]
    BY <1>7, <2>1, AfterBatchType DEF CommitRecord
  <2>3. LedgerTypeOK'
    BY <1>7, <2>1, <2>2, FreshTaskType DEF CommitRecord
  <2>4. Locked' /\ ActivePointsAtTask' /\ ActiveIsBelowRepeatLimit'
    BY <1>7, <2>1, <2>2 DEF CommitRecord, Locked, ActivePointsAtTask, ActiveIsBelowRepeatLimit,
       Exists
  <2>5. QED
    BY <2>3, <2>4
<1>8. ASSUME NEW t \in Tasks, MarkCompleted(t) PROVE LedgerIInv'
  <2>1. CASE CompletionIsVerified(ledger[t])
    <3>1. ledger[t] \in Task
      OBVIOUS
    <3>2. /\ ledger'[t] \in Task /\ ledger'[t].status = "completed"
          /\ \A u \in Tasks \ {t} : ledger'[u] = ledger[u]
      BY <1>8, <2>1, <3>1 DEF MarkCompleted, Task
    <3>3. LedgerTypeOK'
      BY <1>8, <2>1, <3>2 DEF MarkCompleted
    <3>4. Locked' /\ ActivePointsAtTask' /\ ActiveIsBelowRepeatLimit'
      BY <1>8, <3>2 DEF MarkCompleted, Locked, ActivePointsAtTask, ActiveIsBelowRepeatLimit,
         Exists
    <3>5. QED
      BY <3>3, <3>4
  <2>2. CASE ~CompletionIsVerified(ledger[t])
    BY <1>8, <2>2 DEF MarkCompleted, Locked, ActivePointsAtTask, ActiveIsBelowRepeatLimit, Exists
  <2>3. QED
    BY <2>1, <2>2
<1>9. CASE LedgerReset
  BY <1>9, FreshTaskType DEF LedgerReset, Locked, ActivePointsAtTask, ActiveIsBelowRepeatLimit,
     Exists
<1>10. CASE UNCHANGED ledgerVars
  BY <1>10 DEF ledgerVars, Locked, ActivePointsAtTask, ActiveIsBelowRepeatLimit, Exists
<1>11. QED
  BY <1>1, <1>2, <1>3, <1>4, <1>5, <1>6, <1>7, <1>8, <1>9, <1>10 DEF LedgerOperation, LedgerWork

LEMMA LedgerStepInv == LedgerIInv /\ [LedgerNext]_ledgerVars => LedgerIInv'
  BY LedgerNextIsOperation, LedgerOperationInv

\* For every instance of the ledger, its files keep their shape, the pointer names a mission
\* that exists, and a mission at the repeat limit is not active: task_ledger.py's operations
\* preserve this whichever caller runs them, in any order, and across crashes.
THEOREM LedgerSafety == LedgerSpec => [](LedgerTypeOK /\ ActiveIsResumable)
<1>1. LedgerIInv => LedgerTypeOK /\ ActiveIsResumable
  BY DEF LedgerIInv, ActiveIsResumable
<1>2. QED
  BY LedgerInitInv, LedgerStepInv, <1>1, PTL DEF LedgerSpec
=============================================================================
