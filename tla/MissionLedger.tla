--------------------------- MODULE MissionLedger ---------------------------
(***************************************************************************)
(* The durable mission ledger of engine/task_ledger.py.                    *)
(*                                                                         *)
(* A mission ("task") is a state.json file; active_task.json points at the *)
(* mission that a workspace turn resumes.  Each operation of the module is *)
(* an action here.  An operation that leaves two durable effects           *)
(* (create_task, activate_task: the state file, then the pointer) is two   *)
(* actions, and record_events, which folds a batch of executor events over *)
(* an in-memory copy and writes it once, is one action per loop iteration  *)
(* and a commit.  _LEDGER_LOCK is held from the first to the last of them, *)
(* so every other operation waits for pc = "idle".  A crash keeps the      *)
(* files and loses the copy.                                               *)
(*                                                                         *)
(* Left out because no decision of the program reads them: goals and other *)
(* text, session ids, revision and epoch counters, timestamps, last_test,  *)
(* attempts and the append-only events.jsonl (which nothing reads).  Also  *)
(* left out are the truncations to the last 300 file records and the last  *)
(* 100 pending reviews: the model is of missions that stay below them.     *)
(***************************************************************************)
EXTENDS Integers, Sequences, WorkspaceNames

CONSTANTS
  Tasks,        \* mission ids create_task may draw
  Evidence,     \* result text and after_hash of a failed event, as its signature sees them
  Batches,      \* event batches a caller hands to record_events (bounds TLC)
  MaxSeq,       \* events recorded in each mission (bounds TLC)
  NoTask, NoPath, NoRequest, NoSignature

ExecutorActions ==
  {"write_file", "read_file", "run_python", "delete_requested", "delete_file",
   "delete_denied", "task_completed", "cancelled", "protocol_error"}

\* exit is exit_code: "ok" is 0, "fail" any other integer, "none" is None.
Event == [action : ExecutorActions, path : Paths \cup {NoPath}, exit : {"ok", "fail", "none"},
          request : Requests \cup {NoRequest}, evidence : Evidence]

Signature == [action : ExecutorActions, path : Paths \cup {NoPath}, evidence : Evidence]

ASSUME LedgerAssumption ==
  /\ NoTask \notin Tasks
  /\ NoPath \notin Paths
  /\ NoRequest \notin Requests
  /\ NoSignature \notin Signature
  /\ Batches \subseteq Seq(Event)
  /\ MaxSeq \in [Tasks -> Nat]

\* status "absent": there is no state.json for this id.
Task == [status : {"absent", "active", "paused", "blocked", "completed"},
         seq : Nat,                                          \* event_seq
         files : [Paths -> {"untracked", "present", "deleted"}],
         mutation : Nat,                                     \* last_mutation_seq
         verification : Nat,                                 \* last_verification_seq
         signature : Signature \cup {NoSignature},           \* last_failure_signature
         repeats : Nat,                                      \* repeat_failure_count
         pending : SUBSET Requests]                          \* pending_deletions

VARIABLES
  ledger,   \* the state.json of each mission
  active,   \* active_task.json
  pc,       \* the operation that holds _LEDGER_LOCK: "idle", "point" or "record"
  target,   \* its mission
  draft,    \* record_events: the copy read from state.json
  todo      \* record_events: the events not folded yet

ledgerVars == <<ledger, active, pc, target, draft, todo>>

FreshTask ==
  [status |-> "active", seq |-> 0, files |-> [p \in Paths |-> "untracked"], mutation |-> 0,
   verification |-> 0, signature |-> NoSignature, repeats |-> 0, pending |-> {}]

NoDraft == [FreshTask EXCEPT !.status = "absent"]

Exists(t) == ledger[t].status # "absent"

LedgerInit ==
  /\ ledger = [t \in Tasks |-> NoDraft]
  /\ active = NoTask
  /\ pc = "idle"
  /\ target = NoTask
  /\ draft = NoDraft
  /\ todo = <<>>

-----------------------------------------------------------------------------
(* record_events: the effect of one event on the copy.                     *)

Mutates(e) == e.action \in {"write_file", "delete_file"} /\ e.path # NoPath

Passed(e) == e.action = "run_python" /\ e.exit = "ok"

FailureSignature(e) == [action |-> e.action, path |-> e.path, evidence |-> e.evidence]

FilesAfter(files, e) ==
  IF Mutates(e)
  THEN [files EXCEPT ![e.path] = IF e.action = "write_file" THEN "present" ELSE "deleted"]
  ELSE files

\* A delete_file event that names a path takes the earlier branch of the elif chain and
\* leaves the pending list alone.
Opened(e) == IF e.action = "delete_requested" /\ e.path # NoPath
             THEN {e.request} \ {NoRequest} ELSE {}

Closed(e) == IF e.action \in {"delete_denied", "delete_file"} /\ ~Mutates(e)
             THEN {e.request} ELSE {}

\* Mutant: a success takes one failure back instead of clearing the count.
RepeatsAfter_Decrement(task, e) ==
  CASE e.exit = "ok"   -> task.repeats - 1
    [] e.exit = "fail" -> IF task.signature = FailureSignature(e) THEN task.repeats + 1 ELSE 1
    [] OTHER           -> task.repeats

\* Mutant: every failure counts, whatever its signature and whatever succeeded in between.
RepeatsAfter_EveryFailure(task, e) == IF e.exit = "fail" THEN task.repeats + 1 ELSE task.repeats

RepeatsAfter(task, e) ==
  CASE e.exit = "ok"   -> 0
    [] e.exit = "fail" -> IF task.signature = FailureSignature(e) THEN task.repeats + 1 ELSE 1
    [] OTHER           -> task.repeats

SignatureAfter(task, e) ==
  CASE e.exit = "ok"   -> NoSignature
    [] e.exit = "fail" -> FailureSignature(e)
    [] OTHER           -> task.signature

AfterEvent(task, e) ==
  [status       |-> task.status,
   seq          |-> task.seq + 1,
   files        |-> FilesAfter(task.files, e),
   mutation     |-> IF Mutates(e) THEN task.seq + 1 ELSE task.mutation,
   verification |-> IF Passed(e) THEN task.seq + 1 ELSE task.verification,
   signature    |-> SignatureAfter(task, e),
   repeats      |-> RepeatsAfter(task, e),
   pending      |-> (task.pending \cup Opened(e)) \ Closed(e)]

AfterBatch(task) == IF task.repeats >= 2 THEN [task EXCEPT !.status = "blocked"] ELSE task

PythonChanged(task) == \E p \in PyPaths : task.files[p] = "present"

\* Mutant: any test that ever passed counts.
CompletionIsVerified_AnyTest(task) ==
  /\ task.pending = {}
  /\ PythonChanged(task) => task.verification > 0

\* Mutant: open reviews do not matter.
CompletionIsVerified_IgnoresReviews(task) == PythonChanged(task) => task.verification > task.mutation

CompletionIsVerified(task) ==
  /\ task.pending = {}
  /\ PythonChanged(task) => task.verification > task.mutation

-----------------------------------------------------------------------------
(* The operations.                                                         *)

\* Mutant: the pointer is written before the state file.
CreateTask_PointerFirst(t) ==
  /\ pc = "idle"
  /\ ~Exists(t)
  /\ active' = t
  /\ pc' = "point"
  /\ target' = t
  /\ UNCHANGED <<ledger, draft, todo>>

CreateTask(t) ==
  /\ pc = "idle"
  /\ ~Exists(t)
  /\ ledger' = [ledger EXCEPT ![t] = FreshTask]
  /\ pc' = "point"
  /\ target' = t
  /\ UNCHANGED <<active, draft, todo>>

\* Mutant: a resume keeps the failure count.
ActivateTask_NoReset(t) ==
  /\ pc = "idle"
  /\ Exists(t)
  /\ ledger' = [ledger EXCEPT ![t].status = "active"]
  /\ pc' = "point"
  /\ target' = t
  /\ UNCHANGED <<active, draft, todo>>

ActivateTask(t) ==
  /\ pc = "idle"
  /\ Exists(t)
  /\ ledger' = [ledger EXCEPT ![t].status = "active", ![t].repeats = 0,
                              ![t].signature = NoSignature]
  /\ pc' = "point"
  /\ target' = t
  /\ UNCHANGED <<active, draft, todo>>

SetActive ==
  /\ pc = "point"
  /\ active' = target
  /\ pc' = "idle"
  /\ target' = NoTask
  /\ UNCHANGED <<ledger, draft, todo>>

PauseActiveTask ==
  /\ pc = "idle"
  /\ active # NoTask
  /\ Exists(active)
  /\ ledger' = [ledger EXCEPT ![active].status = "paused"]
  /\ UNCHANGED <<active, pc, target, draft, todo>>

BeginRecord(t, events) ==
  /\ pc = "idle"
  /\ Exists(t)
  /\ ledger[t].seq + Len(events) <= MaxSeq[t]
  /\ pc' = "record"
  /\ target' = t
  /\ draft' = ledger[t]
  /\ todo' = events
  /\ UNCHANGED <<ledger, active>>

RecordEvent ==
  /\ pc = "record"
  /\ todo # <<>>
  /\ draft' = AfterEvent(draft, Head(todo))
  /\ todo' = Tail(todo)
  /\ UNCHANGED <<ledger, active, pc, target>>

CommitRecord ==
  /\ pc = "record"
  /\ todo = <<>>
  /\ ledger' = [ledger EXCEPT ![target] = AfterBatch(draft)]
  /\ pc' = "idle"
  /\ target' = NoTask
  /\ draft' = NoDraft
  /\ UNCHANGED <<active, todo>>

\* A rejected completion changes only next_action, which the model leaves out.
MarkCompleted(t) ==
  /\ pc = "idle"
  /\ Exists(t)
  /\ ledger' = IF CompletionIsVerified(ledger[t])
               THEN [ledger EXCEPT ![t].status = "completed"] ELSE ledger
  /\ UNCHANGED <<active, pc, target, draft, todo>>

\* The process dies while an operation holds the lock; the next one starts from the files.
LedgerCrash ==
  /\ pc # "idle"
  /\ pc' = "idle"
  /\ target' = NoTask
  /\ draft' = NoDraft
  /\ todo' = <<>>
  /\ UNCHANGED <<ledger, active>>

LedgerNext ==
  \/ \E t \in Tasks : CreateTask(t)
  \/ \E t \in Tasks : ActivateTask(t)
  \/ SetActive
  \/ PauseActiveTask
  \/ \E t \in Tasks, events \in Batches : BeginRecord(t, events)
  \/ RecordEvent
  \/ CommitRecord
  \/ \E t \in Tasks : MarkCompleted(t)
  \/ LedgerCrash

LedgerSpec == LedgerInit /\ [][LedgerNext]_ledgerVars

-----------------------------------------------------------------------------

\* The ledger's variables have their types.
LedgerTypeOK ==
  /\ ledger \in [Tasks -> Task]
  /\ active \in Tasks \cup {NoTask}
  /\ pc \in {"idle", "point", "record"}
  /\ target \in Tasks \cup {NoTask}
  /\ draft \in Task
  /\ todo \in Seq(Event)

\* active_task.json never names a mission without a state file, wherever a crash falls
\* between the two writes of create_task (task_ledger.py:119-120).
ActivePointsAtTask == active # NoTask => Exists(active)

\* A mission that a turn will resume on its own (status "active") never carries two
\* failures with one signature: those wait for the user (task_ledger.py:288-290), and only
\* an explicit resume clears them (156-157).
ActiveIsBelowRepeatLimit == \A t \in Tasks : ledger[t].status = "active" => ledger[t].repeats < 2

\* What the next turn takes for granted when it resumes the mission that the pointer names.
ActiveIsResumable == ActivePointsAtTask /\ ActiveIsBelowRepeatLimit

=============================================================================
