------------------------ MODULE MissionHistoryProofs ------------------------
(***************************************************************************)
(* What the summary fields of a mission mean, for every history of events. *)
(* The fields alone are not an inductive invariant: what carries over a    *)
(* step is their relation to the recorded list (Matches), for the files    *)
(* and for the copy that record_events is folding.                         *)
(***************************************************************************)
EXTENDS MissionHistory, MissionLedgerProofs

-----------------------------------------------------------------------------
(* The relation between the summary fields and the recorded list.          *)

\* Sequence numbers: the last write or delete, and a test that passed.
Numbered(task, h) ==
  /\ task.seq = Len(h)
  /\ task.mutation \in 0..Len(h)
  /\ \A i \in 1..Len(h) : i > task.mutation => ~Mutates(h[i])
  /\ task.verification \in 0..Len(h)
  /\ task.verification > 0 => Passed(h[task.verification])

FilesCover(task, h) == \A p \in Paths : Standing(h, p) => task.files[p] = "present"

PendingCovers(task, h) == \A r \in Requests : OpenReview(h, r) => r \in task.pending

\* The counted failure is the last thing that ran.
LastFailure(task, h) ==
  \E i \in 1..Len(h) :
    /\ h[i].exit = "fail" /\ FailureSignature(h[i]) = task.signature
    /\ \A k \in (i + 1)..Len(h) : h[k].exit = "none"

Counted(task, h) ==
  /\ task.repeats >= 1 => LastFailure(task, h)
  /\ task.repeats >= 2 => RepeatedFailure(h)

BlockedMeans(task, h) == task.status = "blocked" => RepeatedFailure(h)

Matches(task, h) ==
  /\ Numbered(task, h)
  /\ FilesCover(task, h)
  /\ PendingCovers(task, h)
  /\ Counted(task, h)
  /\ BlockedMeans(task, h)

HistoryIInv ==
  /\ LedgerIInv
  /\ HistoryTypeOK
  /\ \A t \in Tasks : Matches(ledger[t], steps[t])
  /\ \A t \in Tasks : ~Exists(t) => steps[t] = <<>>
  /\ pc = "record" => Matches(draft, draftSteps)

-----------------------------------------------------------------------------
(* One more recorded event.                                                *)

LEMMA AppendFacts ==
  ASSUME NEW h \in Seq(Event), NEW e \in Event
  PROVE  /\ Append(h, e) \in Seq(Event)
         /\ Len(Append(h, e)) = Len(h) + 1
         /\ Append(h, e)[Len(h) + 1] = e
         /\ \A i \in 1..Len(h) : Append(h, e)[i] = h[i]
  OBVIOUS

LEMMA EmptyMatches ==
  ASSUME NEW task \in {FreshTask, NoDraft}
  PROVE  Matches(task, <<>>)
  BY DEF Matches, Numbered, FilesCover, PendingCovers, Counted, BlockedMeans, Standing, OpenReview,
     FreshTask, NoDraft

LEMMA AppendNumbered ==
  ASSUME NEW task \in Task, NEW h \in Seq(Event), NEW e \in Event, Numbered(task, h)
  PROVE  Numbered(AfterEvent(task, e), Append(h, e))
<1> DEFINE g == Append(h, e)
           n == Len(h)
           s == AfterEvent(task, e)
<1>1. Len(g) = n + 1 /\ g[n + 1] = e /\ (\A i \in 1..n : g[i] = h[i]) /\ n \in Nat
  BY AppendFacts
<1>2. /\ s.seq = n + 1
      /\ s.mutation = IF Mutates(e) THEN n + 1 ELSE task.mutation
      /\ s.verification = IF Passed(e) THEN n + 1 ELSE task.verification
  BY DEF AfterEvent, Numbered
<1>3. task.mutation \in 0..n /\ task.verification \in 0..n
  BY DEF Numbered
<1>4. \A i \in 1..Len(g) : i > s.mutation => ~Mutates(g[i])
  <2> SUFFICES ASSUME NEW i \in 1..(n + 1), i > s.mutation PROVE ~Mutates(g[i])
    BY <1>1
  <2>1. ~Mutates(e) /\ i > task.mutation
    BY <1>1, <1>2
  <2>2. CASE i = n + 1
    BY <1>1, <2>1, <2>2
  <2>3. CASE i \in 1..n
    BY <1>1, <2>1, <2>3 DEF Numbered
  <2>4. QED
    BY <1>1, <2>2, <2>3
<1>5. s.verification > 0 => Passed(g[s.verification])
  BY <1>1, <1>2, <1>3 DEF Numbered
<1>6. QED
  BY <1>1, <1>2, <1>3, <1>4, <1>5 DEF Numbered

LEMMA AppendStanding ==
  ASSUME NEW h \in Seq(Event), NEW e \in Event, NEW p \in Paths, Standing(Append(h, e), p)
  PROVE  \/ e.action = "write_file" /\ e.path = p
         \/ Standing(h, p) /\ ~(e.action = "delete_file" /\ e.path = p)
<1> DEFINE g == Append(h, e)
           n == Len(h)
<1>1. Len(g) = n + 1 /\ g[n + 1] = e /\ (\A i \in 1..n : g[i] = h[i]) /\ n \in Nat
  BY AppendFacts
<1>2. PICK i \in 1..(n + 1) :
        /\ g[i].action = "write_file" /\ g[i].path = p
        /\ \A j \in (i + 1)..(n + 1) : ~(g[j].action = "delete_file" /\ g[j].path = p)
  BY <1>1 DEF Standing
<1>3. CASE i = n + 1
  BY <1>1, <1>2, <1>3
<1>4. CASE i \in 1..n
  <2>1. ~(e.action = "delete_file" /\ e.path = p)
    BY <1>1, <1>2, <1>4
  <2>2. h[i].action = "write_file" /\ h[i].path = p
    BY <1>1, <1>2, <1>4
  <2>3. \A j \in (i + 1)..n : ~(h[j].action = "delete_file" /\ h[j].path = p)
    BY <1>1, <1>2, <1>4
  <2>4. QED
    BY <1>4, <2>1, <2>2, <2>3 DEF Standing
<1>5. QED
  BY <1>1, <1>3, <1>4

LEMMA AppendFilesCover ==
  ASSUME NEW task \in Task, NEW h \in Seq(Event), NEW e \in Event, FilesCover(task, h)
  PROVE  FilesCover(AfterEvent(task, e), Append(h, e))
<1> SUFFICES ASSUME NEW p \in Paths, Standing(Append(h, e), p)
             PROVE  FilesAfter(task.files, e)[p] = "present"
  BY DEF FilesCover, AfterEvent
<1>1. task.files \in [Paths -> {"untracked", "present", "deleted"}] /\ p # NoPath
  BY LedgerAssumption DEF Task
<1>2. CASE e.action = "write_file" /\ e.path = p
  BY <1>1, <1>2 DEF FilesAfter, Mutates
<1>3. CASE Standing(h, p) /\ ~(e.action = "delete_file" /\ e.path = p)
  BY <1>1, <1>3 DEF FilesAfter, Mutates, FilesCover
<1>4. QED
  BY <1>2, <1>3, AppendStanding

LEMMA AppendPendingCovers ==
  ASSUME NEW task \in Task, NEW h \in Seq(Event), NEW e \in Event, PendingCovers(task, h)
  PROVE  PendingCovers(AfterEvent(task, e), Append(h, e))
<1> DEFINE g == Append(h, e)
           n == Len(h)
<1> SUFFICES ASSUME NEW r \in Requests, OpenReview(g, r)
             PROVE  r \in (task.pending \cup Opened(e)) \ Closed(e)
  BY DEF PendingCovers, AfterEvent
<1>1. Len(g) = n + 1 /\ g[n + 1] = e /\ (\A i \in 1..n : g[i] = h[i]) /\ n \in Nat
  BY AppendFacts
<1>2. PICK i \in 1..(n + 1) :
        /\ g[i].action = "delete_requested" /\ g[i].path # NoPath /\ g[i].request = r
        /\ \A j \in (i + 1)..(n + 1) : r \notin Closed(g[j])
  BY <1>1 DEF OpenReview
<1>3. CASE i = n + 1
  BY <1>1, <1>2, <1>3, LedgerAssumption DEF Opened, Closed
<1>4. CASE i \in 1..n
  <2>1. r \notin Closed(e)
    BY <1>1, <1>2, <1>4
  <2>2. h[i].action = "delete_requested" /\ h[i].path # NoPath /\ h[i].request = r
    BY <1>1, <1>2, <1>4
  <2>3. \A j \in (i + 1)..n : r \notin Closed(h[j])
    BY <1>1, <1>2, <1>4
  <2>4. OpenReview(h, r)
    BY <1>4, <2>2, <2>3 DEF OpenReview
  <2>5. QED
    BY <2>1, <2>4 DEF PendingCovers
<1>5. QED
  BY <1>1, <1>3, <1>4

\* A repeated failure stays one when the list grows.
LEMMA AppendRepeated ==
  ASSUME NEW h \in Seq(Event), NEW e \in Event, RepeatedFailure(h)
  PROVE  RepeatedFailure(Append(h, e))
<1> DEFINE g == Append(h, e)
<1>1. Len(g) = Len(h) + 1 /\ (\A i \in 1..Len(h) : g[i] = h[i]) /\ Len(h) \in Nat
  BY AppendFacts
<1>2. PICK i \in 1..Len(h), j \in 1..Len(h) :
        /\ i < j
        /\ h[i].exit = "fail" /\ h[j].exit = "fail"
        /\ FailureSignature(h[i]) = FailureSignature(h[j])
        /\ \A k \in (i + 1)..(j - 1) : h[k].exit = "none"
  BY DEF RepeatedFailure
<1>3. /\ g[i] = h[i] /\ g[j] = h[j]
      /\ \A k \in (i + 1)..(j - 1) : g[k] = h[k]
  BY <1>1
<1>4. i \in 1..Len(g) /\ j \in 1..Len(g)
  BY <1>1
<1>5. QED
  BY <1>2, <1>3, <1>4 DEF RepeatedFailure

LEMMA AppendCounted ==
  ASSUME NEW task \in Task, NEW h \in Seq(Event), NEW e \in Event, Counted(task, h)
  PROVE  Counted(AfterEvent(task, e), Append(h, e))
<1> DEFINE g == Append(h, e)
           n == Len(h)
           s == AfterEvent(task, e)
<1>1. Len(g) = n + 1 /\ g[n + 1] = e /\ (\A i \in 1..n : g[i] = h[i]) /\ n \in Nat
  BY AppendFacts
<1>2. s.repeats = RepeatsAfter(task, e) /\ s.signature = SignatureAfter(task, e)
  BY DEF AfterEvent
<1>3. task.repeats \in Nat /\ e.exit \in {"ok", "fail", "none"}
  BY DEF Task, Event
<1>4. CASE e.exit = "ok"
  BY <1>2, <1>4 DEF RepeatsAfter, Counted
<1>5. CASE e.exit = "none"
  <2>1. s.repeats = task.repeats /\ s.signature = task.signature
    BY <1>2, <1>5 DEF RepeatsAfter, SignatureAfter
  <2>2. ASSUME task.repeats >= 1 PROVE LastFailure(s, g)
    <3>1. PICK i \in 1..n :
            /\ h[i].exit = "fail" /\ FailureSignature(h[i]) = task.signature
            /\ \A k \in (i + 1)..n : h[k].exit = "none"
      BY <2>2 DEF Counted, LastFailure
    <3>2. g[i] = h[i] /\ i \in 1..(n + 1)
      BY <1>1
    <3>3. \A k \in (i + 1)..(n + 1) : g[k].exit = "none"
      <4> TAKE k \in (i + 1)..(n + 1)
      <4>1. CASE k = n + 1
        BY <1>1, <1>5, <4>1
      <4>2. CASE k \in (i + 1)..n
        BY <1>1, <3>1, <4>2
      <4>3. QED
        BY <1>1, <4>1, <4>2
    <3>4. QED
      BY <1>1, <2>1, <3>1, <3>2, <3>3 DEF LastFailure
  <2>3. task.repeats >= 2 => RepeatedFailure(g)
    BY AppendRepeated DEF Counted
  <2>4. QED
    BY <2>1, <2>2, <2>3 DEF Counted
<1>6. CASE e.exit = "fail"
  <2>1. s.signature = FailureSignature(e)
    BY <1>2, <1>6 DEF SignatureAfter
  <2>2. LastFailure(s, g)
    <3>1. \A k \in ((n + 1) + 1)..(n + 1) : g[k].exit = "none"
      BY <1>1
    <3>2. n + 1 \in 1..Len(g)
      BY <1>1
    <3>3. QED
      BY <1>1, <1>6, <2>1, <3>1, <3>2 DEF LastFailure
  <2>3. ASSUME s.repeats >= 2 PROVE RepeatedFailure(g)
    <3>1. task.signature = FailureSignature(e) /\ task.repeats >= 1
      BY <1>2, <1>3, <1>6, <2>3 DEF RepeatsAfter
    <3>2. PICK i \in 1..n :
            /\ h[i].exit = "fail" /\ FailureSignature(h[i]) = task.signature
            /\ \A k \in (i + 1)..n : h[k].exit = "none"
      BY <3>1 DEF Counted, LastFailure
    <3>3. \A k \in (i + 1)..((n + 1) - 1) : g[k].exit = "none"
      BY <1>1, <3>2
    <3>4. i \in 1..Len(g) /\ n + 1 \in 1..Len(g) /\ i < n + 1 /\ g[i] = h[i]
      BY <1>1
    <3>5. QED
      BY <1>1, <1>6, <3>1, <3>2, <3>3, <3>4 DEF RepeatedFailure
  <2>4. QED
    BY <2>2, <2>3 DEF Counted
<1>7. QED
  BY <1>3, <1>4, <1>5, <1>6

LEMMA AppendMatches ==
  ASSUME NEW task \in Task, NEW h \in Seq(Event), NEW e \in Event, Matches(task, h)
  PROVE  Matches(AfterEvent(task, e), Append(h, e))
<1>1. BlockedMeans(AfterEvent(task, e), Append(h, e))
  BY AfterEventType, AppendRepeated DEF Matches, BlockedMeans
<1>2. QED
  BY <1>1, AppendNumbered, AppendFilesCover, AppendPendingCovers, AppendCounted DEF Matches

\* Changing only the status, to one other than blocked, keeps the relation, and so does the
\* reset of the failure count.
LEMMA StatusMatches ==
  ASSUME NEW task \in Task, NEW h \in Seq(Event), Matches(task, h),
         NEW status \in {"active", "paused", "completed"}
  PROVE  /\ Matches([task EXCEPT !.status = status], h)
         /\ Matches([task EXCEPT !.status = status, !.repeats = 0,
                                 !.signature = NoSignature], h)
<1>1. \A new \in Task :
        /\ new.seq = task.seq /\ new.mutation = task.mutation /\ new.files = task.files
        /\ new.verification = task.verification /\ new.pending = task.pending
        /\ new.status = status
        /\ \/ new.repeats = 0
           \/ new.repeats = task.repeats /\ new.signature = task.signature
        => Matches(new, h)
  BY DEF Matches, Numbered, FilesCover, PendingCovers, Counted, LastFailure, BlockedMeans
<1>2. /\ [task EXCEPT !.status = status] \in Task
      /\ [task EXCEPT !.status = status, !.repeats = 0, !.signature = NoSignature] \in Task
  BY DEF Task
<1>3. QED
  BY <1>1, <1>2 DEF Task

LEMMA CommitMatches ==
  ASSUME NEW task \in Task, NEW h \in Seq(Event), Matches(task, h)
  PROVE  Matches(AfterBatch(task), h)
<1>1. CASE task.repeats >= 2
  <2> DEFINE new == AfterBatch(task)
  <2>1. /\ new.seq = task.seq /\ new.mutation = task.mutation /\ new.files = task.files
        /\ new.verification = task.verification /\ new.pending = task.pending
        /\ new.repeats = task.repeats /\ new.signature = task.signature
    BY <1>1 DEF AfterBatch, Task
  <2>2. RepeatedFailure(h)
    BY <1>1 DEF Matches, Counted
  <2>3. QED
    BY <2>1, <2>2 DEF Matches, Numbered, FilesCover, PendingCovers, Counted, LastFailure,
       BlockedMeans
<1>2. CASE ~(task.repeats >= 2)
  BY <1>2 DEF AfterBatch
<1>3. QED
  BY <1>1, <1>2

-----------------------------------------------------------------------------
(* The steps.                                                              *)

LEMMA HistoryInitInv == HistoryInit => HistoryIInv
<1> SUFFICES ASSUME HistoryInit PROVE HistoryIInv
  OBVIOUS
<1>1. LedgerIInv
  BY LedgerInitInv DEF HistoryInit
<1>2. HistoryTypeOK
  BY <1>1 DEF HistoryInit, HistoryTypeOK, LedgerIInv
<1>3. \A t \in Tasks : ledger[t] = NoDraft /\ steps[t] = <<>>
  BY DEF HistoryInit, LedgerInit
<1>4. QED
  BY <1>1, <1>2, <1>3, EmptyMatches DEF HistoryIInv, HistoryInit, LedgerInit

LEMMA HistoryNextLedger == [HistoryNext]_historyVars => [LedgerNext]_ledgerVars
  BY DEF HistoryNext, historyVars, LedgerNext, ledgerVars

LEMMA HistoryStepInv == HistoryIInv /\ [HistoryNext]_historyVars => HistoryIInv'
<1> SUFFICES ASSUME HistoryIInv, [HistoryNext]_historyVars PROVE HistoryIInv'
  OBVIOUS
<1>a. LedgerIInv'
  BY LedgerStepInv, HistoryNextLedger DEF HistoryIInv
<1>b. /\ LedgerTypeOK /\ LedgerTypeOK' /\ Locked
      /\ steps \in [Tasks -> Seq(Event)] /\ draftSteps \in Seq(Event)
  BY <1>a DEF HistoryIInv, HistoryTypeOK, LedgerIInv
<1>c. /\ \A t \in Tasks : ledger[t] \in Task /\ ledger'[t] \in Task /\ steps[t] \in Seq(Event)
      /\ draft \in Task
  BY <1>b DEF LedgerTypeOK
<1>d. /\ \A t \in Tasks : Matches(ledger[t], steps[t])
      /\ \A t \in Tasks : ~Exists(t) => steps[t] = <<>>
      /\ pc = "record" => Matches(draft, draftSteps)
  BY DEF HistoryIInv
<1>e. ASSUME steps' \in [Tasks -> Seq(Event)], draftSteps' \in Seq(Event),
             \A t \in Tasks : Matches(ledger'[t], steps'[t]),
             \A t \in Tasks : ledger'[t].status = "absent" => steps'[t] = <<>>,
             pc' = "record" => Matches(draft', draftSteps')
      PROVE  HistoryIInv'
  BY <1>a, <1>e DEF HistoryIInv, HistoryTypeOK, LedgerIInv, Exists, Matches, Numbered, FilesCover,
     PendingCovers, Counted, LastFailure, BlockedMeans
<1>1. ASSUME NEW t \in Tasks, CreateTask(t), DropSteps PROVE HistoryIInv'
  <2>1. /\ ledger'[t] = FreshTask /\ steps'[t] = <<>>
        /\ \A u \in Tasks \ {t} : ledger'[u] = ledger[u] /\ steps'[u] = steps[u]
    BY <1>1, <1>b, <1>d DEF CreateTask, DropSteps, LedgerTypeOK
  <2>2. \A u \in Tasks : Matches(ledger'[u], steps'[u])
    BY <2>1, <1>d, EmptyMatches
  <2>3. \A u \in Tasks : ledger'[u].status = "absent" => steps'[u] = <<>>
    BY <2>1, <1>d DEF Exists
  <2>4. QED
    BY <1>1, <1>b, <1>e, <2>2, <2>3 DEF CreateTask, DropSteps
<1>2. ASSUME NEW t \in Tasks, ActivateTask(t), DropSteps PROVE HistoryIInv'
  <2> DEFINE old == ledger[t]
  <2>1. /\ ledger'[t] = [old EXCEPT !.status = "active", !.repeats = 0,
                                    !.signature = NoSignature]
        /\ \A u \in Tasks \ {t} : ledger'[u] = ledger[u]
    BY <1>2, <1>b, <1>c DEF ActivateTask, LedgerTypeOK, Task
  <2>2. steps' = steps /\ draftSteps' \in Seq(Event) /\ pc' = "point"
    BY <1>2, <1>b DEF ActivateTask, DropSteps
  <2>3. old \in Task /\ steps[t] \in Seq(Event) /\ Matches(old, steps[t])
    BY <1>c, <1>d
  <2>4. Matches(ledger'[t], steps[t])
    <3> HIDE DEF old
    <3>1. QED
      BY <2>1, <2>3, StatusMatches
  <2>5. \A u \in Tasks : Matches(ledger'[u], steps'[u])
    BY <2>1, <2>2, <2>4, <1>d
  <2>6. \A u \in Tasks : ledger'[u].status = "absent" => steps'[u] = <<>>
    <3>1. ledger'[t].status = "active"
      BY <2>1, <2>3 DEF Task
    <3>2. QED
      BY <2>1, <2>2, <3>1, <1>d DEF Exists
  <2>7. QED
    BY <1>b, <1>e, <2>2, <2>5, <2>6
<1>3. ASSUME SetActive, DropSteps PROVE HistoryIInv'
  BY <1>3, <1>b, <1>d, <1>e DEF SetActive, DropSteps, Exists
<1>4. ASSUME PauseActiveTask, DropSteps PROVE HistoryIInv'
  <2> DEFINE old == ledger[active]
  <2>1. /\ active \in Tasks
        /\ ledger'[active] = [old EXCEPT !.status = "paused"]
        /\ \A u \in Tasks \ {active} : ledger'[u] = ledger[u]
    BY <1>4, <1>b DEF PauseActiveTask, LedgerTypeOK
  <2>2. steps' = steps /\ draftSteps' \in Seq(Event) /\ pc' = "idle"
    BY <1>4, <1>b DEF PauseActiveTask, DropSteps
  <2>3. old \in Task /\ steps[active] \in Seq(Event) /\ Matches(old, steps[active])
    BY <2>1, <1>c, <1>d
  <2>4. Matches(ledger'[active], steps[active])
    <3> HIDE DEF old
    <3>1. QED
      BY <2>1, <2>3, StatusMatches
  <2>5. \A u \in Tasks : Matches(ledger'[u], steps'[u])
    BY <2>1, <2>2, <2>4, <1>d
  <2>6. \A u \in Tasks : ledger'[u].status = "absent" => steps'[u] = <<>>
    BY <1>4, <2>1, <2>2, <1>d DEF Exists, PauseActiveTask
  <2>7. QED
    BY <1>b, <1>e, <2>2, <2>5, <2>6
<1>5. ASSUME NEW t \in Tasks, NEW events \in Batches, BeginRecord(t, events), LoadSteps
      PROVE  HistoryIInv'
  BY <1>5, <1>b, <1>c, <1>d, <1>e DEF BeginRecord, LoadSteps, Exists
<1>6. ASSUME RecordEvent, AppendStep PROVE HistoryIInv'
  <2>1. Head(todo) \in Event
    BY <1>6, <1>b DEF RecordEvent, LedgerTypeOK
  <2>2. Matches(draft', draftSteps') /\ draftSteps' \in Seq(Event)
    BY <1>6, <1>b, <1>c, <1>d, <2>1, AppendMatches DEF RecordEvent, AppendStep
  <2>3. QED
    BY <1>6, <1>b, <1>d, <1>e, <2>2 DEF RecordEvent, AppendStep, Exists
<1>7. ASSUME CommitRecord, CommitSteps PROVE HistoryIInv'
  <2>1. target \in Tasks /\ draft.status # "absent"
    BY <1>7, <1>b DEF CommitRecord, Locked, Exists
  <2>2. /\ ledger'[target] = AfterBatch(draft) /\ steps'[target] = draftSteps
        /\ \A u \in Tasks \ {target} : ledger'[u] = ledger[u] /\ steps'[u] = steps[u]
    BY <1>7, <1>b, <2>1 DEF CommitRecord, CommitSteps, LedgerTypeOK
  <2>3. Matches(AfterBatch(draft), draftSteps) /\ AfterBatch(draft).status # "absent"
    BY <1>7, <1>b, <1>c, <1>d, <2>1, CommitMatches, AfterBatchType DEF CommitRecord
  <2>4. \A u \in Tasks : Matches(ledger'[u], steps'[u])
    BY <2>2, <2>3, <1>d
  <2>5. \A u \in Tasks : ledger'[u].status = "absent" => steps'[u] = <<>>
    BY <2>2, <2>3, <1>d DEF Exists
  <2>6. steps' \in [Tasks -> Seq(Event)] /\ draftSteps' \in Seq(Event) /\ pc' = "idle"
    <3>1. draftSteps' = <<>> /\ pc' = "idle" /\ steps' = [steps EXCEPT ![target] = draftSteps]
      BY <1>7 DEF CommitRecord, CommitSteps
    <3>2. steps \in [Tasks -> Seq(Event)] /\ draftSteps \in Seq(Event)
      BY <1>b
    <3>3. [steps EXCEPT ![target] = draftSteps] \in [Tasks -> Seq(Event)]
      BY <3>2
    <3>4. <<>> \in Seq(Event)
      OBVIOUS
    <3>5. QED
      BY <3>1, <3>3, <3>4
  <2>7. QED
    BY <1>e, <2>4, <2>5, <2>6
<1>8. ASSUME NEW t \in Tasks, MarkCompleted(t), DropSteps PROVE HistoryIInv'
  <2> DEFINE old == ledger[t]
  <2>1. /\ \/ ledger' = ledger
           \/ /\ ledger'[t] = [old EXCEPT !.status = "completed"]
              /\ \A u \in Tasks \ {t} : ledger'[u] = ledger[u]
        /\ steps' = steps
    BY <1>8, <1>b DEF MarkCompleted, DropSteps, LedgerTypeOK
  <2>2. \A u \in Tasks : Matches(ledger'[u], steps'[u])
    <3>1. old \in Task /\ steps[t] \in Seq(Event) /\ Matches(old, steps[t])
      BY <1>c, <1>d
    <3> HIDE DEF old
    <3>2. Matches([old EXCEPT !.status = "completed"], steps[t])
      BY <3>1, StatusMatches
    <3>3. QED
      BY <2>1, <3>2, <1>d
  <2>3. \A u \in Tasks : ledger'[u].status = "absent" => steps'[u] = <<>>
    BY <1>8, <2>1, <1>d DEF Exists, MarkCompleted
  <2>4. pc' = "idle" /\ draftSteps' \in Seq(Event) /\ steps' \in [Tasks -> Seq(Event)]
    BY <1>8, <1>b DEF MarkCompleted, DropSteps
  <2>5. QED
    BY <1>e, <2>2, <2>3, <2>4
<1>9. ASSUME LedgerCrash, DropSteps PROVE HistoryIInv'
  BY <1>9, <1>b, <1>d, <1>e DEF LedgerCrash, DropSteps, Exists
<1>10. CASE UNCHANGED historyVars
  BY <1>10, <1>b, <1>d, <1>e DEF historyVars, Exists
<1>11. QED
  BY <1>1, <1>2, <1>3, <1>4, <1>5, <1>6, <1>7, <1>8, <1>9, <1>10 DEF HistoryNext

\* What completion_is_verified compares stands for the whole list: a mission that passes it
\* has no open review and no Python file that was written after the last test that passed.
LEMMA VerifiedMeansTested ==
  ASSUME NEW task \in Task, NEW h \in Seq(Event), Matches(task, h), CompletionIsVerified(task)
  PROVE  /\ \A p \in PyPaths : ~UntestedWrite(h, p)
         /\ \A r \in Requests : ~OpenReview(h, r)
<1>1. \A r \in Requests : ~OpenReview(h, r)
  BY DEF Matches, PendingCovers, CompletionIsVerified
<1>2. ASSUME NEW p \in PyPaths, UntestedWrite(h, p) PROVE FALSE
  <2>1. p \in Paths /\ p # NoPath
    BY LedgerAssumption, NamesAssumption
  <2>2. PICK i \in 1..Len(h) :
          /\ h[i].action = "write_file" /\ h[i].path = p
          /\ \A j \in (i + 1)..Len(h) :
               ~Passed(h[j]) /\ ~(h[j].action = "delete_file" /\ h[j].path = p)
    BY <1>2 DEF UntestedWrite
  <2>3. task.files[p] = "present"
    BY <2>1, <2>2 DEF Matches, FilesCover, Standing
  <2>4. task.verification > task.mutation
    BY <2>3 DEF CompletionIsVerified, PythonChanged
  <2>5. Mutates(h[i])
    BY <2>1, <2>2 DEF Mutates
  <2>6. i <= task.mutation /\ task.verification \in (i + 1)..Len(h)
    BY <2>4, <2>5 DEF Matches, Numbered
  <2>7. Passed(h[task.verification])
    BY <2>4, <2>6 DEF Matches, Numbered
  <2>8. QED
    BY <2>2, <2>6, <2>7
<1>3. QED
  BY <1>1, <1>2

LEMMA HistoryInvariant == HistorySpec => []HistoryIInv
  BY HistoryInitInv, HistoryStepInv, PTL DEF HistorySpec

-----------------------------------------------------------------------------

\* The ledger's files, the copy under the lock and the recorded lists keep their types.
THEOREM HistoryTypes == HistorySpec => []HistoryTypeOK
<1>1. HistoryIInv => HistoryTypeOK
  BY DEF HistoryIInv
<1>2. QED
  BY <1>1, HistoryInvariant, PTL

\* The pointer and the repeat limit, for the specification with the recorded lists.
THEOREM HistorySafety == HistorySpec => []ActiveIsResumable
<1>1. HistoryIInv => ActiveIsResumable
  BY DEF HistoryIInv, LedgerIInv, ActiveIsResumable
<1>2. QED
  BY <1>1, HistoryInvariant, PTL

\* A mission is blocked only by two failures with one signature and no success between them,
\* whatever batches the callers hand to record_events.
THEOREM BlockedMeansRepeat == HistorySpec => []BlockedAfterRepeat
<1>1. HistoryIInv => BlockedAfterRepeat
  BY DEF HistoryIInv, Matches, BlockedMeans, BlockedAfterRepeat
<1>2. QED
  BY <1>1, HistoryInvariant, PTL

\* No sequence of operations completes a mission with an untested Python file or an open
\* review in its recorded list.
THEOREM CompletionIsGated == HistorySpec => CompletionGate
<1> DEFINE Gate == \A t \in Tasks :
                     ledger[t].status # "completed" /\ ledger'[t].status = "completed"
                       => /\ \A p \in PyPaths : ~UntestedWrite(steps[t], p)
                          /\ \A r \in Requests : ~OpenReview(steps[t], r)
<1>1. HistoryIInv /\ [HistoryNext]_historyVars => [Gate]_historyVars
  <2> SUFFICES ASSUME HistoryIInv, HistoryNext, NEW t \in Tasks,
                      ledger[t].status # "completed", ledger'[t].status = "completed"
               PROVE  /\ \A p \in PyPaths : ~UntestedWrite(steps[t], p)
                      /\ \A r \in Requests : ~OpenReview(steps[t], r)
    OBVIOUS
  <2>1. /\ ledger \in [Tasks -> Task] /\ steps[t] \in Seq(Event) /\ draft \in Task
        /\ Matches(ledger[t], steps[t]) /\ Locked
    BY DEF HistoryIInv, HistoryTypeOK, LedgerIInv, LedgerTypeOK
  <2>2. ledger[t] \in Task
    BY <2>1
  <2>3. CASE \E u \in Tasks : MarkCompleted(u)
    <3>1. CompletionIsVerified(ledger[t])
      BY <2>1, <2>3 DEF MarkCompleted
    <3>2. QED
      BY <2>1, <2>2, <3>1, VerifiedMeansTested
  <2>4. CASE CommitRecord
    BY <2>1, <2>2, <2>4 DEF CommitRecord, Locked, AfterBatch, Task
  <2>5. CASE ~CommitRecord /\ ~\E u \in Tasks : MarkCompleted(u)
    <3>1. ASSUME NEW u \in Tasks, CreateTask(u) PROVE FALSE
      BY <2>1, <3>1 DEF CreateTask, FreshTask
    <3>2. ASSUME NEW u \in Tasks, ActivateTask(u) PROVE FALSE
      BY <2>1, <2>2, <3>2 DEF ActivateTask, Task
    <3>3. ASSUME PauseActiveTask PROVE FALSE
      BY <2>1, <2>2, <3>3 DEF PauseActiveTask, Task
    <3>4. QED
      BY <2>5, <3>1, <3>2, <3>3 DEF HistoryNext, SetActive, BeginRecord, RecordEvent, LedgerCrash
  <2>6. QED
    BY <2>3, <2>4, <2>5
<1>2. QED
  BY <1>1, HistoryInvariant, PTL DEF CompletionGate, HistorySpec
=============================================================================
