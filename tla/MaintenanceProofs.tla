-------------------------- MODULE MaintenanceProofs --------------------------
(***************************************************************************)
(* Idle maintenance, for any number of saves, runs, commands,              *)
(* cancellations, days and ends of the process: what it publishes is true  *)
(* of the disk, and a cancelled run enters no later phase.                 *)
(***************************************************************************)
EXTENDS IdleMaintenance, TLAPS

Rows == [at : Steps, task : Tasks, force : BOOLEAN, seen : 0..MaxSaves + 1,
         name : ReportNames \cup {<<0, 0>>}]
Moved(t, row) == thread' = [thread EXCEPT ![t] = row]

Documenting == {"manifest", "document"}
Reporting == {"markdown", "pdf", "record"}

\* A run that holds the coordinator, and the places of a command's one task.
HoldsRun(row) == row.task = "run" /\ row.at \notin {"rest", "call"}
StepsOf(task) == IF task = "docs" THEN {"rest", "scan"} \cup Documenting
                                  ELSE {"rest", "due"} \cup Reporting
TaskSteps == {"rest", "scan", "due"} \cup Documenting \cup Reporting

\* One run at a time, and what the user has asked for shows in the event.
ThreadsOK ==
  /\ thread \in [Threads -> Rows]
  /\ \A t \in Threads : HoldsRun(thread[t]) =>
       running /\ \A u \in Threads : HoldsRun(thread[u]) => u = t
  /\ \A t \in Threads : thread[t].task # "run" =>
       thread[t].at \in StepsOf(thread[t].task) /\ counts.tasks # 0
  /\ counts \in [saves : 0..MaxSaves, launches : Nat, tasks : 0..MaxTasks, cancels : Nat,
                 stops : Nat]
  /\ running \in BOOLEAN /\ cancelled \in BOOLEAN /\ scoutStop \in BOOLEAN /\ asked \in BOOLEAN
  /\ asked => cancelled

ValuesOK ==
  /\ files \in 1..counts.saves + 1 /\ torn \in BOOLEAN /\ alone \in BOOLEAN
  /\ manifest \in 0..MaxSaves + 1 /\ document \in 0..MaxSaves + 1
  /\ today \in 1..MaxDays /\ lastScan \in 0..today /\ findings \in 0..today

\* A pass that is alone writes to the document what it has written to the manifest, and whatever
\* else comes between the two is torn.
DocsOK ==
  /\ alone =>
       /\ \A t, u \in Threads : thread[t].at \in Documenting /\ thread[u].at \in Documenting => t = u
       /\ \A t \in Threads : thread[t].at = "document" => manifest = thread[t].seen
  /\ ~alone /\ (\E t \in Threads : thread[t].at \in Documenting) => torn
  /\ ~torn /\ (\A t \in Threads : thread[t].at # "document") => document = manifest

\* A report that is being written: a run's has the day's name, which no recorded report has.
Written(row) ==
  /\ row.name \in ReportNames /\ row.name[1] <= today
  /\ row.task = "run" => row.name[2] = 0 /\ row.name \notin reports
  /\ row.task # "run" => row.name[2] # 0
  /\ row.at \in {"pdf", "record"} => <<row.name, "md">> \in disk
  /\ row.at = "record" => <<row.name, "pdf">> \in disk

ReportsOK ==
  /\ reports \subseteq ReportNames /\ disk \subseteq UNION {Files(n) : n \in ReportNames}
  /\ reportDay \in 0..today
  /\ \A name \in reports : name[2] = 0 => name[1] <= reportDay
  /\ \A t \in Threads : thread[t].at \in Reporting => Written(thread[t])
  /\ RecordedReportExists

MaintenanceIInv == ThreadsOK /\ ValuesOK /\ DocsOK /\ ReportsOK

LEMMA Bounds == MaxSaves \in Nat /\ MaxTasks \in Nat /\ MaxDays \in Nat /\ MaxDays >= 1
BY MaintenanceAssumption

LEMMA RestingIsARow == Resting \in Rows /\ Resting.at = "rest" /\ Resting.task = "run"
BY Bounds DEF Resting, Rows, Steps, Tasks, ReportNames

LEMMA MaintenanceInitInv == MaintenanceInit => MaintenanceIInv
<1> SUFFICES ASSUME MaintenanceInit PROVE MaintenanceIInv
  OBVIOUS
<1>1. \A t \in Threads : thread[t] = Resting
  BY DEF MaintenanceInit
<1>0. counts.saves = 0 /\ counts.tasks = 0 /\
      counts \in [saves : 0..MaxSaves, launches : Nat, tasks : 0..MaxTasks, cancels : Nat,
                  stops : Nat]
  BY Bounds DEF MaintenanceInit
<1>2. ThreadsOK
  <2>1. thread \in [Threads -> Rows]
    BY RestingIsARow DEF MaintenanceInit
  <2>2. \A t \in Threads : ~HoldsRun(thread[t]) /\ thread[t].task = "run"
    BY <1>1, RestingIsARow DEF HoldsRun
  <2>3. QED
    BY <1>0, <2>1, <2>2 DEF MaintenanceInit, ThreadsOK
<1>3. ValuesOK
  <2>1. files \in 1..counts.saves + 1
    BY <1>0 DEF MaintenanceInit
  <2>0. torn \in BOOLEAN /\ alone \in BOOLEAN
    BY DEF MaintenanceInit
  <2>2. manifest \in 0..MaxSaves + 1 /\ document \in 0..MaxSaves + 1
    BY Bounds DEF MaintenanceInit
  <2>3. today \in 1..MaxDays /\ lastScan \in 0..today /\ findings \in 0..today
    BY Bounds DEF MaintenanceInit
  <2>4. QED
    BY <2>0, <2>1, <2>2, <2>3 DEF ValuesOK
<1>4. DocsOK
  BY <1>1, RestingIsARow DEF MaintenanceInit, DocsOK, Documenting
<1>5. ReportsOK
  BY <1>1, RestingIsARow DEF MaintenanceInit, ReportsOK, Reporting, RecordedReportExists
<1>6. QED
  BY <1>2, <1>3, <1>4, <1>5 DEF MaintenanceIInv

\* One thread moves: what the others' parts of the invariant keep.
LEMMA RowMoves ==
  ASSUME NEW t \in Threads, NEW row, Moved(t, row), thread \in [Threads -> Rows]
  PROVE  thread'[t] = row /\ \A u \in Threads : u # t => thread'[u] = thread[u]
BY DEF Moved

LEMMA ThreadsKept ==
  ASSUME ThreadsOK, NEW t \in Threads, NEW row \in Rows, Moved(t, row),
         running' = running, cancelled' = cancelled, asked' = asked, scoutStop' \in BOOLEAN,
         counts' = counts,
         row.task # "run" => row.task = thread[t].task /\ row.at \in StepsOf(row.task),
         HoldsRun(row) => HoldsRun(thread[t])
  PROVE  ThreadsOK'
<1>1. thread' \in [Threads -> Rows] /\ thread'[t] = row
  BY DEF ThreadsOK, Moved
<1>2. \A u \in Threads : u # t => thread'[u] = thread[u]
  BY RowMoves DEF ThreadsOK
<1>3. \A u \in Threads : HoldsRun(thread'[u]) => HoldsRun(thread[u])
  BY <1>1, <1>2
<1>4. \A u \in Threads : thread'[u].task # "run" =>
        thread'[u].task = thread[u].task /\ thread'[u].at \in StepsOf(thread'[u].task)
  BY <1>1, <1>2 DEF ThreadsOK
<1>5. QED
  BY <1>1, <1>3, <1>4 DEF ThreadsOK

LEMMA DocsKept ==
  ASSUME ThreadsOK, DocsOK, NEW t \in Threads, NEW row \in Rows, Moved(t, row),
         manifest' = manifest, document' = document, torn' = torn, alone' = alone,
         thread[t].at \notin Documenting, row.at \notin Documenting
  PROVE  DocsOK'
<1>1. thread'[t] = row /\ \A u \in Threads : u # t => thread'[u] = thread[u]
  BY RowMoves DEF ThreadsOK
<1>2. \A u \in Threads : thread'[u].at \in Documenting \/ thread[u].at \in Documenting =>
        thread'[u] = thread[u]
  BY <1>1
<1>3. \A u \in Threads : (thread'[u].at = "document") <=> (thread[u].at = "document")
  BY <1>1 DEF Documenting
<1>4. \A u \in Threads : thread'[u].at \in Documenting <=> thread[u].at \in Documenting
  BY <1>1
<1>5. ASSUME alone'
      PROVE  /\ \A u, v \in Threads :
                   thread'[u].at \in Documenting /\ thread'[v].at \in Documenting => u = v
             /\ \A u \in Threads : thread'[u].at = "document" => manifest' = thread'[u].seen
  <2>1. \A u \in Threads : thread'[u].at = "document" => thread'[u] = thread[u]
    BY <1>2 DEF Documenting
  <2>2. QED
    BY <1>4, <1>5, <2>1 DEF DocsOK
<1>6. ~alone' /\ (\E u \in Threads : thread'[u].at \in Documenting) => torn'
  BY <1>4 DEF DocsOK
<1>7. ~torn' /\ (\A u \in Threads : thread'[u].at # "document") => document' = manifest'
  BY <1>3 DEF DocsOK
<1>8. QED
  BY <1>5, <1>6, <1>7 DEF DocsOK

LEMMA ReportsKept ==
  ASSUME ThreadsOK, ReportsOK, NEW t \in Threads, NEW row \in Rows, Moved(t, row),
         reports' = reports, disk' = disk, reportDay' = reportDay, today' = today,
         row.at \notin Reporting
  PROVE  ReportsOK'
<1>1. thread'[t] = row /\ \A u \in Threads : u # t => thread'[u] = thread[u]
  BY RowMoves DEF ThreadsOK
<1>2. \A u \in Threads : thread'[u].at \in Reporting =>
        thread'[u] = thread[u] /\ Written(thread[u])
  BY <1>1 DEF ReportsOK
<1>3. ASSUME NEW u \in Threads, thread'[u].at \in Reporting PROVE Written(thread[u])'
  <2>1. thread'[u] = thread[u] /\ Written(thread[u])
    BY <1>2, <1>3
  <2>2. QED
    BY <2>1 DEF Written
<1>4. QED
  BY <1>2, <1>3 DEF ReportsOK, RecordedReportExists

\* Where GoTo and After take a thread.
There(t, step) == [thread[t] EXCEPT !.at = step]
AfterRow(t, step) ==
  IF thread[t].task # "run" THEN Resting
  ELSE There(t, IF cancelled THEN "finish" ELSE step)

LEMMA GoesThere ==
  ASSUME thread \in [Threads -> Rows], NEW t \in Threads, NEW step \in Steps
  PROVE  /\ GoTo(t, step) <=> Moved(t, There(t, step))
         /\ There(t, step) \in Rows /\ There(t, step).at = step
         /\ There(t, step).task = thread[t].task /\ There(t, step).name = thread[t].name
         /\ There(t, step).seen = thread[t].seen
<1>1. thread[t] \in Rows
  OBVIOUS
<1>2. GoTo(t, step) <=> Moved(t, There(t, step))
  BY DEF GoTo, Moved, There
<1>3. QED
  BY <1>1, <1>2 DEF There, Rows

LEMMA GoesAfter ==
  ASSUME thread \in [Threads -> Rows], NEW t \in Threads, NEW step \in Steps, After(t, step)
  PROVE  /\ Moved(t, AfterRow(t, step)) /\ AfterRow(t, step) \in Rows
         /\ thread[t].task # "run" => AfterRow(t, step) = Resting
         /\ thread[t].task = "run" => AfterRow(t, step).task = "run" /\
              AfterRow(t, step).at = IF cancelled THEN "finish" ELSE step
<1>1. "finish" \in Steps
  BY DEF Steps
<1>2. CASE thread[t].task # "run"
  BY <1>2, RestingIsARow DEF After, AfterRow, Rest, Moved
<1>3. CASE thread[t].task = "run" /\ cancelled
  BY <1>1, <1>3, GoesThere DEF After, AfterRow
<1>4. CASE thread[t].task = "run" /\ ~cancelled
  BY <1>4, GoesThere DEF After, AfterRow
<1>5. QED
  BY <1>2, <1>3, <1>4

\* The steps that write neither documents nor reports.
LEMMA QuietMove ==
  ASSUME MaintenanceIInv, NEW t \in Threads, NEW row \in Rows, Moved(t, row),
         running' = running, cancelled' = cancelled, asked' = asked, scoutStop' \in BOOLEAN,
         counts' = counts, today' = today, UNCHANGED docVars, UNCHANGED reportVars,
         lastScan' \in 0..today, findings' \in 0..today,
         row.task = "run", HoldsRun(row) => HoldsRun(thread[t]),
         thread[t].at \notin Documenting, row.at \notin Documenting \cup Reporting
  PROVE  MaintenanceIInv'
<1>1. /\ files' = files /\ manifest' = manifest /\ document' = document /\ torn' = torn /\ alone' = alone
      /\ disk' = disk /\ reports' = reports /\ reportDay' = reportDay
  BY DEF docVars, reportVars
<1>2. ThreadsOK'
  BY ThreadsKept DEF MaintenanceIInv
<1>3. ValuesOK'
  BY <1>1 DEF MaintenanceIInv, ValuesOK
<1>4. DocsOK'
  BY <1>1, DocsKept DEF MaintenanceIInv
<1>5. ReportsOK'
  BY <1>1, ReportsKept DEF MaintenanceIInv
<1>6. QED
  BY <1>2, <1>3, <1>4, <1>5 DEF MaintenanceIInv

LEMMA OnlyRunsGoOn ==
  ASSUME ThreadsOK, NEW t \in Threads, thread[t].at \notin TaskSteps
  PROVE  thread[t].task = "run"
BY DEF ThreadsOK, StepsOf, TaskSteps

LEMMA QuietAfter ==
  ASSUME MaintenanceIInv, NEW t \in Threads,
         NEW step \in {"free", "freshness", "due", "scout", "finish"}, After(t, step),
         thread[t].at \notin {"rest", "call"} \cup Documenting,
         UNCHANGED <<coordination, docVars, reportVars, scoutVars, today, counts>>
  PROVE  MaintenanceIInv'
<1>1. thread \in [Threads -> Rows] /\ step \in Steps
  BY DEF MaintenanceIInv, ThreadsOK, Steps
<1> DEFINE row == AfterRow(t, step)
<1>2. /\ Moved(t, row) /\ row \in Rows /\ row.task = "run"
      /\ row.at \in {"rest", "finish", step} /\ (HoldsRun(row) => HoldsRun(thread[t]))
  <2>1. CASE thread[t].task # "run"
    BY <1>1, <2>1, GoesAfter, RestingIsARow DEF HoldsRun
  <2>2. CASE thread[t].task = "run"
    BY <1>1, <2>2, GoesAfter DEF HoldsRun
  <2>3. QED
    BY <2>1, <2>2
<1> HIDE DEF row
<1>3. /\ running' = running /\ cancelled' = cancelled /\ asked' = asked
      /\ scoutStop' \in BOOLEAN /\ counts' = counts /\ today' = today
      /\ UNCHANGED docVars /\ UNCHANGED reportVars
  BY DEF coordination, MaintenanceIInv, ThreadsOK
<1>4. lastScan' \in 0..today /\ findings' \in 0..today
  BY DEF scoutVars, MaintenanceIInv, ValuesOK
<1>5. row.at \notin Documenting \cup Reporting /\ thread[t].at \notin Documenting
  BY <1>2 DEF Documenting, Reporting
<1>6. QED
  BY <1>2, <1>3, <1>4, <1>5, QuietMove

\* A run goes on to one of its own steps.
LEMMA QuietGoTo ==
  ASSUME MaintenanceIInv, NEW t \in Threads,
         thread[t].at \notin TaskSteps \cup {"call"},
         NEW step \in {"freshness", "due", "fetch", "state", "findings", "finish"}, GoTo(t, step),
         running' = running, cancelled' = cancelled, asked' = asked, scoutStop' \in BOOLEAN,
         counts' = counts, today' = today, UNCHANGED docVars, UNCHANGED reportVars,
         lastScan' \in 0..today, findings' \in 0..today
  PROVE  MaintenanceIInv'
<1>1. thread \in [Threads -> Rows] /\ step \in Steps /\ thread[t].task = "run"
  BY OnlyRunsGoOn DEF MaintenanceIInv, ThreadsOK, Steps
<1> DEFINE row == There(t, step)
<1>2. Moved(t, row) /\ row \in Rows /\ row.task = "run" /\ row.at = step
  BY <1>1, GoesThere
<1> HIDE DEF row
<1>3. HoldsRun(thread[t]) /\ thread[t].at \notin Documenting
      /\ row.at \notin Documenting \cup Reporting
  BY <1>1, <1>2 DEF HoldsRun, TaskSteps, Documenting, Reporting
<1>4. QED
  BY <1>2, <1>3, QuietMove

\* The steps on which neither reports nor documents are written.
LEMMA QuietSteps ==
  ASSUME MaintenanceIInv, NEW t \in Threads,
         \/ \E next \in {"freshness", "due", "finish"} : CheckStorage(t, next)
         \/ Freshness(t) \/ BeginScan(t) \/ Fetch(t) \/ StoreScan(t) \/ StoreFindings(t)
  PROVE  MaintenanceIInv'
<1>1. lastScan \in 0..today /\ findings \in 0..today /\ today \in 0..today
  BY Bounds DEF MaintenanceIInv, ValuesOK
<1>2. scoutStop \in BOOLEAN
  BY DEF MaintenanceIInv, ThreadsOK
<1>3. ASSUME NEW next \in {"freshness", "due", "finish"}, CheckStorage(t, next)
      PROVE  MaintenanceIInv'
  <2>1. thread[t].at = "free" /\
        UNCHANGED <<coordination, docVars, reportVars, scoutVars, today, counts>>
    BY <1>3 DEF CheckStorage, At
  <2>2. CASE next = "due"
    <3>1. After(t, "due")
      BY <1>3, <2>2 DEF CheckStorage
    <3>2. QED
      BY <2>1, <3>1, QuietAfter DEF Documenting
  <2>3. CASE next # "due"
    <3>1. GoTo(t, next)
      BY <1>3, <2>3 DEF CheckStorage
    <3>2. QED
      BY <1>1, <1>2, <2>1, <3>1, QuietGoTo
         DEF coordination, scoutVars, TaskSteps, Documenting, Reporting
  <2>4. QED
    BY <2>2, <2>3
<1>4. ASSUME Freshness(t) PROVE MaintenanceIInv'
  <2>1. /\ thread[t].at = "freshness" /\ After(t, "due")
        /\ UNCHANGED <<coordination, docVars, reportVars, scoutVars, today, counts>>
    BY <1>4 DEF Freshness, At
  <2>2. QED
    BY <2>1, QuietAfter DEF Documenting
<1>5. ASSUME BeginScan(t) PROVE MaintenanceIInv'
  <2>1. /\ thread[t].at = "scout" /\ GoTo(t, "fetch") /\ scoutStop' \in BOOLEAN
        /\ running' = running /\ cancelled' = cancelled /\ asked' = asked
        /\ UNCHANGED docVars /\ UNCHANGED reportVars /\ today' = today /\ counts' = counts
        /\ lastScan' = lastScan /\ findings' = findings
    BY <1>5 DEF BeginScan, At, scoutVars
  <2>2. QED
    BY <1>1, <2>1, QuietGoTo DEF TaskSteps, Documenting, Reporting
<1>6. ASSUME Fetch(t) PROVE MaintenanceIInv'
  <2>1. /\ thread[t].at = "fetch" /\ (GoTo(t, "finish") \/ GoTo(t, "state"))
        /\ running' = running /\ cancelled' = cancelled /\ asked' = asked
        /\ UNCHANGED docVars /\ UNCHANGED reportVars /\ today' = today /\ counts' = counts
        /\ lastScan' = lastScan /\ findings' = findings /\ scoutStop' \in BOOLEAN
    BY <1>2, <1>6 DEF Fetch, At, scoutVars, coordination
  <2>2. QED
    BY <1>1, <2>1, QuietGoTo DEF TaskSteps, Documenting, Reporting
<1>7. ASSUME StoreScan(t) PROVE MaintenanceIInv'
  <2>1. /\ thread[t].at = "state" /\ GoTo(t, "findings") /\ scoutStop' \in BOOLEAN
        /\ running' = running /\ cancelled' = cancelled /\ asked' = asked
        /\ UNCHANGED docVars /\ UNCHANGED reportVars /\ today' = today /\ counts' = counts
        /\ lastScan' = today /\ findings' = findings
    BY <1>2, <1>7 DEF StoreScan, At, coordination
  <2>2. QED
    BY <1>1, <2>1, QuietGoTo DEF TaskSteps, Documenting, Reporting
<1>8. ASSUME StoreFindings(t) PROVE MaintenanceIInv'
  <2>1. /\ thread[t].at = "findings" /\ GoTo(t, "finish") /\ scoutStop' \in BOOLEAN
        /\ running' = running /\ cancelled' = cancelled /\ asked' = asked
        /\ UNCHANGED docVars /\ UNCHANGED reportVars /\ today' = today /\ counts' = counts
        /\ lastScan' = lastScan /\ findings' = today
    BY <1>2, <1>8 DEF StoreFindings, At, coordination
  <2>2. QED
    BY <1>1, <2>1, QuietGoTo DEF TaskSteps, Documenting, Reporting
<1>9. QED
  BY <1>3, <1>4, <1>5, <1>6, <1>7, <1>8

\* The coordinator: a run begins only when none is running, and ends its own.
LEMMA AcquireInv ==
  ASSUME MaintenanceIInv, NEW t \in Threads, Acquire(t)
  PROVE  MaintenanceIInv'
<1>1. /\ thread \in [Threads -> Rows] /\ thread[t].at = "call" /\ thread[t].task = "run"
      /\ counts' = counts /\ today' = today /\ scoutStop' = scoutStop /\ scoutStop \in BOOLEAN
      /\ UNCHANGED docVars /\ UNCHANGED reportVars /\ lastScan' = lastScan /\ findings' = findings
      /\ lastScan \in 0..today /\ findings \in 0..today
  BY OnlyRunsGoOn
     DEF MaintenanceIInv, ThreadsOK, ValuesOK, Acquire, At, scoutVars, TaskSteps, Documenting, Reporting
<1>2. CASE running
  <2>1. Moved(t, Resting) /\ running' = running /\ cancelled' = cancelled /\ asked' = asked
    BY <1>2 DEF Acquire, Rest, Moved
  <2>2. QED
    BY <1>1, <2>1, QuietMove, RestingIsARow DEF HoldsRun, Documenting, Reporting
<1>3. CASE ~running
  <2> DEFINE row == There(t, "scan")
  <2>1. "scan" \in Steps
    BY DEF Steps
  <2>2. Moved(t, row) /\ row \in Rows /\ row.at = "scan" /\ row.task = "run"
    BY <1>1, <1>3, <2>1, GoesThere DEF Acquire
  <2>3. running' = TRUE /\ cancelled' = FALSE /\ asked' = FALSE
    BY <1>3 DEF Acquire
  <2> HIDE DEF row
  <2>4. thread' \in [Threads -> Rows] /\ thread'[t] = row
        /\ \A u \in Threads : u # t => thread'[u] = thread[u]
    BY <1>1, <2>2, RowMoves DEF Moved
  <2>5. \A u \in Threads : u # t => ~HoldsRun(thread'[u])
    BY <1>3, <2>4 DEF MaintenanceIInv, ThreadsOK
  <2>6. \A u \in Threads : thread'[u].task # "run" => thread'[u] = thread[u]
    BY <2>2, <2>4
  <2>7. ThreadsOK'
    BY <1>1, <2>3, <2>4, <2>5, <2>6 DEF MaintenanceIInv, ThreadsOK
  <2>8. /\ files' = files /\ manifest' = manifest /\ document' = document /\ torn' = torn /\ alone' = alone
        /\ disk' = disk /\ reports' = reports /\ reportDay' = reportDay
    BY <1>1 DEF docVars, reportVars
  <2>9. ValuesOK'
    BY <1>1, <2>8 DEF MaintenanceIInv, ValuesOK
  <2>10. DocsOK' /\ ReportsOK'
    BY <1>1, <2>2, <2>8, DocsKept, ReportsKept DEF MaintenanceIInv, Documenting, Reporting
  <2>11. QED
    BY <2>7, <2>9, <2>10 DEF MaintenanceIInv
<1>4. QED
  BY <1>2, <1>3

LEMMA FinishRunInv ==
  ASSUME MaintenanceIInv, NEW t \in Threads, FinishRun(t)
  PROVE  MaintenanceIInv'
<1>1. /\ thread \in [Threads -> Rows] /\ thread[t].at = "finish" /\ thread[t].task = "run"
      /\ counts' = counts /\ today' = today /\ scoutStop' = scoutStop /\ running' \in BOOLEAN
      /\ cancelled' = cancelled /\ asked' = asked
      /\ UNCHANGED docVars /\ UNCHANGED reportVars /\ lastScan' = lastScan /\ findings' = findings
      /\ Moved(t, Resting)
  BY OnlyRunsGoOn
     DEF MaintenanceIInv, ThreadsOK, FinishRun, Rest, Moved, At, scoutVars, TaskSteps, Documenting,
         Reporting
<1>2. thread' \in [Threads -> Rows] /\ thread'[t] = Resting
      /\ \A u \in Threads : u # t => thread'[u] = thread[u]
  BY <1>1, RowMoves, RestingIsARow DEF Moved
<1>3. \A u \in Threads : ~HoldsRun(thread'[u])
  <2>1. HoldsRun(thread[t]) /\ ~HoldsRun(Resting)
    BY <1>1, RestingIsARow DEF HoldsRun
  <2>2. QED
    BY <1>2, <2>1 DEF MaintenanceIInv, ThreadsOK
<1>4. \A u \in Threads : thread'[u].task # "run" => thread'[u] = thread[u]
  BY <1>2, RestingIsARow
<1>5. ThreadsOK'
  BY <1>1, <1>2, <1>3, <1>4 DEF MaintenanceIInv, ThreadsOK
<1>6. /\ files' = files /\ manifest' = manifest /\ document' = document /\ torn' = torn /\ alone' = alone
      /\ disk' = disk /\ reports' = reports /\ reportDay' = reportDay
  BY <1>1 DEF docVars, reportVars
<1>7. ValuesOK'
  BY <1>1, <1>6 DEF MaintenanceIInv, ValuesOK
<1>8. DocsOK' /\ ReportsOK'
  BY <1>1, <1>6, DocsKept, ReportsKept, RestingIsARow DEF MaintenanceIInv, Documenting, Reporting
<1>9. QED
  BY <1>5, <1>7, <1>8 DEF MaintenanceIInv

\* The documenter.
LEMMA ScanFilesInv ==
  ASSUME MaintenanceIInv, NEW t \in Threads, ScanFiles(t)
  PROVE  MaintenanceIInv'
<1>1. /\ thread \in [Threads -> Rows] /\ thread[t].at = "scan"
      /\ UNCHANGED <<coordination, files, manifest, document, reportVars, scoutVars, today, counts>>
  BY DEF MaintenanceIInv, ThreadsOK, ScanFiles, At
<1>2. CASE files = manifest
  <2>1. After(t, "free") /\ UNCHANGED docVars
    BY <1>1, <1>2 DEF ScanFiles, docVars
  <2>2. QED
    BY <1>1, <2>1, QuietAfter DEF Documenting
<1>3. CASE files # manifest
  <2> DEFINE row == [thread[t] EXCEPT !.at = "manifest", !.seen = files]
  <2>1. /\ thread' = [thread EXCEPT ![t].at = "manifest", ![t].seen = files]
        /\ torn' = (torn \/ OthersDocument(t)) /\ alone' = ~OthersDocument(t)
    BY <1>3 DEF ScanFiles
  <2>2. files \in 0..MaxSaves + 1
    BY Bounds DEF MaintenanceIInv, ThreadsOK, ValuesOK
  <2>3. /\ row \in Rows /\ row.at = "manifest" /\ row.task = thread[t].task
    BY <1>1, <2>2 DEF Rows, Steps
  <2>4. Moved(t, row)
    BY <2>1 DEF Moved
  <2> HIDE DEF row
  <2>5. HoldsRun(row) => HoldsRun(thread[t])
    BY <1>1, <2>3 DEF HoldsRun
  <2>6. ThreadsOK'
    BY <1>1, <2>3, <2>4, <2>5, ThreadsKept
       DEF MaintenanceIInv, coordination, StepsOf, Documenting, Reporting, ThreadsOK
  <2>7. ReportsOK'
    BY <1>1, <2>3, <2>4, ReportsKept DEF MaintenanceIInv, reportVars, Reporting
  <2>8. torn' \in BOOLEAN /\ alone' \in BOOLEAN
    BY <2>1
  <2>9. ValuesOK'
    BY <1>1, <2>8 DEF MaintenanceIInv, ValuesOK, scoutVars
  <2>10. thread'[t] = row /\ \A u \in Threads : u # t => thread'[u] = thread[u]
    BY <1>1, <2>4, RowMoves
  <2>11. DocsOK'
    <3>1. manifest' = manifest /\ document' = document
      BY <1>1
    <3>2. thread'[t].at \notin {"rest", "document"} /\ thread[t].at \notin Documenting
      BY <1>1, <2>3, <2>10 DEF Documenting
    <3>3. CASE OthersDocument(t)
      BY <2>1, <3>3 DEF DocsOK
    <3>4. CASE ~OthersDocument(t)
      <4>1. \A u \in Threads : u # t => thread[u].at \notin Documenting
        BY <3>4 DEF OthersDocument, Documenting
      <4>2. \A u \in Threads : u # t => thread'[u].at \notin Documenting
        BY <2>10, <4>1
      <4>3. alone' /\ torn' = torn
        BY <2>1, <3>4 DEF MaintenanceIInv, ValuesOK
      <4>4. \A u \in Threads : thread[u].at # "document" /\ thread'[u].at # "document"
        BY <3>2, <4>1, <4>2 DEF Documenting
      <4>5. QED
        BY <3>1, <4>2, <4>3, <4>4 DEF MaintenanceIInv, DocsOK
    <3>5. QED
      BY <3>3, <3>4
  <2>12. QED
    BY <2>6, <2>7, <2>9, <2>11 DEF MaintenanceIInv
<1>4. QED
  BY <1>2, <1>3

LEMMA WriteManifestInv ==
  ASSUME MaintenanceIInv, NEW t \in Threads, WriteManifest(t)
  PROVE  MaintenanceIInv'
<1> DEFINE row == There(t, "document")
<1>1. /\ thread \in [Threads -> Rows] /\ thread[t].at = "manifest" /\ manifest' = thread[t].seen
      /\ thread[t].seen \in 0..MaxSaves + 1
      /\ UNCHANGED <<coordination, files, document, torn, alone, reportVars, scoutVars, today, counts>>
  BY DEF MaintenanceIInv, ThreadsOK, WriteManifest, At, Rows
<1>2. "document" \in Steps
  BY DEF Steps
<1>3. Moved(t, row) /\ row \in Rows /\ row.at = "document" /\ row.task = thread[t].task
      /\ row.seen = thread[t].seen
  BY <1>1, <1>2, GoesThere DEF WriteManifest
<1> HIDE DEF row
<1>4. HoldsRun(row) => HoldsRun(thread[t])
  BY <1>1, <1>3 DEF HoldsRun
<1>5. ThreadsOK'
  BY <1>1, <1>3, <1>4, ThreadsKept
     DEF MaintenanceIInv, coordination, StepsOf, Documenting, Reporting, ThreadsOK
<1>6. ReportsOK'
  BY <1>1, <1>3, ReportsKept DEF MaintenanceIInv, reportVars, Reporting
<1>7. ValuesOK'
  BY <1>1 DEF MaintenanceIInv, ValuesOK, scoutVars
<1>8. thread'[t] = row /\ \A u \in Threads : u # t => thread'[u] = thread[u]
  BY <1>1, <1>3, RowMoves
<1>9. DocsOK'
  <2>1. thread'[t].at = "document" /\ manifest' = thread'[t].seen
    BY <1>1, <1>3, <1>8
  <2>2. CASE ~alone
    BY <1>1, <2>1, <2>2 DEF MaintenanceIInv, DocsOK, Documenting
  <2>3. CASE alone
    <3>1. \A u \in Threads : u # t => thread[u].at \notin Documenting
      BY <1>1, <2>3 DEF MaintenanceIInv, DocsOK, Documenting
    <3>2. \A u \in Threads : u # t => thread'[u].at \notin Documenting
      BY <1>8, <3>1
    <3>3. QED
      BY <1>1, <2>1, <2>3, <3>2 DEF DocsOK, Documenting
  <2>4. QED
    BY <2>2, <2>3
<1>10. QED
  BY <1>5, <1>6, <1>7, <1>9 DEF MaintenanceIInv

LEMMA WriteDocumentInv ==
  ASSUME MaintenanceIInv, NEW t \in Threads, WriteDocument(t)
  PROVE  MaintenanceIInv'
<1> DEFINE row == AfterRow(t, "free")
<1>1. /\ thread \in [Threads -> Rows] /\ thread[t].at = "document" /\ document' = thread[t].seen
      /\ thread[t].seen \in 0..MaxSaves + 1
      /\ UNCHANGED <<coordination, files, manifest, alone, reportVars, scoutVars, today, counts>>
      /\ torn' = (torn /\ ~alone)
  BY DEF MaintenanceIInv, ThreadsOK, WriteDocument, At, Rows
<1>2. "free" \in Steps /\ After(t, "free")
  BY DEF Steps, WriteDocument
<1>3. /\ Moved(t, row) /\ row \in Rows /\ row.task = "run"
      /\ row.at \in {"rest", "finish", "free"} /\ (HoldsRun(row) => HoldsRun(thread[t]))
  <2>1. CASE thread[t].task # "run"
    BY <1>1, <1>2, <2>1, GoesAfter, RestingIsARow DEF HoldsRun
  <2>2. CASE thread[t].task = "run"
    BY <1>1, <1>2, <2>2, GoesAfter DEF HoldsRun
  <2>3. QED
    BY <2>1, <2>2
<1> HIDE DEF row
<1>4. ThreadsOK'
  BY <1>1, <1>3, ThreadsKept DEF MaintenanceIInv, coordination, ThreadsOK
<1>5. ReportsOK'
  BY <1>1, <1>3, ReportsKept DEF MaintenanceIInv, reportVars, Reporting
<1>6. ValuesOK'
  <2>1. torn' \in BOOLEAN
    BY <1>1
  <2>2. QED
    BY <1>1, <2>1 DEF MaintenanceIInv, ValuesOK, scoutVars
<1>7. thread'[t] = row /\ \A u \in Threads : u # t => thread'[u] = thread[u]
  BY <1>1, <1>3, RowMoves
<1>8. DocsOK'
  <2>1. thread'[t].at \notin Documenting /\ thread[t].at \in Documenting
    BY <1>1, <1>3, <1>7 DEF Documenting
  <2>2. CASE ~alone
    <3>1. torn' /\ ~alone'
      BY <1>1, <2>1, <2>2 DEF MaintenanceIInv, DocsOK
    <3>2. QED
      BY <3>1 DEF DocsOK
  <2>3. CASE alone
    <3>1. /\ \A u \in Threads : u # t => thread[u].at \notin Documenting
          /\ manifest = thread[t].seen
      BY <1>1, <2>1, <2>3 DEF MaintenanceIInv, DocsOK
    <3>2. \A u \in Threads : thread'[u].at \notin Documenting
      BY <1>7, <2>1, <3>1
    <3>3. document' = manifest' /\ alone'
      BY <1>1, <2>3, <3>1
    <3>4. QED
      BY <3>2, <3>3 DEF DocsOK, Documenting
  <2>4. QED
    BY <2>2, <2>3
<1>9. QED
  BY <1>4, <1>5, <1>6, <1>8 DEF MaintenanceIInv

\* The reports.  Two of them that are being written, one of them by a run, differ in their names.
LEMMA NamesDiffer ==
  ASSUME MaintenanceIInv, NEW t \in Threads, NEW u \in Threads, t # u,
         thread[t].at \in Reporting, thread[u].at \in Reporting,
         thread[t].task = "run" \/ thread[u].task = "run"
  PROVE  thread[t].name # thread[u].name
<1>1. Written(thread[t]) /\ Written(thread[u])
  BY DEF MaintenanceIInv, ReportsOK
<1>2. ~(thread[t].task = "run" /\ thread[u].task = "run")
  BY DEF MaintenanceIInv, ThreadsOK, HoldsRun, Reporting
<1>3. QED
  BY <1>1, <1>2 DEF Written

LEMMA ReportStep ==
  ASSUME MaintenanceIInv, NEW t \in Threads, NEW row \in Rows, Moved(t, row),
         thread[t].at \notin Documenting, row.at \notin Documenting,
         row.task # "run" => row.task = thread[t].task /\ row.at \in StepsOf(row.task),
         HoldsRun(row) => HoldsRun(thread[t]),
         UNCHANGED <<coordination, docVars, scoutVars, today, counts>>, ReportsOK'
  PROVE  MaintenanceIInv'
<1>1. /\ running' = running /\ cancelled' = cancelled /\ asked' = asked /\ scoutStop' = scoutStop
      /\ files' = files /\ manifest' = manifest /\ document' = document /\ torn' = torn /\ alone' = alone
      /\ lastScan' = lastScan /\ findings' = findings /\ today' = today /\ counts' = counts
  BY DEF coordination, docVars, scoutVars
<1>2. scoutStop' \in BOOLEAN
  BY <1>1 DEF MaintenanceIInv, ThreadsOK
<1>3. ThreadsOK'
  BY <1>1, <1>2, ThreadsKept DEF MaintenanceIInv
<1>4. DocsOK'
  BY <1>1, DocsKept DEF MaintenanceIInv
<1>5. ValuesOK'
  BY <1>1 DEF MaintenanceIInv, ValuesOK
<1>6. QED
  BY <1>3, <1>4, <1>5 DEF MaintenanceIInv

LEMMA GoesAfterReport ==
  ASSUME MaintenanceIInv, NEW t \in Threads, AfterReport(t), thread[t].at \notin {"rest", "call"}
  PROVE  \E row \in Rows : /\ Moved(t, row) /\ row.task = "run"
                           /\ row.at \notin Documenting \cup Reporting
                           /\ (HoldsRun(row) => HoldsRun(thread[t]))
<1> DEFINE step == IF thread[t].force \/ lastScan < today THEN "scout" ELSE "finish"
<1>1. thread \in [Threads -> Rows] /\ step \in {"scout", "finish"} /\ step \in Steps
  BY DEF MaintenanceIInv, ThreadsOK, Steps
<1>2. After(t, step)
  BY DEF AfterReport
<1> HIDE DEF step
<1> DEFINE row == AfterRow(t, step)
<1>3. /\ Moved(t, row) /\ row \in Rows /\ row.task = "run"
      /\ row.at \in {"rest", "finish", "scout"} /\ (HoldsRun(row) => HoldsRun(thread[t]))
  <2>1. CASE thread[t].task # "run"
    BY <1>1, <1>2, <2>1, GoesAfter, RestingIsARow DEF HoldsRun
  <2>2. CASE thread[t].task = "run"
    BY <1>1, <1>2, <2>2, GoesAfter DEF HoldsRun
  <2>3. QED
    BY <2>1, <2>2
<1> HIDE DEF row
<1>4. row.at \notin Documenting \cup Reporting
  BY <1>3 DEF Documenting, Reporting
<1>5. QED
  BY <1>3, <1>4

LEMMA CheckReportInv ==
  ASSUME MaintenanceIInv, NEW t \in Threads, NEW unchanged \in BOOLEAN, CheckReport(t, unchanged)
  PROVE  MaintenanceIInv'
<1>1. /\ thread \in [Threads -> Rows] /\ thread[t].at = "due"
      /\ UNCHANGED <<coordination, docVars, reportVars, scoutVars, today, counts>>
      /\ reports' = reports /\ disk' = disk /\ reportDay' = reportDay /\ today' = today
  BY DEF MaintenanceIInv, ThreadsOK, CheckReport, At, reportVars
<1>2. thread[t].at \notin Documenting
  BY <1>1 DEF Documenting
<1>3. CASE AfterReport(t)
  <2>1. PICK row \in Rows : /\ Moved(t, row) /\ row.task = "run"
                            /\ row.at \notin Documenting \cup Reporting
                            /\ (HoldsRun(row) => HoldsRun(thread[t]))
    BY <1>1, <1>3, GoesAfterReport
  <2>2. ReportsOK'
    BY <1>1, <2>1, ReportsKept DEF MaintenanceIInv
  <2>3. QED
    BY <1>1, <1>2, <2>1, <2>2, ReportStep
<1>4. CASE ~AfterReport(t)
  <2>1. PICK n : /\ n = IF thread[t].task = "report" THEN counts.tasks ELSE 0
                 /\ thread' = [thread EXCEPT ![t].at = "markdown", ![t].name = <<today, n>>]
                 /\ thread[t].task # "report" => reportDay # today
    BY <1>4 DEF CheckReport
  <2>2. thread[t].task \in {"run", "report"} /\ thread[t].task \in Tasks
    BY <1>1 DEF MaintenanceIInv, ThreadsOK, StepsOf, Documenting, Rows, Tasks
  <2>3. counts.tasks \in 0..MaxTasks /\ (thread[t].task = "report" => counts.tasks # 0)
    BY <2>2 DEF MaintenanceIInv, ThreadsOK
  <2>4. n \in 0..MaxTasks /\ (n = 0 <=> thread[t].task = "run")
    BY <2>1, <2>2, <2>3, Bounds
  <2>5. today \in 1..MaxDays /\ reportDay \in 0..today
    BY DEF MaintenanceIInv, ValuesOK, ReportsOK
  <2>6. <<today, n>> \in ReportNames
    BY <2>4, <2>5 DEF ReportNames
  <2>7. PICK row \in Rows : /\ row = [thread[t] EXCEPT !.at = "markdown", !.name = <<today, n>>]
                            /\ row.at = "markdown" /\ row.task = thread[t].task
                            /\ row.name = <<today, n>>
    <3> DEFINE r == [thread[t] EXCEPT !.at = "markdown", !.name = <<today, n>>]
    <3>1. r \in Rows /\ r.at = "markdown" /\ r.task = thread[t].task /\ r.name = <<today, n>>
      BY <1>1, <2>6 DEF Rows, Steps
    <3>2. QED
      BY <3>1
  <2>8. Moved(t, row)
    BY <2>1, <2>7 DEF Moved
  <2>9. thread'[t] = row /\ \A u \in Threads : u # t => thread'[u] = thread[u]
    BY <1>1, <2>8, RowMoves
  <2>10. row.task = "run" => <<today, n>> \notin reports
    <3>1. SUFFICES ASSUME row.task = "run", <<today, n>> \in reports PROVE FALSE
      OBVIOUS
    <3>2. <<today, n>>[1] = today /\ <<today, n>>[2] = 0
      BY <2>4, <2>7, <3>1
    <3>3. today <= reportDay
      BY <3>1, <3>2 DEF MaintenanceIInv, ReportsOK
    <3>4. reportDay # today
      BY <2>1, <2>7, <3>1
    <3>5. QED
      BY <2>5, <3>3, <3>4
  <2>11. Written(row)'
    BY <1>1, <2>4, <2>5, <2>6, <2>7, <2>10 DEF Written
  <2>12. ReportsOK'
    <3>1. \A u \in Threads : u # t /\ thread[u].at \in Reporting => Written(thread[u])'
      BY <1>1, <2>9 DEF MaintenanceIInv, ReportsOK, Written
    <3>2. ASSUME NEW u \in Threads, thread'[u].at \in Reporting PROVE Written(thread[u])'
      <4>1. CASE u # t
        BY <2>9, <3>1, <3>2, <4>1
      <4>2. CASE u = t
        BY <2>9, <2>11, <4>2 DEF Written
      <4>3. QED
        BY <4>1, <4>2
    <3>3. QED
      BY <1>1, <3>2 DEF MaintenanceIInv, ReportsOK, RecordedReportExists
  <2>13. QED
    <3>1. /\ row.at \notin Documenting /\ (HoldsRun(row) => HoldsRun(thread[t]))
          /\ (row.task # "run" => row.at \in StepsOf(row.task))
      BY <1>1, <2>2, <2>7 DEF StepsOf, Documenting, Reporting, HoldsRun
    <3>2. QED
      BY <1>1, <1>2, <2>7, <2>8, <2>12, <3>1, ReportStep
<1>5. QED
  BY <1>3, <1>4

\* What the others are writing stays as it is when one of them adds to the disk, takes its own
\* markdown back, or is recorded.
LEMMA OthersStayWritten ==
  ASSUME MaintenanceIInv, NEW t \in Threads, NEW row \in Rows, Moved(t, row), today' = today,
         thread[t].at \in Reporting,
         \/ disk \subseteq disk' /\ reports' \subseteq reports \cup {thread[t].name}
         \/ thread[t].task = "run" /\ reports' = reports /\ disk' = disk \ {<<thread[t].name, "md">>}
  PROVE  \A u \in Threads : u # t /\ thread'[u].at \in Reporting => Written(thread[u])'
<1> SUFFICES ASSUME NEW u \in Threads, u # t, thread'[u].at \in Reporting
             PROVE  Written(thread[u])'
  OBVIOUS
<1>1. thread'[u] = thread[u]
  BY RowMoves DEF MaintenanceIInv, ThreadsOK
<1>2. Written(thread[u])
  BY <1>1 DEF MaintenanceIInv, ReportsOK
<1>3. thread[t].task = "run" \/ thread[u].task = "run" => thread[t].name # thread[u].name
  BY <1>1, NamesDiffer
<1>4. <<thread[u].name, "md">> \in disk /\ thread[t].task = "run" =>
        <<thread[u].name, "md">> \in disk \ {<<thread[t].name, "md">>}
  BY <1>3
<1>5. <<thread[u].name, "pdf">> # <<thread[t].name, "md">>
  OBVIOUS
<1>6. <<thread[u].name, "md">> \in disk => <<thread[u].name, "md">> \in disk'
  BY <1>4
<1>7. <<thread[u].name, "pdf">> \in disk => <<thread[u].name, "pdf">> \in disk'
  BY <1>5
<1>8. thread[u].task = "run" /\ thread[u].name \notin reports => thread[u].name \notin reports'
  BY <1>3
<1>9. QED
  BY <1>1, <1>2, <1>6, <1>7, <1>8 DEF Written

LEMMA DiskGrows ==
  ASSUME NEW name \in ReportNames, NEW kind \in {"md", "pdf"},
         disk \subseteq UNION {Files(n) : n \in ReportNames}
  PROVE  disk \cup {<<name, kind>>} \subseteq UNION {Files(n) : n \in ReportNames}
<1>1. <<name, kind>> \in Files(name)
  BY DEF Files
<1>2. QED
  BY <1>1

LEMMA WriteMarkdownInv ==
  ASSUME MaintenanceIInv, NEW t \in Threads, WriteMarkdown(t)
  PROVE  MaintenanceIInv'
<1>1. /\ thread \in [Threads -> Rows] /\ thread[t].at = "markdown"
      /\ UNCHANGED <<coordination, docVars, scoutVars, today, counts>>
      /\ reports' = reports /\ disk' = disk \cup {<<thread[t].name, "md">>}
      /\ reportDay' = reportDay /\ today' = today /\ GoTo(t, "pdf")
  BY DEF MaintenanceIInv, ThreadsOK, WriteMarkdown, At
<1>2. "pdf" \in Steps
  BY DEF Steps
<1>3. PICK row \in Rows : /\ Moved(t, row) /\ row.at = "pdf" /\ row.task = thread[t].task
                          /\ row.name = thread[t].name
  BY <1>1, <1>2, GoesThere
<1>4. thread[t].at \in Reporting /\ Written(thread[t])
  BY <1>1 DEF Reporting, MaintenanceIInv, ReportsOK
<1>5. thread'[t] = row
  BY <1>1, <1>3, RowMoves
<1>6. Written(row)'
  BY <1>1, <1>3, <1>4 DEF Written
<1>7. ASSUME NEW u \in Threads, thread'[u].at \in Reporting PROVE Written(thread[u])'
  <2>1. CASE u # t
    BY <1>1, <1>3, <1>4, <1>7, <2>1, OthersStayWritten
  <2>2. CASE u = t
    BY <1>5, <1>6, <2>2 DEF Written
  <2>3. QED
    BY <2>1, <2>2
<1>8. disk' \subseteq UNION {Files(n) : n \in ReportNames}
  BY <1>1, <1>4, DiskGrows DEF MaintenanceIInv, ReportsOK, Written
<1>9. ReportsOK'
  BY <1>1, <1>7, <1>8 DEF MaintenanceIInv, ReportsOK, RecordedReportExists
<1>10. /\ row.at \notin Documenting /\ thread[t].at \notin Documenting
       /\ (HoldsRun(row) => HoldsRun(thread[t])) /\ (row.task # "run" => row.at \in StepsOf(row.task))
  BY <1>1, <1>3 DEF MaintenanceIInv, ThreadsOK, StepsOf, Documenting, Reporting, HoldsRun
<1>11. QED
  BY <1>1, <1>3, <1>9, <1>10, ReportStep

LEMMA WritePdfInv ==
  ASSUME MaintenanceIInv, NEW t \in Threads, WritePdf(t)
  PROVE  MaintenanceIInv'
<1>1. /\ thread \in [Threads -> Rows] /\ thread[t].at = "pdf"
      /\ UNCHANGED <<coordination, docVars, scoutVars, today, counts>>
      /\ reports' = reports /\ reportDay' = reportDay /\ today' = today
  BY DEF MaintenanceIInv, ThreadsOK, WritePdf, At
<1>2. /\ thread[t].at \in Reporting /\ Written(thread[t]) /\ thread[t].at \notin Documenting
  BY <1>1 DEF Reporting, Documenting, MaintenanceIInv, ReportsOK
<1>3. CASE thread[t].task = "run" /\ cancelled
  <2>1. disk' = disk \ {<<thread[t].name, "md">>} /\ AfterReport(t)
    BY <1>3 DEF WritePdf
  <2>2. PICK row \in Rows : /\ Moved(t, row) /\ row.task = "run"
                            /\ row.at \notin Documenting \cup Reporting
                            /\ (HoldsRun(row) => HoldsRun(thread[t]))
    BY <1>1, <2>1, GoesAfterReport
  <2>3. thread'[t] = row
    BY <1>1, <2>2, RowMoves
  <2>4. ASSUME NEW u \in Threads, thread'[u].at \in Reporting PROVE Written(thread[u])'
    BY <1>1, <1>2, <1>3, <2>1, <2>2, <2>3, <2>4, OthersStayWritten
  <2>5. RecordedReportExists'
    <3>1. thread[t].name \notin reports
      BY <1>2, <1>3 DEF Written
    <3>2. ASSUME NEW name \in reports PROVE Files(name) \subseteq disk'
      <4>1. name # thread[t].name /\ Files(name) \subseteq disk
        BY <3>1, <3>2 DEF MaintenanceIInv, ReportsOK, RecordedReportExists
      <4>2. <<thread[t].name, "md">> \notin Files(name)
        BY <4>1 DEF Files
      <4>3. QED
        BY <2>1, <4>1, <4>2
    <3>3. QED
      BY <1>1, <3>2 DEF RecordedReportExists, Files
  <2>6. ReportsOK'
    BY <1>1, <2>1, <2>4, <2>5 DEF MaintenanceIInv, ReportsOK
  <2>7. QED
    BY <1>1, <1>2, <2>2, <2>6, ReportStep
<1>4. CASE ~(thread[t].task = "run" /\ cancelled)
  <2>1. disk' = disk \cup {<<thread[t].name, "pdf">>} /\ GoTo(t, "record") /\ "record" \in Steps
    BY <1>4 DEF WritePdf, Steps
  <2>2. PICK row \in Rows : /\ Moved(t, row) /\ row.at = "record" /\ row.task = thread[t].task
                            /\ row.name = thread[t].name
    BY <1>1, <2>1, GoesThere
  <2>3. thread'[t] = row
    BY <1>1, <2>2, RowMoves
  <2>4. Written(row)'
    BY <1>1, <1>2, <2>1, <2>2 DEF Written
  <2>5. ASSUME NEW u \in Threads, thread'[u].at \in Reporting PROVE Written(thread[u])'
    <3>1. CASE u # t
      BY <1>1, <1>2, <2>1, <2>2, <2>5, <3>1, OthersStayWritten
    <3>2. CASE u = t
      BY <2>3, <2>4, <3>2 DEF Written
    <3>3. QED
      BY <3>1, <3>2
  <2>6. disk' \subseteq UNION {Files(n) : n \in ReportNames}
    BY <1>2, <2>1, DiskGrows DEF MaintenanceIInv, ReportsOK, Written
  <2>7. ReportsOK'
    BY <1>1, <2>1, <2>5, <2>6 DEF MaintenanceIInv, ReportsOK, RecordedReportExists
  <2>8. /\ row.at \notin Documenting
        /\ (HoldsRun(row) => HoldsRun(thread[t])) /\ (row.task # "run" => row.at \in StepsOf(row.task))
    BY <1>1, <2>2 DEF MaintenanceIInv, ThreadsOK, StepsOf, Documenting, Reporting, HoldsRun
  <2>9. QED
    BY <1>1, <1>2, <2>2, <2>7, <2>8, ReportStep
<1>5. QED
  BY <1>3, <1>4

LEMMA RecordReportInv ==
  ASSUME MaintenanceIInv, NEW t \in Threads, RecordReport(t)
  PROVE  MaintenanceIInv'
<1>1. /\ thread \in [Threads -> Rows] /\ thread[t].at = "record" /\ AfterReport(t)
      /\ UNCHANGED <<coordination, docVars, scoutVars, today, counts>>
      /\ reports' = reports \cup {thread[t].name} /\ reportDay' = today
      /\ today' = today /\ disk' = disk
  BY DEF MaintenanceIInv, ThreadsOK, RecordReport, At
<1>2. /\ thread[t].at \in Reporting /\ Written(thread[t]) /\ thread[t].at \notin Documenting
  BY <1>1 DEF Reporting, Documenting, MaintenanceIInv, ReportsOK
<1>3. PICK row \in Rows : /\ Moved(t, row) /\ row.task = "run"
                          /\ row.at \notin Documenting \cup Reporting
                          /\ (HoldsRun(row) => HoldsRun(thread[t]))
  BY <1>1, GoesAfterReport
<1>4. thread'[t] = row
  BY <1>1, <1>3, RowMoves
<1>5. ASSUME NEW u \in Threads, thread'[u].at \in Reporting PROVE Written(thread[u])'
  BY <1>1, <1>2, <1>3, <1>4, <1>5, OthersStayWritten
<1>6. Files(thread[t].name) \subseteq disk
  BY <1>1, <1>2 DEF Written, Files
<1>7. RecordedReportExists'
  <2>1. ASSUME NEW name \in reports' PROVE Files(name) \subseteq disk
    BY <1>1, <1>6, <2>1 DEF MaintenanceIInv, ReportsOK, RecordedReportExists
  <2>2. QED
    BY <1>1, <2>1 DEF RecordedReportExists, Files
<1>8. \A name \in reports' : name \in ReportNames /\ (name[2] = 0 => name[1] <= reportDay')
  <2>1. today \in Nat /\ reportDay \in 0..today
    BY Bounds DEF MaintenanceIInv, ValuesOK, ReportsOK
  <2>2. ASSUME NEW name \in reports, name[2] = 0 PROVE name[1] <= today
    <3>1. name[1] \in Nat /\ name[1] <= reportDay
      BY <2>2 DEF MaintenanceIInv, ReportsOK, ReportNames
    <3>2. QED
      BY <2>1, <3>1
  <2>3. QED
    BY <1>1, <1>2, <2>2 DEF MaintenanceIInv, ReportsOK, Written
<1>9. ReportsOK'
  <2>1. reportDay' \in 0..today'
    BY <1>1, Bounds DEF MaintenanceIInv, ValuesOK
  <2>2. QED
    BY <1>1, <1>5, <1>7, <1>8, <2>1 DEF MaintenanceIInv, ReportsOK
<1>10. QED
  BY <1>1, <1>2, <1>3, <1>9, ReportStep

\* A thread whose phase raises goes to the end of the run or rests.
LEMMA RaisesInv ==
  ASSUME MaintenanceIInv, NEW t \in Threads, Raises(t)
  PROVE  MaintenanceIInv'
<1>1. /\ thread \in [Threads -> Rows] /\ thread[t].at \notin {"rest", "call", "finish"}
      /\ torn' = (torn \/ thread[t].at = "document")
      /\ UNCHANGED <<coordination, files, manifest, document, alone, reportVars, scoutVars, today,
                     counts>>
  BY DEF MaintenanceIInv, ThreadsOK, Raises, At
<1>2. PICK row \in Rows : /\ Moved(t, row) /\ row.task = "run" /\ row.at \in {"rest", "finish"}
                          /\ (HoldsRun(row) => HoldsRun(thread[t]))
  <2>1. CASE thread[t].task # "run"
    BY <2>1, RestingIsARow DEF Raises, Rest, Moved, HoldsRun
  <2>2. CASE thread[t].task = "run"
    <3>1. GoTo(t, "finish") /\ "finish" \in Steps
      BY <2>2 DEF Raises, Steps
    <3>2. QED
      BY <1>1, <2>2, <3>1, GoesThere DEF HoldsRun
  <2>3. QED
    BY <2>1, <2>2
<1>3. ThreadsOK'
  BY <1>1, <1>2, ThreadsKept DEF MaintenanceIInv, coordination, ThreadsOK
<1>4. ReportsOK'
  BY <1>1, <1>2, ReportsKept DEF MaintenanceIInv, reportVars, Reporting
<1>5. ValuesOK'
  <2>1. torn' \in BOOLEAN
    BY <1>1
  <2>2. QED
    BY <1>1, <2>1 DEF MaintenanceIInv, ValuesOK, scoutVars
<1>6. thread'[t] = row /\ \A u \in Threads : u # t => thread'[u] = thread[u]
  BY <1>1, <1>2, RowMoves
<1>7. DocsOK'
  <2>1. \A u \in Threads : thread'[u].at \in Documenting => u # t /\ thread'[u] = thread[u]
    BY <1>2, <1>6 DEF Documenting
  <2>2. (torn => torn') /\ manifest' = manifest /\ document' = document /\ alone' = alone
    BY <1>1
  <2>3. ASSUME alone PROVE
          /\ \A v, u \in Threads : thread'[v].at \in Documenting /\ thread'[u].at \in Documenting
                                   => v = u
          /\ \A u \in Threads : thread'[u].at = "document" => manifest' = thread'[u].seen
    BY <2>1, <2>2, <2>3 DEF MaintenanceIInv, DocsOK, Documenting
  <2>4. ~alone /\ (\E u \in Threads : thread'[u].at \in Documenting) => torn'
    BY <2>1, <2>2 DEF MaintenanceIInv, DocsOK
  <2>5. ASSUME ~torn', \A u \in Threads : thread'[u].at # "document"
        PROVE  document' = manifest'
    <3>1. \A u \in Threads : thread[u].at # "document"
      BY <1>1, <1>6, <2>5
    <3>2. QED
      BY <2>2, <2>5, <3>1 DEF MaintenanceIInv, DocsOK
  <2>6. QED
    BY <2>2, <2>3, <2>4, <2>5 DEF DocsOK
<1>8. QED
  BY <1>3, <1>4, <1>5, <1>7 DEF MaintenanceIInv

LEMMA ThreadStepInv ==
  ASSUME MaintenanceIInv, NEW t \in Threads, ThreadStep(t)
  PROVE  MaintenanceIInv'
BY AcquireInv, FinishRunInv, RaisesInv, ScanFilesInv, WriteManifestInv, WriteDocumentInv, QuietSteps,
   CheckReportInv, WriteMarkdownInv, WritePdfInv, RecordReportInv DEF ThreadStep

\* The world.
LEMMA StillWritten ==
  ASSUME MaintenanceIInv, thread' = thread, UNCHANGED reportVars, today' \in Nat, today <= today'
  PROVE  ReportsOK'
<1>1. reports' = reports /\ disk' = disk /\ reportDay' = reportDay
  BY DEF reportVars
<1>2. today \in Nat /\ reportDay \in 0..today
  BY Bounds DEF MaintenanceIInv, ValuesOK, ReportsOK
<1>3. ASSUME NEW t \in Threads, thread[t].at \in Reporting PROVE Written(thread[t])'
  <2>1. Written(thread[t])
    BY <1>3 DEF MaintenanceIInv, ReportsOK
  <2>2. thread[t].name[1] \in Nat
    BY <2>1 DEF Written, ReportNames
  <2>3. thread[t].name[1] <= today'
    BY <1>2, <2>1, <2>2 DEF Written
  <2>4. QED
    BY <1>1, <2>1, <2>3 DEF Written
<1>4. reportDay' \in 0..today'
  BY <1>1, <1>2
<1>5. QED
  BY <1>1, <1>3, <1>4 DEF MaintenanceIInv, ReportsOK, RecordedReportExists

LEMMA CancelKeepsThreads ==
  ASSUME ThreadsOK, Cancel, running' = running, thread' = thread,
         counts' \in [saves : 0..MaxSaves, launches : Nat, tasks : 0..MaxTasks, cancels : Nat,
                      stops : Nat],
         counts'.tasks = counts.tasks
  PROVE  ThreadsOK'
<1>1. cancelled' = TRUE /\ scoutStop' = TRUE /\ asked' = running
  BY DEF Cancel
<1>2. asked' \in BOOLEAN
  BY <1>1 DEF ThreadsOK
<1>3. QED
  BY <1>1, <1>2 DEF ThreadsOK

LEMMA InputInv == MaintenanceIInv /\ Input => MaintenanceIInv'
<1> SUFFICES ASSUME MaintenanceIInv, Input PROVE MaintenanceIInv'
  OBVIOUS
<1>1. /\ Cancel /\ running' = running /\ thread' = thread /\ today' = today
      /\ UNCHANGED docVars /\ UNCHANGED reportVars /\ UNCHANGED scoutVars
      /\ counts' = [counts EXCEPT !.cancels = @ + 1]
  BY DEF Input
<1>2. /\ counts' \in [saves : 0..MaxSaves, launches : Nat, tasks : 0..MaxTasks, cancels : Nat,
                      stops : Nat]
      /\ counts'.tasks = counts.tasks /\ counts'.saves = counts.saves
  BY <1>1 DEF MaintenanceIInv, ThreadsOK
<1>3. ThreadsOK'
  BY <1>1, <1>2, CancelKeepsThreads DEF MaintenanceIInv
<1>4. ValuesOK' /\ DocsOK'
  BY <1>1, <1>2 DEF MaintenanceIInv, ValuesOK, DocsOK, docVars, scoutVars
<1>5. today \in Nat
  BY Bounds DEF MaintenanceIInv, ValuesOK
<1>6. ReportsOK'
  BY <1>1, <1>5, StillWritten
<1>7. QED
  BY <1>3, <1>4, <1>6 DEF MaintenanceIInv

\* A thread that rested begins: a launch and a submission.
LEMMA LaunchInv == MaintenanceIInv /\ Launch => MaintenanceIInv'
<1> SUFFICES ASSUME MaintenanceIInv, Launch PROVE MaintenanceIInv'
  OBVIOUS
<1> DEFINE row == [Resting EXCEPT !.at = "call"]
<1>1. /\ Moved("timer", row) /\ counts' = [counts EXCEPT !.launches = @ + 1]
      /\ thread["timer"].at = "rest" /\ thread \in [Threads -> Rows] /\ "timer" \in Threads
      /\ UNCHANGED <<coordination, docVars, reportVars, scoutVars, today>>
  BY DEF Launch, Moved, At, MaintenanceIInv, ThreadsOK, Threads
<1>2. row \in Rows /\ row.at = "call" /\ row.task = "run"
  BY RestingIsARow DEF Resting, Rows, Steps
<1> HIDE DEF row
<1>3. /\ counts' \in [saves : 0..MaxSaves, launches : Nat, tasks : 0..MaxTasks, cancels : Nat,
                      stops : Nat]
      /\ counts'.tasks = counts.tasks /\ counts'.saves = counts.saves
  BY <1>1 DEF MaintenanceIInv, ThreadsOK
<1>4. thread'["timer"] = row /\ \A u \in Threads : u # "timer" => thread'[u] = thread[u]
  BY <1>1, RowMoves
<1>5. ThreadsOK'
  <2>1. thread' \in [Threads -> Rows]
    BY <1>1, <1>2 DEF Moved
  <2>2. \A u \in Threads : HoldsRun(thread'[u]) => HoldsRun(thread[u])
    BY <1>2, <1>4 DEF HoldsRun
  <2>3. \A u \in Threads : thread'[u].task # "run" => thread'[u] = thread[u]
    BY <1>2, <1>4
  <2>4. QED
    BY <1>1, <1>3, <2>1, <2>2, <2>3 DEF MaintenanceIInv, ThreadsOK, coordination
<1>6. ValuesOK'
  BY <1>1, <1>3 DEF MaintenanceIInv, ValuesOK, docVars, scoutVars
<1>7. DocsOK'
  BY <1>1, <1>2, DocsKept DEF MaintenanceIInv, docVars, Documenting
<1>8. ReportsOK'
  BY <1>1, <1>2, ReportsKept DEF MaintenanceIInv, reportVars, Reporting
<1>9. QED
  BY <1>5, <1>6, <1>7, <1>8 DEF MaintenanceIInv

LEMMA SubmitInv ==
  ASSUME MaintenanceIInv, NEW task \in Tasks, Submit(task)
  PROVE  MaintenanceIInv'
<1>1. PICK row : /\ Moved("command", row)
                 /\ row = [Resting EXCEPT !.task = task, !.force = (task = "run"),
                                          !.at = CASE task = "run" -> "call"
                                                   [] task = "docs" -> "scan"
                                                   [] task = "report" -> "due"]
  BY DEF Submit, Moved
<1>2. row \in Rows /\ row.task = task
      /\ row.at = CASE task = "run" -> "call" [] task = "docs" -> "scan" [] task = "report" -> "due"
  BY <1>1, RestingIsARow DEF Resting, Rows, Steps, Tasks
<1>3. ~HoldsRun(row) /\ row.at \notin Documenting \cup Reporting
      /\ (row.task # "run" => row.at \in StepsOf(row.task))
  BY <1>2 DEF HoldsRun, Tasks, Documenting, Reporting, StepsOf
<1>4. /\ Cancel /\ counts' = [counts EXCEPT !.tasks = @ + 1] /\ counts.tasks < MaxTasks
      /\ thread["command"].at = "rest" /\ thread \in [Threads -> Rows] /\ "command" \in Threads
      /\ UNCHANGED <<running, docVars, reportVars, scoutVars, today>>
  BY DEF Submit, Busy, At, MaintenanceIInv, ThreadsOK, Threads
<1>5. counts \in [saves : 0..MaxSaves, launches : Nat, tasks : 0..MaxTasks, cancels : Nat,
                  stops : Nat]
  BY DEF MaintenanceIInv, ThreadsOK
<1>6. counts.tasks + 1 \in 0..MaxTasks /\ counts.tasks + 1 # 0
  BY <1>4, <1>5, Bounds
<1>7. /\ counts' \in [saves : 0..MaxSaves, launches : Nat, tasks : 0..MaxTasks, cancels : Nat,
                      stops : Nat]
      /\ counts'.tasks # 0 /\ counts'.saves = counts.saves
  BY <1>4, <1>5, <1>6
<1>8. thread'["command"] = row /\ \A u \in Threads : u # "command" => thread'[u] = thread[u]
  BY <1>1, <1>4, RowMoves
<1>9. ThreadsOK'
  <2>1. thread' \in [Threads -> Rows]
    BY <1>1, <1>2, <1>4 DEF Moved
  <2>2. \A u \in Threads : HoldsRun(thread'[u]) => HoldsRun(thread[u])
    BY <1>3, <1>8
  <2>3. \A u \in Threads : thread'[u].task # "run" => thread'[u].at \in StepsOf(thread'[u].task)
    BY <1>3, <1>8 DEF MaintenanceIInv, ThreadsOK
  <2>4. cancelled' = TRUE /\ scoutStop' = TRUE /\ asked' = running /\ running' = running
    BY <1>4 DEF Cancel
  <2>5. running \in BOOLEAN
    BY DEF MaintenanceIInv, ThreadsOK
  <2>6. \A t \in Threads : HoldsRun(thread'[t]) =>
          running' /\ \A u \in Threads : HoldsRun(thread'[u]) => u = t
    BY <2>2, <2>4 DEF MaintenanceIInv, ThreadsOK
  <2>7. QED
    BY <1>7, <2>1, <2>3, <2>4, <2>5, <2>6 DEF ThreadsOK
<1>10. ValuesOK'
  BY <1>4, <1>7 DEF MaintenanceIInv, ValuesOK, docVars, scoutVars
<1>11. DocsOK'
  BY <1>1, <1>2, <1>3, <1>4, DocsKept DEF MaintenanceIInv, docVars, Documenting
<1>12. ReportsOK'
  BY <1>1, <1>2, <1>3, <1>4, ReportsKept DEF MaintenanceIInv, reportVars
<1>13. QED
  BY <1>9, <1>10, <1>11, <1>12 DEF MaintenanceIInv

LEMMA OneSaveMore ==
  ASSUME NEW s \in Nat, NEW f \in 1..(s + 1), NEW g, g = f \/ g = f + 1, NEW n, n = s + 1
  PROVE  g \in 1..(n + 1)
  OBVIOUS

LEMMA SaveInv == MaintenanceIInv /\ (Save \/ EditDocument) => MaintenanceIInv'
<1> SUFFICES ASSUME MaintenanceIInv, Save \/ EditDocument PROVE MaintenanceIInv'
  OBVIOUS
<1>1. /\ counts.saves < MaxSaves /\ thread' = thread /\ today' = today
      /\ counts' = [counts EXCEPT !.saves = @ + 1] /\ manifest' = manifest /\ alone' = alone
      /\ UNCHANGED <<coordination, reportVars, scoutVars>>
      /\ \/ files' = files + 1 /\ document' = document /\ torn' = torn
         \/ files' = files /\ document' = 0 /\ torn' = TRUE
  BY DEF Save, EditDocument
<1>2. counts \in [saves : 0..MaxSaves, launches : Nat, tasks : 0..MaxTasks, cancels : Nat,
                  stops : Nat]
  BY DEF MaintenanceIInv, ThreadsOK
<1>3. counts.saves + 1 \in 0..MaxSaves
  BY <1>1, <1>2, Bounds
<1>4. /\ counts' \in [saves : 0..MaxSaves, launches : Nat, tasks : 0..MaxTasks, cancels : Nat,
                      stops : Nat]
      /\ counts'.tasks = counts.tasks /\ counts'.saves = counts.saves + 1
  BY <1>1, <1>2, <1>3
<1>5. ThreadsOK'
  BY <1>1, <1>4 DEF MaintenanceIInv, ThreadsOK, coordination
<1>6. ValuesOK'
  <2>1. files \in 1..(counts.saves + 1) /\ counts.saves \in Nat
    BY <1>2, Bounds DEF MaintenanceIInv, ValuesOK
  <2>2. files' = files \/ files' = files + 1
    BY <1>1
  <2>3. files' \in 1..(counts'.saves + 1)
    BY <1>4, <2>1, <2>2, OneSaveMore
  <2>4. document' \in 0..MaxSaves + 1
    BY <1>1, Bounds DEF MaintenanceIInv, ValuesOK
  <2>5. torn' \in BOOLEAN
    BY <1>1, Zenon DEF MaintenanceIInv, ValuesOK
  <2>6. QED
    BY <1>1, <1>4, <2>3, <2>4, <2>5 DEF MaintenanceIInv, ValuesOK, scoutVars
<1>7. DocsOK'
  BY <1>1 DEF MaintenanceIInv, DocsOK
<1>8. today \in Nat
  BY Bounds DEF MaintenanceIInv, ValuesOK
<1>9. ReportsOK'
  BY <1>1, <1>8, StillWritten
<1>10. QED
  BY <1>5, <1>6, <1>7, <1>9 DEF MaintenanceIInv

LEMMA DayPassesInv == MaintenanceIInv /\ DayPasses => MaintenanceIInv'
<1> SUFFICES ASSUME MaintenanceIInv, DayPasses PROVE MaintenanceIInv'
  OBVIOUS
<1>1. /\ today < MaxDays /\ today' = today + 1 /\ thread' = thread /\ counts' = counts
      /\ UNCHANGED <<coordination, docVars, reportVars, scoutVars>>
  BY DEF DayPasses
<1>2. today \in Nat /\ today' \in Nat /\ today <= today' /\ today' \in 1..MaxDays
  BY <1>1, Bounds DEF MaintenanceIInv, ValuesOK
<1>3. ThreadsOK'
  BY <1>1 DEF MaintenanceIInv, ThreadsOK, coordination
<1>4. ValuesOK'
  BY <1>1, <1>2 DEF MaintenanceIInv, ValuesOK, scoutVars, docVars
<1>5. DocsOK'
  BY <1>1 DEF MaintenanceIInv, DocsOK, docVars
<1>6. ReportsOK'
  BY <1>1, <1>2, StillWritten
<1>7. QED
  BY <1>3, <1>4, <1>5, <1>6 DEF MaintenanceIInv

LEMMA StopInv == MaintenanceIInv /\ Stop => MaintenanceIInv'
<1> SUFFICES ASSUME MaintenanceIInv, Stop PROVE MaintenanceIInv'
  OBVIOUS
<1>1. /\ thread' = [t \in Threads |-> Resting] /\ today' = today
      /\ running' = FALSE /\ cancelled' = FALSE /\ scoutStop' = FALSE /\ asked' = FALSE
      /\ counts' = [counts EXCEPT !.stops = @ + 1]
      /\ files' = files /\ manifest' = manifest /\ document' = document /\ alone' = alone
      /\ torn' = (torn \/ \E t \in Threads : thread[t].at = "document")
      /\ disk' = disk /\ reports' = reports /\ reportDay' = reportDay
      /\ UNCHANGED scoutVars
  BY DEF Stop, reportVars, At
<1>2. \A t \in Threads : thread'[t] = Resting
  BY <1>1
<1>3. /\ counts' \in [saves : 0..MaxSaves, launches : Nat, tasks : 0..MaxTasks, cancels : Nat,
                      stops : Nat]
      /\ counts'.saves = counts.saves
  BY <1>1 DEF MaintenanceIInv, ThreadsOK
<1>4. ThreadsOK'
  <2>1. thread' \in [Threads -> Rows]
    BY <1>1, RestingIsARow
  <2>2. \A t \in Threads : ~HoldsRun(thread'[t]) /\ thread'[t].task = "run"
    BY <1>2, RestingIsARow DEF HoldsRun
  <2>3. QED
    BY <1>1, <1>3, <2>1, <2>2 DEF ThreadsOK
<1>5. torn' \in BOOLEAN
  BY <1>1
<1>6. ValuesOK'
  BY <1>1, <1>3, <1>5 DEF MaintenanceIInv, ValuesOK, scoutVars
<1>7. DocsOK'
  <2>1. ~torn' => document = manifest
    BY <1>1 DEF MaintenanceIInv, DocsOK
  <2>2. \A t \in Threads : thread'[t].at \notin Documenting /\ thread'[t].at # "document"
    BY <1>2, RestingIsARow DEF Documenting
  <2>3. QED
    BY <1>1, <2>1, <2>2 DEF DocsOK
<1>8. ReportsOK'
  <2>1. \A t \in Threads : thread'[t].at \notin Reporting
    BY <1>2, RestingIsARow DEF Reporting
  <2>2. QED
    BY <1>1, <2>1 DEF MaintenanceIInv, ReportsOK, RecordedReportExists
<1>9. QED
  BY <1>4, <1>6, <1>7, <1>8 DEF MaintenanceIInv

LEMMA MaintenanceStepInv == MaintenanceIInv /\ [MaintenanceNext]_maintenanceVars => MaintenanceIInv'
<1> SUFFICES ASSUME MaintenanceIInv, [MaintenanceNext]_maintenanceVars PROVE MaintenanceIInv'
  OBVIOUS
<1>1. CASE UNCHANGED maintenanceVars
  <2>1. /\ thread' = thread /\ today' = today /\ counts' = counts
        /\ UNCHANGED <<coordination, docVars, reportVars, scoutVars>>
    BY <1>1 DEF maintenanceVars
  <2>2. ThreadsOK' /\ DocsOK'
    BY <2>1 DEF MaintenanceIInv, ThreadsOK, DocsOK, coordination, docVars
  <2>3. ValuesOK'
    BY <2>1 DEF MaintenanceIInv, ValuesOK, docVars, scoutVars
  <2>4. today \in Nat
    BY Bounds DEF MaintenanceIInv, ValuesOK
  <2>5. ReportsOK'
    BY <2>1, <2>4, StillWritten
  <2>6. QED
    BY <2>2, <2>3, <2>5 DEF MaintenanceIInv
<1>2. CASE MaintenanceNext
  BY <1>2, InputInv, LaunchInv, SubmitInv, ThreadStepInv, SaveInv, DayPassesInv, StopInv
     DEF MaintenanceNext
<1>3. QED
  BY <1>1, <1>2

LEMMA IInvImplies ==
  ASSUME MaintenanceIInv
  PROVE  MaintenanceTypeOK /\ PublishedIsTrue
<1>1. {running, cancelled, scoutStop, asked, torn, alone} \subseteq BOOLEAN
  BY DEF MaintenanceIInv, ThreadsOK, ValuesOK
<1>2. thread \in [Threads -> Rows] /\ files \in 0..MaxSaves + 1
  BY Bounds DEF MaintenanceIInv, ThreadsOK, ValuesOK
<1>3. MaintenanceTypeOK
  BY <1>1, <1>2 DEF MaintenanceIInv, ValuesOK, ReportsOK, MaintenanceTypeOK, Rows
<1>4. DocumentFollowsManifest
  BY DEF MaintenanceIInv, DocsOK, DocumentFollowsManifest, At
<1>5. QED
  BY <1>3, <1>4 DEF MaintenanceIInv, ReportsOK, PublishedIsTrue

\* The variables have their types.
THEOREM MaintenanceTypes == MaintenanceSpec => []MaintenanceTypeOK
<1>1. MaintenanceInit => MaintenanceIInv
  BY MaintenanceInitInv
<1>2. MaintenanceIInv /\ [MaintenanceNext]_maintenanceVars => MaintenanceIInv'
  BY MaintenanceStepInv
<1>3. MaintenanceIInv => MaintenanceTypeOK
  BY IInvImplies
<1>4. QED
  BY <1>1, <1>2, <1>3, PTL DEF MaintenanceSpec

\* A recorded report has both its files, and the document is of the files that the manifest lists
\* unless a pass was broken off or overlapped, or the document edited, and none has made it good.
THEOREM WhatIsPublishedIsTrue == MaintenanceSpec => []PublishedIsTrue
<1>1. MaintenanceInit => MaintenanceIInv
  BY MaintenanceInitInv
<1>2. MaintenanceIInv /\ [MaintenanceNext]_maintenanceVars => MaintenanceIInv'
  BY MaintenanceStepInv
<1>3. MaintenanceIInv => PublishedIsTrue
  BY IInvImplies
<1>4. QED
  BY <1>1, <1>2, <1>3, PTL DEF MaintenanceSpec

\* Only through After does a thread that works come to one of the later phases.
LEMMA PhasesAreEntered ==
  ASSUME MaintenanceIInv, [MaintenanceNext]_maintenanceVars, NEW t \in Threads,
         thread[t].task = "run", thread[t].at # "rest",
         thread'[t].at \in LaterPhases, thread'[t].at # thread[t].at
  PROVE  ~asked
<1>1. thread \in [Threads -> Rows] /\ thread' # thread /\ MaintenanceNext
  BY DEF MaintenanceIInv, ThreadsOK, maintenanceVars
<1>2. ~Input /\ ~Save /\ ~EditDocument /\ ~DayPasses
  BY <1>1 DEF Input, Save, EditDocument, DayPasses
<1>3. ~Stop
  BY RestingIsARow DEF Stop, LaterPhases
<1>4. ~Launch
  <2> SUFFICES ASSUME Launch PROVE FALSE
    OBVIOUS
  <2> DEFINE row == [Resting EXCEPT !.at = "call"]
  <2>1. thread["timer"].at = "rest" /\ Moved("timer", row) /\ "timer" \in Threads
    BY DEF Launch, At, Moved, Threads
  <2> HIDE DEF row
  <2>2. QED
    BY <1>1, <2>1, RowMoves
<1>5. ASSUME NEW task \in Tasks, Submit(task) PROVE FALSE
  <2>1. PICK row : Moved("command", row)
    BY <1>5 DEF Submit, Moved
  <2>2. thread["command"].at = "rest" /\ "command" \in Threads
    BY <1>5 DEF Submit, Busy, At, Threads
  <2>3. QED
    BY <1>1, <2>1, <2>2, RowMoves
<1>6. PICK u \in Threads : ThreadStep(u)
  BY <1>1, <1>2, <1>3, <1>4, <1>5 DEF MaintenanceNext
<1>7. ASSUME NEW row, Moved(u, row) PROVE u = t /\ row.at \in LaterPhases
  BY <1>1, <1>7, RowMoves
<1>8. ASSUME NEW step \in Steps, GoTo(u, step) PROVE step \in LaterPhases
  BY <1>1, <1>7, <1>8, GoesThere
<1>9. ASSUME NEW step \in Steps, After(u, step) PROVE ~asked
  <2>1. u = t /\ AfterRow(u, step).at \in LaterPhases
    BY <1>1, <1>7, <1>9, GoesAfter
  <2>2. AfterRow(u, step).at = IF cancelled THEN "finish" ELSE step
    BY <1>1, <1>9, <2>1, GoesAfter
  <2>3. ~cancelled
    BY <2>1, <2>2 DEF LaterPhases
  <2>4. QED
    BY <2>3 DEF MaintenanceIInv, ThreadsOK
<1>10. ~Rest(u)
  BY <1>7, RestingIsARow DEF Rest, Moved, LaterPhases
<1>11. /\ ~GoTo(u, "scan") /\ ~GoTo(u, "document") /\ ~GoTo(u, "freshness") /\ ~GoTo(u, "finish")
       /\ ~GoTo(u, "pdf") /\ ~GoTo(u, "record") /\ ~GoTo(u, "fetch") /\ ~GoTo(u, "state")
       /\ ~GoTo(u, "findings")
  BY <1>8 DEF Steps, LaterPhases
<1>12. AfterReport(u) => ~asked
  BY <1>9 DEF AfterReport, Steps
<1>13. ~(Acquire(u) \/ WriteManifest(u) \/ WriteMarkdown(u) \/ BeginScan(u) \/ Fetch(u)
         \/ StoreScan(u) \/ StoreFindings(u) \/ Raises(u) \/ FinishRun(u))
  BY <1>10, <1>11 DEF Acquire, WriteManifest, WriteMarkdown, BeginScan, Fetch, StoreScan,
                      StoreFindings, Raises, FinishRun
<1>14. WritePdf(u) \/ RecordReport(u) => ~asked
  BY <1>11, <1>12 DEF WritePdf, RecordReport
<1>15. WriteDocument(u) \/ Freshness(u) => ~asked
  BY <1>9 DEF WriteDocument, Freshness, Steps
<1>16. ASSUME NEW next \in {"freshness", "due", "finish"}, CheckStorage(u, next) PROVE ~asked
  BY <1>9, <1>11, <1>16 DEF CheckStorage, Steps
<1>17. ScanFiles(u) => ~asked
  <2> SUFFICES ASSUME ScanFiles(u) PROVE ~asked
    OBVIOUS
  <2>1. CASE files = manifest
    BY <1>9, <2>1 DEF ScanFiles, Steps
  <2>2. CASE files # manifest
    <3> DEFINE row == [thread[u] EXCEPT !.at = "manifest", !.seen = files]
    <3>0. thread' = [thread EXCEPT ![u].at = "manifest", ![u].seen = files]
      BY <2>2 DEF ScanFiles
    <3>1. Moved(u, row) /\ row.at = "manifest"
      BY <1>1, <3>0 DEF Moved, Rows
    <3> HIDE DEF row
    <3>2. QED
      BY <1>7, <3>1 DEF LaterPhases
  <2>3. QED
    BY <2>1, <2>2
<1>18. ASSUME NEW unchanged \in BOOLEAN, CheckReport(u, unchanged) PROVE ~asked
  <2>1. CASE AfterReport(u)
    BY <1>12, <2>1
  <2>2. CASE ~AfterReport(u)
    <3>1. PICK name : thread' = [thread EXCEPT ![u].at = "markdown", ![u].name = name]
      BY <1>18, <2>2 DEF CheckReport
    <3> DEFINE row == [thread[u] EXCEPT !.at = "markdown", !.name = name]
    <3>2. Moved(u, row) /\ row.at = "markdown"
      BY <1>1, <3>1 DEF Moved, Rows
    <3> HIDE DEF row
    <3>3. QED
      BY <1>7, <3>2 DEF LaterPhases
  <2>3. QED
    BY <2>1, <2>2
<1>19. QED
  BY <1>6, <1>13, <1>14, <1>15, <1>16, <1>17, <1>18 DEF ThreadStep

\* A run that was cancelled since it began enters neither the report nor the research.
THEOREM CancelledWorkYields == MaintenanceSpec => IdleWorkYields
<1> DEFINE Act == \A t \in Threads :
                    /\ thread[t].task = "run" /\ thread[t].at # "rest"
                    /\ thread'[t].at \in LaterPhases \ {thread[t].at}
                    => ~asked
<1>1. MaintenanceInit => MaintenanceIInv
  BY MaintenanceInitInv
<1>2. MaintenanceIInv /\ [MaintenanceNext]_maintenanceVars => MaintenanceIInv'
  BY MaintenanceStepInv
<1>3. MaintenanceIInv /\ [MaintenanceNext]_maintenanceVars => [Act]_maintenanceVars
  BY PhasesAreEntered
<1>4. QED
  BY <1>1, <1>2, <1>3, PTL DEF MaintenanceSpec, IdleWorkYields
=============================================================================
