-------------------------- MODULE IdleMaintenance --------------------------
(***************************************************************************)
(* Idle maintenance: IdleMaintenance.run of idle_maintenance.py in the     *)
(* timer's thread and, for /research scan, in a command's thread, with the *)
(* phases it runs (workspace_documenter.py, idle_reporter.py,              *)
(* research_scout.py) and the commands that run two of them beside it,     *)
(* /docs refresh and /report now (tui_app.py).  The freshness phase is     *)
(* FactWatch's; here it is one step.                                       *)
(***************************************************************************)
EXTENDS Naturals, FiniteSets

CONSTANTS
  MaxSaves,     \* changes of the workspace and of the document (bounds TLC)
  MaxLaunches,  \* runs the timer starts (bounds TLC)
  MaxTasks,     \* commands that work in a thread (bounds TLC)
  MaxCancels,   \* inputs that cancel, commands not counted (bounds TLC)
  MaxDays,      \* days (bounds TLC)
  MaxStops      \* ends of the process (bounds TLC)

ASSUME MaintenanceAssumption ==
  {MaxSaves, MaxLaunches, MaxTasks, MaxCancels, MaxDays, MaxStops} \subseteq Nat /\ MaxDays # 0

Threads == {"timer", "command"}
Tasks == {"run", "docs", "report"}

VARIABLES
  running,   \* _state = "running"
  cancelled, \* _cancel
  scoutStop, \* research_scout's _CANCEL_EVENT
  thread,    \* what each thread does
  asked,     \* the user has cancelled since the run began
  files,     \* the state of the workspace
  manifest,  \* the state that the stored manifest describes, 0 before there is one
  document,  \* the state that PROJECT_STATE.md describes, 0 if none
  today,     \* the day; research is due once in it
  disk,      \* the files of reports
  reports,   \* report_runs
  reportDay, \* the day in which the latest of them was recorded
  lastScan,  \* the research state says that a scan was made today
  findings,  \* the day of the stored findings
  torn,      \* (history) a pass was broken off between its two writes or overlapped with another,
             \* or the document was edited, and no pass has since gone through undisturbed
  alone,     \* (history) no other pass was on its way since the latest began
  counts

coordination == <<running, cancelled, scoutStop, asked>>
docVars == <<files, manifest, document, torn, alone>>
reportVars == <<disk, reports, reportDay>>
scoutVars == <<lastScan, findings>>
maintenanceVars == <<coordination, docVars, reportVars, scoutVars, today, thread, counts>>

\* task: what the thread runs, force: force_research; seen: the files that were scanned;
\* name: the report being written.
Resting == [at |-> "rest", task |-> "run", force |-> FALSE, seen |-> 0, name |-> <<0, 0>>]

Steps ==
  {"rest", "call", "scan", "manifest", "document", "free", "freshness", "due", "markdown", "pdf",
   "record", "scout", "fetch", "state", "findings", "finish"}

\* A report's files are named by the day, a forced one's by the second.
ReportNames == (1..MaxDays) \X (0..MaxTasks)
Files(name) == {<<name, "md">>, <<name, "pdf">>}

MaintenanceInit ==
  /\ running = FALSE /\ cancelled = FALSE /\ scoutStop = FALSE /\ asked = FALSE
  /\ thread = [t \in Threads |-> Resting]
  /\ files = 1 /\ manifest = 0 /\ document = 0 /\ torn = FALSE /\ alone = TRUE
  /\ today = 1 /\ disk = {} /\ reports = {} /\ reportDay = 0
  /\ lastScan = 0 /\ findings = 0
  /\ counts = [saves |-> 0, launches |-> 0, tasks |-> 0, cancels |-> 0, stops |-> 0]

At(t, step) == thread[t].at = step
GoTo(t, step) == thread' = [thread EXCEPT ![t].at = step]
Rest(t) == thread' = [thread EXCEPT ![t] = Resting]

\* A command's thread keeps the cockpit busy.
Busy == ~At("command", "rest")

(***************************************************************************)
(* The user, the timer and the coordinator                                 *)
(***************************************************************************)
\* cancel() sets both events.
Cancel ==
  /\ cancelled' = TRUE /\ scoutStop' = TRUE
  /\ asked' = running

Input ==
  /\ counts.cancels < MaxCancels
  /\ Cancel
  /\ counts' = [counts EXCEPT !.cancels = @ + 1]
  /\ UNCHANGED <<running, docVars, reportVars, scoutVars, today, thread>>

\* _tick_status: the cockpit is idle and the last run is over.
Launch ==
  /\ ~Busy /\ At("timer", "rest") /\ counts.launches < MaxLaunches
  /\ thread' = [thread EXCEPT !["timer"] = [Resting EXCEPT !.at = "call"]]
  /\ counts' = [counts EXCEPT !.launches = @ + 1]
  /\ UNCHANGED <<coordination, docVars, reportVars, scoutVars, today>>

\* on_input_submitted cancels, then a command works in a thread: /research scan, /docs refresh,
\* /report now.
Submit(task) ==
  /\ ~Busy /\ counts.tasks < MaxTasks
  /\ Cancel
  /\ thread' = [thread EXCEPT !["command"] =
                  [Resting EXCEPT !.task = task, !.force = (task = "run"),
                                  !.at = CASE task = "run" -> "call"
                                           [] task = "docs" -> "scan"
                                           [] task = "report" -> "due"]]
  /\ counts' = [counts EXCEPT !.tasks = @ + 1]
  /\ UNCHANGED <<running, docVars, reportVars, scoutVars, today>>

\* Mutant: the cancellation is cleared before the lock is looked at.
Acquire_ClearsFirst(t) ==
  /\ At(t, "call")
  /\ IF running THEN Rest(t) /\ UNCHANGED <<running, asked>>
                ELSE GoTo(t, "scan") /\ running' = TRUE /\ asked' = FALSE
  /\ cancelled' = FALSE
  /\ UNCHANGED <<scoutStop, docVars, reportVars, scoutVars, today, counts>>

\* Mutant: two runs may go on at once.
Acquire_Shared(t) ==
  /\ At(t, "call")
  /\ GoTo(t, "scan") /\ running' = TRUE /\ cancelled' = FALSE /\ asked' = FALSE
  /\ UNCHANGED <<scoutStop, docVars, reportVars, scoutVars, today, counts>>

\* A cancellation that came before is cleared.
Acquire(t) ==
  /\ At(t, "call")
  /\ IF running
     THEN Rest(t) /\ UNCHANGED <<running, cancelled, asked>>
     ELSE /\ GoTo(t, "scan")
          /\ running' = TRUE /\ cancelled' = FALSE /\ asked' = FALSE
  /\ UNCHANGED <<scoutStop, docVars, reportVars, scoutVars, today, counts>>

\* What follows a phase: a command has done its one task, a cancelled run finishes.
After(t, step) ==
  IF thread[t].task # "run" THEN Rest(t)
  ELSE IF cancelled THEN GoTo(t, "finish")
       ELSE GoTo(t, step)

(***************************************************************************)
(* Documentation (update_project_documentation)                            *)
(***************************************************************************)
OthersDocument(t) == \E u \in Threads \ {t} : thread[u].at \in {"manifest", "document"}

\* The stored manifest and the files are read, and what has changed is determined.
ScanFiles(t) ==
  /\ At(t, "scan")
  /\ IF files # manifest
     THEN /\ thread' = [thread EXCEPT ![t].at = "manifest", ![t].seen = files]
          /\ alone' = ~OthersDocument(t)
          /\ torn' = (torn \/ OthersDocument(t))
     ELSE After(t, "free") /\ UNCHANGED <<torn, alone>>
  /\ UNCHANGED <<coordination, files, manifest, document, reportVars, scoutVars, today, counts>>

WriteManifest(t) ==
  /\ At(t, "manifest")
  /\ manifest' = thread[t].seen
  /\ GoTo(t, "document")
  /\ UNCHANGED <<coordination, files, document, torn, alone, reportVars, scoutVars, today, counts>>

WriteDocument(t) ==
  /\ At(t, "document")
  /\ document' = thread[t].seen
  /\ torn' = (torn /\ ~alone)
  /\ After(t, "free")
  /\ UNCHANGED <<coordination, files, manifest, alone, reportVars, scoutVars, today, counts>>

(***************************************************************************)
(* Freshness, and the report (generate_idle_report)                        *)
(***************************************************************************)
\* Little free storage skips what follows.  The setting auto_fact_watch may skip the freshness,
\* before which the cancellation is not looked at again.
CheckStorage(t, next) ==
  /\ At(t, "free") /\ next \in {"freshness", "due", "finish"}
  /\ IF next = "due" THEN After(t, next) ELSE GoTo(t, next)
  /\ UNCHANGED <<coordination, docVars, reportVars, scoutVars, today, counts>>

Freshness(t) ==
  /\ At(t, "freshness")
  /\ After(t, "due")
  /\ UNCHANGED <<coordination, docVars, reportVars, scoutVars, today, counts>>

\* What follows the report: the research, if it is due or forced.
AfterReport(t) == After(t, IF thread[t].force \/ lastScan < today THEN "scout" ELSE "finish")

\* A run makes one report a day, and none of a state it has reported; a command's ignores both and
\* the cancellation.
CheckReport(t, unchanged) ==
  /\ At(t, "due")
  /\ IF thread[t].task = "report"
     THEN thread' = [thread EXCEPT ![t].at = "markdown", ![t].name = <<today, counts.tasks>>]
     ELSE IF \/ reportDay = today
             \/ unchanged /\ reportDay # 0
             \/ cancelled
          THEN AfterReport(t)
          ELSE thread' = [thread EXCEPT ![t].at = "markdown", ![t].name = <<today, 0>>]
  /\ UNCHANGED <<coordination, docVars, reportVars, scoutVars, today, counts>>

WriteMarkdown(t) ==
  /\ At(t, "markdown")
  /\ disk' = disk \cup {<<thread[t].name, "md">>}
  /\ GoTo(t, "pdf")
  /\ UNCHANGED <<coordination, docVars, reports, reportDay, scoutVars, today, counts>>

\* A run that was cancelled meanwhile takes its markdown back.
WritePdf(t) ==
  /\ At(t, "pdf")
  /\ IF thread[t].task = "run" /\ cancelled
     THEN disk' = disk \ {<<thread[t].name, "md">>} /\ AfterReport(t)
     ELSE disk' = disk \cup {<<thread[t].name, "pdf">>} /\ GoTo(t, "record")
  /\ UNCHANGED <<coordination, docVars, reports, reportDay, scoutVars, today, counts>>

RecordReport(t) ==
  /\ At(t, "record")
  /\ reports' = reports \cup {thread[t].name} /\ reportDay' = today
  /\ AfterReport(t)
  /\ UNCHANGED <<coordination, docVars, disk, scoutVars, today, counts>>

(***************************************************************************)
(* Research (scan_research), and the end of a run                          *)
(***************************************************************************)
\* The scout clears its own event, so that a cancellation just before is lost to it.
BeginScan(t) ==
  /\ At(t, "scout")
  /\ scoutStop' = FALSE
  /\ GoTo(t, "fetch")
  /\ UNCHANGED <<running, cancelled, asked, docVars, reportVars, scoutVars, today, counts>>

\* The requests, and the look at the event after the last of them; a policy may disable the scan.
Fetch(t) ==
  /\ At(t, "fetch")
  /\ \/ GoTo(t, IF scoutStop THEN "finish" ELSE "state")
     \/ GoTo(t, "finish")
  /\ UNCHANGED <<coordination, docVars, reportVars, scoutVars, today, counts>>

StoreScan(t) ==
  /\ At(t, "state")
  /\ lastScan' = today
  /\ GoTo(t, "findings")
  /\ UNCHANGED <<coordination, docVars, reportVars, findings, today, counts>>

StoreFindings(t) ==
  /\ At(t, "findings")
  /\ findings' = today
  /\ GoTo(t, "finish")
  /\ UNCHANGED <<coordination, docVars, reportVars, lastScan, today, counts>>

\* Whatever raises in a phase ends the run, and a command's task.  A document that cannot be written
\* stays as it was, while the manifest says that it is current.
Raises(t) ==
  /\ thread[t].at \notin {"rest", "call", "finish"}
  /\ IF thread[t].task = "run" THEN GoTo(t, "finish") ELSE Rest(t)
  /\ torn' = (torn \/ At(t, "document"))
  /\ UNCHANGED <<coordination, files, manifest, document, alone, reportVars, scoutVars, today,
                 counts>>

\* A run whose result cannot be written goes without leaving "running".
FinishRun(t) ==
  /\ At(t, "finish")
  /\ running' \in BOOLEAN
  /\ Rest(t)
  /\ UNCHANGED <<cancelled, scoutStop, asked, docVars, reportVars, scoutVars, today, counts>>

(***************************************************************************)
(* The world                                                               *)
(***************************************************************************)
Save ==
  /\ counts.saves < MaxSaves
  /\ files' = files + 1
  /\ counts' = [counts EXCEPT !.saves = @ + 1]
  /\ UNCHANGED <<coordination, manifest, document, torn, alone, reportVars, scoutVars, today,
                 thread>>

\* A save of PROJECT_STATE.md itself: the scan passes over that file.
EditDocument ==
  /\ counts.saves < MaxSaves
  /\ document' = 0 /\ torn' = TRUE
  /\ counts' = [counts EXCEPT !.saves = @ + 1]
  /\ UNCHANGED <<coordination, files, manifest, alone, reportVars, scoutVars, today, thread>>

DayPasses ==
  /\ today < MaxDays
  /\ today' = today + 1
  /\ UNCHANGED <<coordination, docVars, reportVars, scoutVars, thread, counts>>

Stop ==
  /\ counts.stops < MaxStops
  /\ running' = FALSE /\ cancelled' = FALSE /\ scoutStop' = FALSE /\ asked' = FALSE
  /\ torn' = (torn \/ \E t \in Threads : At(t, "document"))
  /\ thread' = [t \in Threads |-> Resting]
  /\ counts' = [counts EXCEPT !.stops = @ + 1]
  /\ UNCHANGED <<files, manifest, document, alone, reportVars, scoutVars, today>>

ThreadStep(t) ==
  \/ Acquire(t)
  \/ ScanFiles(t) \/ WriteManifest(t) \/ WriteDocument(t)
  \/ \E next \in {"freshness", "due", "finish"} : CheckStorage(t, next)
  \/ Freshness(t)
  \/ \E unchanged \in BOOLEAN : CheckReport(t, unchanged)
  \/ WriteMarkdown(t) \/ WritePdf(t) \/ RecordReport(t)
  \/ BeginScan(t) \/ Fetch(t) \/ StoreScan(t) \/ StoreFindings(t)
  \/ Raises(t) \/ FinishRun(t)

MaintenanceNext ==
  \/ Input \/ Launch
  \/ \E task \in Tasks : Submit(task)
  \/ \E t \in Threads : ThreadStep(t)
  \/ Save \/ EditDocument \/ DayPasses \/ Stop

MaintenanceSpec == MaintenanceInit /\ [][MaintenanceNext]_maintenanceVars

(***************************************************************************)
(* Properties                                                              *)
(***************************************************************************)
MaintenanceTypeOK ==
  /\ {running, cancelled, scoutStop, asked, torn, alone} \subseteq BOOLEAN
  /\ thread \in [Threads -> [at : Steps, task : Tasks, force : BOOLEAN, seen : 0..MaxSaves + 1,
                             name : ReportNames \cup {<<0, 0>>}]]
  /\ {manifest, document, files} \subseteq 0..MaxSaves + 1
  /\ reports \subseteq ReportNames /\ disk \subseteq UNION {Files(n) : n \in ReportNames}
  /\ {lastScan, findings, reportDay} \subseteq 0..today /\ today \in 1..MaxDays

\* A recorded report has both its files, although a cancelled run takes its own back and a command
\* may write another at the same time (idle_reporter.py:258-273).
RecordedReportExists == \A name \in reports : Files(name) \subseteq disk

\* With no pass of the documenter between its two writes the document describes the files that the
\* manifest lists (workspace_documenter.py:140-143).  It need not after a pass that was broken off
\* between them by an exception or the end of the process, after two passes that overlapped, and
\* after an edit of the document itself, which no scan notices: but the next pass that finds a
\* change and is neither broken off nor overlapped makes it good.
DocumentFollowsManifest ==
  ~torn /\ (\A t \in Threads : ~At(t, "document")) => document = manifest

\* What maintenance has published is true of the disk.
PublishedIsTrue == RecordedReportExists /\ DocumentFollowsManifest

\* The report and the research.  (The freshness phase looks at the cancellation before each of its
\* searches, see FactWatch.)
LaterPhases == {"due", "scout"}

\* "Idle work runs only while the cockpit is open and idle" (README.md:211): a run that the user has
\* cancelled since it began enters neither, whatever other runs are asked for meanwhile.
\* A cancellation that comes before the run clears the event is not one of these, nor one that
\* comes when the research was entered and its own event is not yet clear.
IdleWorkYields ==
  [][\A t \in Threads :
       /\ thread[t].task = "run" /\ thread[t].at # "rest"
       /\ thread'[t].at \in LaterPhases \ {thread[t].at}
       => ~asked]_maintenanceVars
=============================================================================
