--------------------------- MODULE ResidentEngine ---------------------------
(***************************************************************************)
(* The resident inference engine of engine/resident_engine.py and the      *)
(* backend choice of llm_controller._stream_raw_backend.                   *)
(*                                                                         *)
(* One worker thread owns the native engine and serves a FIFO queue of     *)
(* inference requests, warm-ups and controls.  The event loop enqueues     *)
(* them and waits for each call's own events, with a timeout; a call that  *)
(* ends sets its cancelled flag and the worker's later events for it are   *)
(* dropped.  The loop never runs two inferences at once, but a timed-out   *)
(* or abandoned request stays in the queue or in the worker.               *)
(*                                                                         *)
(* Time is abstract: any wait may time out, and the engine's last use is   *)
(* recent or longer ago than the residency window that the measured memory *)
(* gives it, whichever profile that is.  One token stands for a text, and  *)
(* the native engine is external: it loads, streams and ends, or raises.   *)
(***************************************************************************)
EXTENDS Naturals, Sequences

CONSTANTS
  Inferences,   \* calls of stream()
  Warmups,      \* calls of warm()
  CloseFails,   \* whether the native engine's close() may raise
  MaxUnloads    \* /engine unload commands (bounds TLC)

ASSUME ResidentAssumption ==
  /\ Inferences \cap Warmups = {}
  /\ (Inferences \cup Warmups) \cap {"no call", "unload", "shutdown"} = {}
  /\ CloseFails \in BOOLEAN
  /\ MaxUnloads \in Nat

Calls == Inferences \cup Warmups

Modes == {"auto", "resident", "pty"}   \* inference_mode

NoCall == "no call"

Control == {"unload", "shutdown"}

VARIABLES
  queue,     \* _requests
  worker,    \* what the worker thread does; "none": not started, "dead": raised, "stopped"
  serving,   \* the call whose request it handles
  reason,    \* why it closes the engine
  loaded,    \* _engine is not None
  state,     \* _state
  failures,  \* _failures, counted up to the 2 that it is compared with
  lastUsed,  \* _last_used: "never" is 0.0
  shutdown,  \* _shutdown_requested
  call,      \* each call, as its caller sees it; "auto" or "resident": waits in that mode
  events,    \* each call's event queue
  cancelled, \* calls whose cancelled flag is set
  sources,   \* the backends whose text each call has yielded
  unloads    \* unload commands so far

engineVars == <<loaded, state, failures, lastUsed>>
workerVars == <<worker, serving, reason>>
callVars == <<call, sources>>
residentVars ==
  <<queue, workerVars, engineVars, shutdown, callVars, events, cancelled, unloads>>

ResidentInit ==
  /\ queue = <<>>
  /\ worker = "none" /\ serving = NoCall /\ reason = "none"
  /\ loaded = FALSE /\ state = "cold" /\ failures = 0 /\ lastUsed = "never"
  /\ shutdown = FALSE
  /\ call = [c \in Calls |-> "unused"]
  /\ sources = [c \in Calls |-> {}]
  /\ events = [c \in Calls |-> <<>>]
  /\ cancelled = {}
  /\ unloads = 0

Alive == worker \notin {"none", "dead", "stopped"}

-----------------------------------------------------------------------------
(* The event loop's calls.                                                 *)

\* Mutant: a shutdown does not refuse new attempts.
CanAttempt_Always(force) == force \/ failures < 2

CanAttempt(force) == ~shutdown /\ (force \/ failures < 2)

\* _ensure_thread, then the put.
Enqueue(item) ==
  /\ queue' = Append(queue, item)
  /\ worker' = IF Alive THEN worker ELSE "waiting"
  /\ UNCHANGED <<serving, reason>>

Waiting(c) == call[c] \in {"auto", "resident"}

Open(c) == Waiting(c) \/ call[c] = "fallback"

Ask(c, m) ==
  /\ call[c] = "unused"
  /\ \A d \in Inferences : ~Open(d)
  /\ IF m # "pty" /\ CanAttempt(m = "resident")
     THEN Enqueue(c) /\ call' = [call EXCEPT ![c] = m]
     ELSE UNCHANGED <<queue, workerVars>> /\ call' = [call EXCEPT ![c] = "fallback"]
  /\ UNCHANGED <<engineVars, shutdown, sources, events, cancelled, unloads>>

\* can_prewarm has seen enough memory; a loaded engine needs no request.
Warm(c) ==
  /\ call[c] = "unused"
  /\ CanAttempt(FALSE)
  /\ IF loaded
     THEN UNCHANGED <<queue, workerVars>> /\ call' = [call EXCEPT ![c] = "over"]
     ELSE Enqueue(c) /\ call' = [call EXCEPT ![c] = "auto"]
  /\ UNCHANGED <<engineVars, shutdown, sources, events, cancelled, unloads>>

\* A call that ends raises its cancelled flag; its queue goes with it.
End(c, outcome) ==
  /\ call' = [call EXCEPT ![c] = outcome]
  /\ cancelled' = cancelled \cup {c}
  /\ events' = [events EXCEPT ![c] = <<>>]

\* Mutant: a failed attempt falls back even when the user has seen some of its text.
AfterFailure_Always(c) ==
  IF c \in Inferences /\ call[c] = "auto" THEN "fallback" ELSE "over"

AfterFailure(c) ==
  IF c \in Inferences /\ call[c] = "auto" /\ sources[c] = {} THEN "fallback" ELSE "over"

Receive(c) ==
  /\ Waiting(c)
  /\ events[c] # <<>>
  /\ CASE Head(events[c]) = "token" ->
            /\ sources' = [sources EXCEPT ![c] = @ \cup {"resident"}]
            /\ events' = [events EXCEPT ![c] = Tail(@)]
            /\ UNCHANGED <<call, cancelled>>
       [] Head(events[c]) = "done"  -> End(c, "over") /\ UNCHANGED sources
       [] Head(events[c]) = "error" -> End(c, AfterFailure(c)) /\ UNCHANGED sources
  /\ UNCHANGED <<queue, workerVars, engineVars, shutdown, unloads>>

\* Mutant: the wait for a first event has no timeout.
Timeout_Never(c) ==
  /\ Waiting(c)
  /\ sources[c] # {}
  /\ events[c] = <<>>
  /\ End(c, AfterFailure(c))
  /\ UNCHANGED <<queue, workerVars, engineVars, shutdown, sources, unloads>>

Timeout(c) ==
  /\ Waiting(c)
  /\ events[c] = <<>>
  /\ End(c, AfterFailure(c))
  /\ UNCHANGED <<queue, workerVars, engineVars, shutdown, sources, unloads>>

\* The consumer closes the generator: the turn is torn down.
Abandon(c) ==
  /\ Waiting(c)
  /\ End(c, "over")
  /\ UNCHANGED <<queue, workerVars, engineVars, shutdown, sources, unloads>>

\* _stream_pty_raw: the command-line process writes some text or none, and is over, whether it
\* ends by itself, could not be started, or is ended at its time limit.
Fallback(c) ==
  /\ call[c] = "fallback"
  /\ call' = [call EXCEPT ![c] = "over"]
  /\ \/ sources' = [sources EXCEPT ![c] = @ \cup {"pty"}]
     \/ UNCHANGED sources
  /\ UNCHANGED <<queue, workerVars, engineVars, shutdown, events, cancelled, unloads>>

RequestUnload ==
  /\ unloads < MaxUnloads
  /\ unloads' = unloads + 1
  /\ queue' = IF Alive THEN Append(queue, "unload") ELSE queue
  /\ UNCHANGED <<workerVars, engineVars, shutdown, callVars, events, cancelled>>

Shutdown ==
  /\ ~shutdown
  /\ shutdown' = TRUE
  /\ queue' = IF Alive THEN Append(queue, "shutdown") ELSE queue
  /\ UNCHANGED <<workerVars, engineVars, callVars, events, cancelled, unloads>>

-----------------------------------------------------------------------------
(* The worker thread.                                                      *)

Emit(c, event) ==
  events' = IF c \in cancelled THEN events ELSE [events EXCEPT ![c] = Append(@, event)]

BackToQueue == worker' = "waiting" /\ serving' = NoCall /\ reason' = "none"

\* Mutant: a control command is handled like a request.
TakeRequest_OfAnyKind ==
  /\ worker = "waiting"
  /\ queue # <<>>
  /\ queue' = Tail(queue)
  /\ serving' = Head(queue)
  /\ worker' = IF loaded THEN "ready" ELSE "loading"
  /\ state' = IF loaded THEN state ELSE "warming"
  /\ UNCHANGED <<reason, loaded, failures, lastUsed, shutdown, callVars, events, cancelled, unloads>>

TakeRequest ==
  /\ worker = "waiting"
  /\ queue # <<>>
  /\ Head(queue) \in Calls
  /\ queue' = Tail(queue)
  /\ serving' = Head(queue)
  /\ worker' = IF loaded THEN "ready" ELSE "loading"
  /\ state' = IF loaded THEN state ELSE "warming"
  /\ UNCHANGED <<reason, loaded, failures, lastUsed, shutdown, callVars, events, cancelled, unloads>>

\* _close_engine begins; without an engine there is nothing to close.
StartClose(why) ==
  /\ worker' = "closing"
  /\ reason' = why
  /\ state' = CASE loaded         -> "unloading"
                [] why = "error"  -> "error"
                [] OTHER          -> state

TakeControl ==
  /\ worker = "waiting"
  /\ queue # <<>>
  /\ Head(queue) \in Control
  /\ queue' = Tail(queue)
  /\ StartClose(Head(queue))
  /\ UNCHANGED <<serving, loaded, failures, lastUsed, shutdown, callVars, events, cancelled, unloads>>

Load ==
  /\ worker = "loading"
  /\ worker' = "ready"
  /\ loaded' = TRUE
  /\ state' = "hot"
  /\ UNCHANGED <<queue, serving, reason, failures, lastUsed, shutdown, callVars, events, cancelled,
                 unloads>>

\* A request that was cancelled while it waited or loaded is dropped here.
SkipCancelled ==
  /\ worker = "ready"
  /\ serving \in Inferences \cap cancelled
  /\ BackToQueue
  /\ UNCHANGED <<queue, engineVars, shutdown, callVars, events, cancelled, unloads>>

Generate ==
  /\ worker = "ready"
  /\ serving \in Inferences \ cancelled
  /\ worker' = "generating"
  /\ state' = "generating"
  /\ UNCHANGED <<queue, serving, reason, loaded, failures, lastUsed, shutdown, callVars, events,
                 cancelled, unloads>>

Token ==
  /\ worker = "generating"
  /\ worker' = "streaming"
  /\ Emit(serving, "token")
  /\ UNCHANGED <<queue, serving, reason, engineVars, shutdown, callVars, cancelled, unloads>>

Finish ==
  /\ \/ worker \in {"generating", "streaming"}
     \/ worker = "ready" /\ serving \in Warmups
  /\ BackToQueue
  /\ lastUsed' = "recent"
  /\ state' = "hot"
  /\ Emit(serving, "done")
  /\ UNCHANGED <<queue, loaded, failures, shutdown, callVars, cancelled, unloads>>

\* The load, the conversation or the stream raises.
Raise ==
  /\ worker \in {"loading", "generating", "streaming"}
  /\ failures' = IF failures < 2 THEN failures + 1 ELSE failures
  /\ StartClose("error")
  /\ UNCHANGED <<queue, serving, loaded, lastUsed, shutdown, callVars, events, cancelled, unloads>>

\* Mutant: maintenance runs only in the state that a failure leaves.
Maintain_OnlyCold ==
  /\ worker = "waiting"
  /\ queue = <<>>
  /\ loaded
  /\ lastUsed = "longAgo"
  /\ state # "hot"
  /\ StartClose("idle")
  /\ UNCHANGED <<queue, serving, loaded, failures, lastUsed, shutdown, callVars, events, cancelled,
                 unloads>>

\* Idle for longer than the residency window, found when the queue stays empty.
Maintain ==
  /\ worker = "waiting"
  /\ queue = <<>>
  /\ loaded
  /\ lastUsed = "longAgo"
  /\ StartClose("idle")
  /\ UNCHANGED <<queue, serving, loaded, failures, lastUsed, shutdown, callVars, events, cancelled,
                 unloads>>

\* Mutant: the engine object is kept when it is closed after an error.
Closed_Kept ==
  /\ worker = "closing"
  /\ loaded' = (reason = "error" /\ loaded)
  /\ state' = IF reason = "shutdown" THEN "stopped" ELSE "cold"
  /\ lastUsed' = IF reason = "error" /\ loaded THEN "never" ELSE lastUsed
  /\ IF reason = "error" THEN Emit(serving, "error") ELSE UNCHANGED events
  /\ IF reason = "shutdown"
     THEN worker' = "stopped" /\ UNCHANGED <<serving, reason>>
     ELSE BackToQueue
  /\ UNCHANGED <<queue, failures, shutdown, callVars, cancelled, unloads>>

Closed ==
  /\ worker = "closing"
  /\ loaded' = FALSE
  /\ state' = IF reason = "shutdown" THEN "stopped" ELSE "cold"
  /\ lastUsed' = IF reason = "error" /\ loaded THEN "never" ELSE lastUsed
  /\ IF reason = "error" THEN Emit(serving, "error") ELSE UNCHANGED events
  /\ IF reason = "shutdown"
     THEN worker' = "stopped" /\ UNCHANGED <<serving, reason>>
     ELSE BackToQueue
  /\ UNCHANGED <<queue, failures, shutdown, callVars, cancelled, unloads>>

\* close() raises: after an error that is ignored (Closed), anywhere else it ends the thread,
\* with the engine forgotten and what is queued left for the next thread.
CloseRaises ==
  /\ CloseFails
  /\ worker = "closing"
  /\ loaded
  /\ reason # "error"
  /\ loaded' = FALSE
  /\ state' = "cold"
  /\ worker' = "dead"
  /\ reason' = "none"
  /\ UNCHANGED <<queue, serving, failures, lastUsed, shutdown, callVars, events, cancelled, unloads>>

TimePasses ==
  /\ lastUsed = "recent"
  /\ lastUsed' = "longAgo"
  /\ UNCHANGED <<queue, workerVars, loaded, state, failures, shutdown, callVars, events, cancelled,
                 unloads>>

-----------------------------------------------------------------------------

CallerStep ==
  \/ \E c \in Inferences, m \in Modes : Ask(c, m)
  \/ \E c \in Warmups : Warm(c)
  \/ \E c \in Calls : Abandon(c)
  \/ RequestUnload
  \/ Shutdown

ReplyStep(c) == Receive(c) \/ Timeout(c) \/ Fallback(c)

WorkerStep ==
  \/ TakeRequest \/ TakeControl \/ Load \/ SkipCancelled \/ Generate \/ Token \/ Finish \/ Raise
  \/ Maintain \/ Closed \/ CloseRaises

ResidentNext ==
  \/ CallerStep
  \/ \E c \in Calls : ReplyStep(c)
  \/ WorkerStep
  \/ TimePasses

\* The loop reads a call's events or lets it time out, the thread runs, and time passes; the
\* native engine's calls return.
ResidentSpec ==
  /\ ResidentInit
  /\ [][ResidentNext]_residentVars
  /\ \A c \in Calls : WF_residentVars(ReplyStep(c))
  /\ WF_residentVars(WorkerStep)
  /\ WF_residentVars(TimePasses)

-----------------------------------------------------------------------------

\* The variables have their types.
ResidentTypeOK ==
  /\ queue \in Seq(Calls \cup Control)
  /\ worker \in {"none", "waiting", "loading", "ready", "generating", "streaming", "closing",
                 "dead", "stopped"}
  /\ serving \in Calls \cup {NoCall}
  /\ reason \in Control \cup {"none", "error", "idle"}
  /\ loaded \in BOOLEAN
  /\ state \in {"cold", "warming", "hot", "generating", "unloading", "error", "stopped"}
  /\ failures \in 0..2
  /\ lastUsed \in {"never", "recent", "longAgo"}
  /\ shutdown \in BOOLEAN
  /\ call \in [Calls -> {"unused", "auto", "resident", "fallback", "over"}]
  /\ events \in [Calls -> Seq({"token", "done", "error"})]
  /\ cancelled \subseteq Calls
  /\ sources \in [Calls -> SUBSET {"resident", "pty"}]

\* When the worker waits, the status that the telemetry shows is true: hot exactly when an
\* engine is loaded, after any mix of failures, cancellations, unloads and timeouts.
WaitingStateIsTrue == worker = "waiting" => (state = "hot") = loaded

\* An answer never joins the text of two backends: the fallback speaks only where the
\* resident engine said nothing, and a late token of a timed-out request is dropped.
OneVoice == \A c \in Calls : sources[c] # {"resident", "pty"}

\* A call that still waits for an event is in the queue or in the worker's hands, and not
\* behind a shutdown, where no timeout but its own would ever end it.  (A close that raises
\* kills the thread; the next call starts another, which serves the queue.)
NoCallIsForgotten ==
  \A c \in Calls :
    Waiting(c) /\ events[c] = <<>> /\ worker # "dead"
      => \/ serving = c
         \/ \E i \in 1..Len(queue) :
              queue[i] = c /\ \A j \in 1..(i - 1) : queue[j] # "shutdown"

\* Every call ends, even when a thread dies or a request waits behind others.
CallsEnd == \A c \in Calls : Open(c) ~> ~Open(c)

\* An engine that has answered is released when nothing uses it any more, or at shutdown: the
\* calls of a behaviour are finitely many, and no mix of them leaves the engine loaded.
UsedEngineIsReleased == loaded /\ lastUsed # "never" ~> ~loaded

-----------------------------------------------------------------------------
(* What the repository says of the program and the program does not do.    *)

\* README.md:26: the engine "is reused while memory permits, then unloaded under pressure or
\* sustained inactivity".  A request that is cancelled while the engine loads for it never
\* sets _last_used, and _maintenance leaves an engine alone while that is 0.
IdleEngineIsUnloaded == loaded ~> ~loaded

=============================================================================
