--------------------------- MODULE ResidentProofs ---------------------------
(***************************************************************************)
(* The resident engine for any number of inferences, warm-ups and unloads. *)
(* Its safety needs three facts of each moment, beside the types: what the *)
(* worker's place says of the engine, which calls may have text of which   *)
(* backend, and where a call that still waits is to be found.              *)
(***************************************************************************)
EXTENDS ResidentEngine, TLAPS

\* What the worker's place says of the engine.
EngineIsKnown ==
  /\ worker = "waiting" => (state = "hot" <=> loaded)
  /\ worker \in {"none", "dead", "stopped", "loading"} => ~loaded /\ state # "hot"
  /\ worker = "ready" => loaded /\ state = "hot"
  /\ worker \in {"generating", "streaming"} => loaded

\* Which backend can have spoken for a call.
VoicesAreKnown ==
  \A c \in Calls :
    /\ call[c] \in {"unused", "fallback"} => sources[c] = {}
    /\ Waiting(c) => "pty" \notin sources[c]
    /\ sources[c] # {"resident", "pty"}

\* The worker has a call exactly while it loads, generates, or closes after an error.
ServingIsKnown ==
  /\ worker \in {"none", "waiting", "dead", "stopped"} => serving = NoCall
  /\ worker = "closing" /\ reason # "error" => serving = NoCall
  /\ worker \in {"loading", "ready", "generating", "streaming"} => serving \in Calls
  /\ worker = "closing" /\ reason = "error" => serving \in Calls

\* Only calls that are over are cancelled, and only a shutdown puts its item into the queue.
CancelledIsOver ==
  /\ \A c \in cancelled : call[c] \in {"fallback", "over"}
  /\ ~shutdown => \A i \in 1..Len(queue) : queue[i] # "shutdown"

\* A waiting call is in the queue before any shutdown, in the worker's hands, or answered.
InQueue(c) == \E i \in 1..Len(queue) : queue[i] = c /\ \A j \in 1..(i - 1) : queue[j] # "shutdown"
Answered(c) == \E i \in 1..Len(events[c]) : events[c][i] \in {"done", "error"}
WaitingIsServed == \A c \in Calls : Waiting(c) => serving = c \/ InQueue(c) \/ Answered(c)

ResidentIInv ==
  /\ ResidentTypeOK /\ EngineIsKnown /\ VoicesAreKnown
  /\ ServingIsKnown /\ CancelledIsOver /\ WaitingIsServed

LEMMA ResidentInitInv == ResidentInit => ResidentIInv
<1> SUFFICES ASSUME ResidentInit PROVE ResidentIInv
  OBVIOUS
<1>1. ResidentTypeOK
  <2>1. queue \in Seq(Calls \cup Control) /\ events \in [Calls -> Seq({"token", "done", "error"})]
    BY DEF ResidentInit
  <2>2. call \in [Calls -> {"unused", "auto", "resident", "fallback", "over"}]
    BY DEF ResidentInit
  <2>3. sources \in [Calls -> SUBSET {"resident", "pty"}]
    BY DEF ResidentInit
  <2>4. serving \in Calls \cup {NoCall} /\ cancelled \subseteq Calls /\ failures \in 0..2
    BY DEF ResidentInit
  <2>5. QED
    BY <2>1, <2>2, <2>3, <2>4 DEF ResidentInit, ResidentTypeOK
<1>2. EngineIsKnown /\ VoicesAreKnown /\ ServingIsKnown
  BY DEF ResidentInit, EngineIsKnown, VoicesAreKnown, ServingIsKnown, Waiting
<1>3. CancelledIsOver /\ WaitingIsServed
  BY DEF ResidentInit, CancelledIsOver, WaitingIsServed, Waiting
<1>4. QED
  BY <1>1, <1>2, <1>3 DEF ResidentIInv

Outcomes == {"fallback", "over"}
Events == {"token", "done", "error"}

LEMMA EndType ==
  ASSUME ResidentTypeOK, NEW c \in Calls, NEW outcome \in Outcomes, End(c, outcome)
  PROVE  /\ call' \in [Calls -> {"unused", "auto", "resident", "fallback", "over"}]
         /\ events' \in [Calls -> Seq(Events)] /\ cancelled' \subseteq Calls
  BY DEF ResidentTypeOK, End, Outcomes, Events

LEMMA EmitType ==
  ASSUME ResidentTypeOK, NEW c, NEW event \in Events, Emit(c, event)
  PROVE  events' \in [Calls -> Seq(Events)]
<1>1. CASE c \in Calls
  BY <1>1 DEF ResidentTypeOK, Emit, Events
<1>2. CASE c \notin Calls
  <2>1. events' = events
    BY <1>2 DEF ResidentTypeOK, Emit
  <2>2. QED
    BY <2>1 DEF ResidentTypeOK, Events
<1>3. QED
  BY <1>1, <1>2

LEMMA ResidentTypeStep == ResidentTypeOK /\ [ResidentNext]_residentVars => ResidentTypeOK'
<1> SUFFICES ASSUME ResidentTypeOK, [ResidentNext]_residentVars PROVE ResidentTypeOK'
  OBVIOUS
<1> USE DEF ResidentTypeOK, engineVars, workerVars, callVars
<1>1. ASSUME NEW c \in Inferences, NEW m \in Modes, Ask(c, m) PROVE ResidentTypeOK'
  <2>1. c \in Calls
    BY DEF Calls
  <2>2. call' \in [Calls -> {"unused", "auto", "resident", "fallback", "over"}]
    BY <1>1, <2>1 DEF Ask, Modes
  <2>3. queue' \in Seq(Calls \cup Control) /\ worker' \in {worker, "waiting"}
    <3>1. CASE Enqueue(c)
      BY <2>1, <3>1 DEF Enqueue
    <3>2. CASE UNCHANGED <<queue, workerVars>>
      BY <3>2
    <3>3. QED
      BY <1>1, <3>1, <3>2 DEF Ask
  <2>4. QED
    BY <1>1, <2>2, <2>3 DEF Ask, Enqueue
<1>2. ASSUME NEW c \in Warmups, Warm(c) PROVE ResidentTypeOK'
  <2>1. c \in Calls
    BY DEF Calls
  <2>2. call' \in [Calls -> {"unused", "auto", "resident", "fallback", "over"}]
    BY <1>2, <2>1 DEF Warm
  <2>3. queue' \in Seq(Calls \cup Control) /\ worker' \in {worker, "waiting"}
    <3>1. CASE Enqueue(c)
      BY <2>1, <3>1 DEF Enqueue
    <3>2. CASE UNCHANGED <<queue, workerVars>>
      BY <3>2
    <3>3. QED
      BY <1>2, <3>1, <3>2 DEF Warm
  <2>4. QED
    BY <1>2, <2>2, <2>3 DEF Warm, Enqueue
<1>3. ASSUME NEW c \in Calls, Abandon(c) PROVE ResidentTypeOK'
  BY <1>3 DEF Abandon, End
<1>4. CASE RequestUnload
  BY <1>4 DEF RequestUnload, Control
<1>5. CASE Shutdown
  BY <1>5 DEF Shutdown, Control
<1>6. ASSUME NEW c \in Calls, Receive(c) PROVE ResidentTypeOK'
  <2>1. AfterFailure(c) \in Outcomes /\ "over" \in Outcomes
    BY DEF AfterFailure, Outcomes
  <2>2. CASE Head(events[c]) = "token"
    <3>1. Tail(events[c]) \in Seq(Events)
      BY <1>6 DEF Receive, Events
    <3>2. events' = [events EXCEPT ![c] = Tail(@)] /\ events' \in [Calls -> Seq(Events)]
      BY <1>6, <2>2, <3>1 DEF Receive, Events
    <3>3. sources' \in [Calls -> SUBSET {"resident", "pty"}]
      BY <1>6, <2>2 DEF Receive
    <3>4. call' = call /\ cancelled' = cancelled
      BY <1>6, <2>2 DEF Receive
    <3>5. UNCHANGED <<queue, worker, serving, reason, loaded, state, failures, lastUsed, shutdown, unloads>>
      BY <1>6, <2>2 DEF Receive
    <3>6. events' \in [Calls -> Seq({"token", "done", "error"})]
      BY <3>2 DEF Events
    <3>7. QED
      BY <3>3, <3>4, <3>5, <3>6
  <2>3. CASE Head(events[c]) \in {"done", "error"}
    <3>1. \E outcome \in Outcomes : End(c, outcome)
      BY <1>6, <2>1, <2>3 DEF Receive
    <3>2. sources' = sources
      BY <1>6, <2>3 DEF Receive
    <3>3. /\ call' \in [Calls -> {"unused", "auto", "resident", "fallback", "over"}]
          /\ events' \in [Calls -> Seq(Events)] /\ cancelled' \subseteq Calls
      BY <3>1, EndType
    <3>4. QED
      BY <1>6, <3>2, <3>3 DEF Receive, Events
  <2>4. QED
    BY <1>6, <2>2, <2>3 DEF Receive
<1>7. ASSUME NEW c \in Calls, Timeout(c) PROVE ResidentTypeOK'
  <2>1. AfterFailure(c) \in Outcomes
    BY DEF AfterFailure, Outcomes
  <2>2. /\ call' \in [Calls -> {"unused", "auto", "resident", "fallback", "over"}]
        /\ events' \in [Calls -> Seq(Events)] /\ cancelled' \subseteq Calls
    BY <1>7, <2>1, EndType DEF Timeout
  <2>3. sources' = sources /\ UNCHANGED <<queue, worker, serving, reason, loaded, state, failures, lastUsed, shutdown, unloads>>
    BY <1>7 DEF Timeout
  <2>4. QED
    BY <2>2, <2>3 DEF Events
<1>8. ASSUME NEW c \in Calls, Fallback(c) PROVE ResidentTypeOK'
  <2>1. call' \in [Calls -> {"unused", "auto", "resident", "fallback", "over"}]
    BY <1>8 DEF Fallback
  <2>2. CASE UNCHANGED sources
    BY <1>8, <2>1, <2>2 DEF Fallback
  <2>3. CASE sources' = [sources EXCEPT ![c] = @ \cup {"pty"}]
    <3>1. sources' \in [Calls -> SUBSET {"resident", "pty"}]
      BY <2>3
    <3>2. QED
      BY <1>8, <2>1, <3>1 DEF Fallback
  <2>4. QED
    BY <1>8, <2>2, <2>3 DEF Fallback
<1>9. CASE TakeRequest
  BY <1>9 DEF TakeRequest
<1>10. CASE TakeControl
  BY <1>10 DEF TakeControl, StartClose, Control
<1>11. CASE Load
  BY <1>11 DEF Load
<1>12. CASE SkipCancelled
  BY <1>12 DEF SkipCancelled, BackToQueue
<1>13. CASE Generate
  BY <1>13 DEF Generate
<1>14. CASE Token
  BY <1>14, EmitType DEF Token, Events
<1>15. CASE Finish
  BY <1>15, EmitType DEF Finish, BackToQueue, Events
<1>16. CASE Raise
  BY <1>16 DEF Raise, StartClose
<1>17. CASE Maintain
  BY <1>17 DEF Maintain, StartClose
<1>18. CASE Closed
  <2>1. events' \in [Calls -> Seq(Events)]
    BY <1>18, EmitType DEF Closed, Events
  <2>2. QED
    BY <1>18, <2>1 DEF Closed, BackToQueue, Events
<1>19. CASE CloseRaises
  BY <1>19 DEF CloseRaises
<1>20. CASE TimePasses
  BY <1>20 DEF TimePasses
<1>21. CASE UNCHANGED residentVars
  BY <1>21 DEF residentVars
<1>22. QED
  BY <1>1, <1>2, <1>3, <1>4, <1>5, <1>6, <1>7, <1>8, <1>9, <1>10, <1>11, <1>12, <1>13, <1>14, <1>15,
     <1>16, <1>17, <1>18, <1>19, <1>20, <1>21
     DEF ResidentNext, CallerStep, ReplyStep, WorkerStep

\* Where a step of the callers leaves the worker: in its place, or started.
LEMMA CallersLeaveTheEngine ==
  ASSUME CallerStep \/ \E c \in Calls : ReplyStep(c)
  PROVE  /\ UNCHANGED <<loaded, state, failures, lastUsed, serving, reason>>
         /\ worker' = worker \/ (~Alive /\ worker' = "waiting")
<1> USE DEF engineVars, workerVars, callVars
<1>1. ASSUME NEW c \in Inferences, NEW m \in Modes, Ask(c, m)
      PROVE  /\ UNCHANGED <<loaded, state, failures, lastUsed, serving, reason>>
             /\ worker' = worker \/ (~Alive /\ worker' = "waiting")
  BY <1>1 DEF Ask, Enqueue
<1>2. ASSUME NEW c \in Warmups, Warm(c)
      PROVE  /\ UNCHANGED <<loaded, state, failures, lastUsed, serving, reason>>
             /\ worker' = worker \/ (~Alive /\ worker' = "waiting")
  BY <1>2 DEF Warm, Enqueue
<1>3. ASSUME NEW c \in Calls, Receive(c)
      PROVE  UNCHANGED <<loaded, state, failures, lastUsed, serving, reason, worker>>
  BY <1>3 DEF Receive
<1>4. QED
  BY <1>1, <1>2, <1>3
     DEF CallerStep, ReplyStep, Abandon, RequestUnload, Shutdown, Timeout, Fallback

LEMMA EngineStep ==
  EngineIsKnown /\ ResidentTypeOK /\ [ResidentNext]_residentVars => EngineIsKnown'
<1> SUFFICES ASSUME EngineIsKnown, ResidentTypeOK, [ResidentNext]_residentVars PROVE EngineIsKnown'
  OBVIOUS
<1> USE DEF EngineIsKnown, engineVars, workerVars, callVars
<1>0. loaded \in BOOLEAN
  BY DEF ResidentTypeOK
<1>1. CASE CallerStep \/ \E c \in Calls : ReplyStep(c)
  BY <1>1, CallersLeaveTheEngine DEF Alive, ResidentTypeOK
<1>2. CASE TakeRequest
  BY <1>2, <1>0 DEF TakeRequest
<1>3. CASE TakeControl \/ Raise \/ Maintain
  BY <1>3 DEF TakeControl, Raise, Maintain, StartClose
<1>4. CASE Load \/ SkipCancelled
  BY <1>4 DEF Load, SkipCancelled, BackToQueue
<1>5. CASE Generate \/ Token
  BY <1>5 DEF Generate, Token
<1>6. CASE Finish
  BY <1>6 DEF Finish, BackToQueue
<1>7. CASE Closed
  BY <1>7 DEF Closed, BackToQueue
<1>8. CASE CloseRaises
  BY <1>8 DEF CloseRaises
<1>9. CASE TimePasses \/ UNCHANGED residentVars
  BY <1>9 DEF TimePasses, residentVars
<1>10. QED
  BY <1>1, <1>2, <1>3, <1>4, <1>5, <1>6, <1>7, <1>8, <1>9 DEF ResidentNext, WorkerStep

LEMMA VoiceStep ==
  VoicesAreKnown /\ ResidentTypeOK /\ [ResidentNext]_residentVars => VoicesAreKnown'
<1> SUFFICES ASSUME VoicesAreKnown, ResidentTypeOK, [ResidentNext]_residentVars PROVE VoicesAreKnown'
  OBVIOUS
<1> USE DEF VoicesAreKnown, Waiting, engineVars, workerVars, callVars
<1>0. /\ call \in [Calls -> {"unused", "auto", "resident", "fallback", "over"}]
      /\ sources \in [Calls -> SUBSET {"resident", "pty"}]
  BY DEF ResidentTypeOK
<1>1. ASSUME NEW c \in Inferences, NEW m \in Modes, Ask(c, m) PROVE VoicesAreKnown'
  BY <1>0, <1>1 DEF Ask
<1>2. ASSUME NEW c \in Warmups, Warm(c) PROVE VoicesAreKnown'
  BY <1>0, <1>2 DEF Warm
<1>3. ASSUME NEW c \in Calls, Abandon(c) PROVE VoicesAreKnown'
  BY <1>0, <1>3 DEF Abandon, End
<1>4. CASE RequestUnload \/ Shutdown
  BY <1>4 DEF RequestUnload, Shutdown
<1>5. ASSUME NEW c \in Calls, Receive(c) PROVE VoicesAreKnown'
  <2>1. CASE Head(events[c]) = "token"
    <3>1. call' = call /\ sources' = [sources EXCEPT ![c] = @ \cup {"resident"}]
      BY <1>5, <2>1 DEF Receive
    <3>2. Waiting(c) /\ "pty" \notin sources[c]
      BY <1>5 DEF Receive
    <3>3. "pty" \notin sources'[c]
      BY <1>0, <3>1, <3>2
    <3>4. \A d \in Calls : d # c => sources'[d] = sources[d]
      BY <1>0, <3>1
    <3>5. QED
      BY <1>0, <3>1, <3>2, <3>3, <3>4
  <2>2. CASE Head(events[c]) \in {"done", "error"}
    BY <1>0, <1>5, <2>2 DEF Receive, End, AfterFailure
  <2>3. Head(events[c]) \in {"token", "done", "error"}
    BY <1>5 DEF Receive, ResidentTypeOK
  <2>4. QED
    BY <1>5, <2>1, <2>2, <2>3
<1>6. ASSUME NEW c \in Calls, Timeout(c) PROVE VoicesAreKnown'
  BY <1>0, <1>6 DEF Timeout, End, AfterFailure
<1>7. ASSUME NEW c \in Calls, Fallback(c) PROVE VoicesAreKnown'
  BY <1>0, <1>7 DEF Fallback
<1>8. CASE WorkerStep \/ TimePasses
  <2>1. UNCHANGED <<call, sources>>
    BY <1>8 DEF WorkerStep, TakeRequest, TakeControl, Load, SkipCancelled, Generate, Token, Finish,
       Raise, Maintain, Closed, CloseRaises, TimePasses
  <2>2. QED
    BY <2>1
<1>9. CASE UNCHANGED residentVars
  BY <1>9 DEF residentVars
<1>10. QED
  BY <1>1, <1>2, <1>3, <1>4, <1>5, <1>6, <1>7, <1>8, <1>9 DEF ResidentNext, CallerStep, ReplyStep

LEMMA ServingStep ==
  ServingIsKnown /\ ResidentTypeOK /\ [ResidentNext]_residentVars => ServingIsKnown'
<1> SUFFICES ASSUME ServingIsKnown, ResidentTypeOK, [ResidentNext]_residentVars PROVE ServingIsKnown'
  OBVIOUS
<1> USE DEF ServingIsKnown, engineVars, workerVars, callVars
<1>1. CASE CallerStep \/ \E c \in Calls : ReplyStep(c)
  BY <1>1, CallersLeaveTheEngine DEF Alive
<1>2. CASE TakeRequest
  BY <1>2 DEF TakeRequest
<1>3. CASE TakeControl \/ Raise \/ Maintain
  BY <1>3 DEF TakeControl, Raise, Maintain, StartClose, Control
<1>4. CASE Load \/ SkipCancelled \/ Generate \/ Token
  BY <1>4 DEF Load, SkipCancelled, BackToQueue, Generate, Token
<1>5. CASE Finish
  BY <1>5 DEF Finish, BackToQueue
<1>6. CASE Closed
  BY <1>6 DEF Closed, BackToQueue
<1>7. CASE CloseRaises
  BY <1>7 DEF CloseRaises
<1>8. CASE TimePasses \/ UNCHANGED residentVars
  BY <1>8 DEF TimePasses, residentVars
<1>9. QED
  BY <1>1, <1>2, <1>3, <1>4, <1>5, <1>6, <1>7, <1>8 DEF ResidentNext, WorkerStep

LEMMA CallsAreNotControls ==
  /\ NoCall \notin Calls /\ "unload" \notin Calls /\ "shutdown" \notin Calls
  BY ResidentAssumption DEF Calls, NoCall

\* What is put at the end of the queue disturbs nothing before it.
LEMMA AppendKeepsPlaces ==
  ASSUME ResidentTypeOK, NEW item \in Calls \cup Control, queue' = Append(queue, item), NEW c, InQueue(c)
  PROVE  InQueue(c)'
<1>1. queue \in Seq(Calls \cup Control)
  BY DEF ResidentTypeOK
<1>2. PICK i \in 1..Len(queue) : queue[i] = c /\ \A j \in 1..(i - 1) : queue[j] # "shutdown"
  BY DEF InQueue
<1>3. Len(queue') = Len(queue) + 1 /\ \A j \in 1..Len(queue) : queue'[j] = queue[j]
  BY <1>1
<1>4. i \in 1..Len(queue') /\ queue'[i] = c /\ \A j \in 1..(i - 1) : queue'[j] # "shutdown"
  BY <1>1, <1>2, <1>3
<1>5. QED
  BY <1>4 DEF InQueue

\* Taking the head moves the others up.
LEMMA TailKeepsPlaces ==
  ASSUME ResidentTypeOK, queue # <<>>, queue' = Tail(queue), NEW c, InQueue(c), Head(queue) # c
  PROVE  InQueue(c)'
<1>1. queue \in Seq(Calls \cup Control)
  BY DEF ResidentTypeOK
<1>2. PICK i \in 1..Len(queue) : queue[i] = c /\ \A j \in 1..(i - 1) : queue[j] # "shutdown"
  BY DEF InQueue
<1>3. Len(queue') = Len(queue) - 1 /\ \A j \in 1..Len(queue') : queue'[j] = queue[j + 1]
  BY <1>1
<1>4. i # 1
  BY <1>1, <1>2
<1>5. i - 1 \in 1..Len(queue') /\ queue'[i - 1] = c
  BY <1>1, <1>2, <1>3, <1>4
<1>6. \A j \in 1..(i - 1 - 1) : queue'[j] # "shutdown"
  BY <1>1, <1>2, <1>3, <1>4
<1>7. QED
  BY <1>5, <1>6 DEF InQueue

LEMMA CancelledStep ==
  CancelledIsOver /\ ResidentTypeOK /\ [ResidentNext]_residentVars => CancelledIsOver'
<1> SUFFICES ASSUME CancelledIsOver, ResidentTypeOK, [ResidentNext]_residentVars PROVE CancelledIsOver'
  OBVIOUS
<1> USE DEF CancelledIsOver, Waiting, engineVars, workerVars, callVars
<1>0. /\ call \in [Calls -> {"unused", "auto", "resident", "fallback", "over"}]
      /\ queue \in Seq(Calls \cup Control) /\ cancelled \subseteq Calls
  BY DEF ResidentTypeOK
<1>1. ASSUME NEW c \in Calls, Enqueue(c) \/ UNCHANGED queue, shutdown' = shutdown
      PROVE  ~shutdown' => \A i \in 1..Len(queue') : queue'[i] # "shutdown"
  BY <1>0, <1>1, CallsAreNotControls DEF Enqueue
<1>2. ASSUME NEW c \in Inferences, NEW m \in Modes, Ask(c, m) PROVE CancelledIsOver'
  <2>1. c \in Calls /\ (Enqueue(c) \/ UNCHANGED queue) /\ shutdown' = shutdown
    BY <1>2 DEF Ask, Calls
  <2>2. \A d \in cancelled' : call'[d] \in {"fallback", "over"}
    BY <1>0, <1>2 DEF Ask
  <2>3. QED
    BY <1>1, <2>1, <2>2
<1>3. ASSUME NEW c \in Warmups, Warm(c) PROVE CancelledIsOver'
  <2>1. c \in Calls /\ (Enqueue(c) \/ UNCHANGED queue) /\ shutdown' = shutdown
    BY <1>3 DEF Warm, Calls
  <2>2. \A d \in cancelled' : call'[d] \in {"fallback", "over"}
    BY <1>0, <1>3 DEF Warm
  <2>3. QED
    BY <1>1, <2>1, <2>2
<1>4. ASSUME NEW c \in Calls, Abandon(c) \/ Receive(c) \/ Timeout(c) PROVE CancelledIsOver'
  <2>1. ASSUME NEW outcome \in Outcomes, End(c, outcome), UNCHANGED <<queue, shutdown>>
        PROVE  CancelledIsOver'
    BY <1>0, <2>1 DEF End, Outcomes
  <2>2. AfterFailure(c) \in Outcomes /\ "over" \in Outcomes
    BY DEF AfterFailure, Outcomes
  <2>3. CASE UNCHANGED <<call, cancelled, queue, shutdown>>
    BY <2>3
  <2>4. Receive(c) => Head(events[c]) \in {"token", "done", "error"}
    BY DEF Receive, ResidentTypeOK
  <2>5. UNCHANGED <<queue, shutdown>>
    BY <1>4 DEF Abandon, Receive, Timeout
  <2>6. UNCHANGED <<call, cancelled>> \/ \E outcome \in Outcomes : End(c, outcome)
    BY <1>4, <2>2, <2>4 DEF Abandon, Receive, Timeout
  <2>7. QED
    BY <2>1, <2>3, <2>5, <2>6
<1>5. ASSUME NEW c \in Calls, Fallback(c) PROVE CancelledIsOver'
  BY <1>0, <1>5 DEF Fallback
<1>6. CASE RequestUnload
  BY <1>0, <1>6 DEF RequestUnload
<1>7. CASE Shutdown
  BY <1>7 DEF Shutdown
<1>8. CASE TakeRequest \/ TakeControl
  <2>1. queue # <<>> /\ queue' = Tail(queue) /\ UNCHANGED <<call, cancelled, shutdown>>
    BY <1>8 DEF TakeRequest, TakeControl
  <2>2. QED
    BY <1>0, <2>1
<1>9. CASE Load \/ SkipCancelled \/ Generate \/ Token \/ Finish \/ Raise \/ Maintain \/ Closed
           \/ CloseRaises \/ TimePasses
  <2>1. UNCHANGED <<call, cancelled, queue, shutdown>>
    BY <1>9 DEF Load, SkipCancelled, Generate, Token, Finish, Raise, Maintain, Closed, CloseRaises,
       TimePasses
  <2>2. QED
    BY <2>1
<1>10. CASE UNCHANGED residentVars
  BY <1>10 DEF residentVars
<1>11. QED
  BY <1>2, <1>3, <1>4, <1>5, <1>6, <1>7, <1>8, <1>9, <1>10
     DEF ResidentNext, CallerStep, ReplyStep, WorkerStep

\* An event that the worker adds leaves the answers where they are.
LEMMA EmitKeepsAnswers ==
  ASSUME ResidentTypeOK, NEW c, NEW event \in Events, Emit(c, event), NEW d \in Calls
  PROVE  /\ Answered(d) => Answered(d)'
         /\ d = c /\ d \notin cancelled /\ event # "token" => Answered(d)'
<1>1. events \in [Calls -> Seq(Events)]
  BY DEF ResidentTypeOK, Events
<1>2. CASE c \in cancelled
  BY <1>2 DEF Answered, Emit
<1>3. CASE d # c
  <2>1. events'[d] = events[d]
    BY <1>1, <1>3 DEF Emit
  <2>2. QED
    BY <2>1, <1>3 DEF Answered
<1>4. CASE d = c /\ d \notin cancelled
  <2>1. events'[d] = Append(events[d], event)
    BY <1>1, <1>4 DEF Emit
  <2>2. /\ Len(events'[d]) = Len(events[d]) + 1 /\ Len(events[d]) \in Nat
        /\ events'[d][Len(events[d]) + 1] = event
        /\ \A i \in 1..Len(events[d]) : events'[d][i] = events[d][i]
    BY <1>1, <2>1
  <2>3. QED
    BY <1>4, <2>2 DEF Answered, Events
<1>5. QED
  BY <1>2, <1>3, <1>4 DEF Emit

LEMMA ServedStep ==
  ASSUME WaitingIsServed, ServingIsKnown, CancelledIsOver, ResidentTypeOK, [ResidentNext]_residentVars
  PROVE  WaitingIsServed'
<1> USE DEF engineVars, workerVars, callVars
<1>0. /\ call \in [Calls -> {"unused", "auto", "resident", "fallback", "over"}]
      /\ queue \in Seq(Calls \cup Control) /\ events \in [Calls -> Seq(Events)]
  BY DEF ResidentTypeOK, Events
<1>1. ASSUME NEW d \in Calls, Waiting(d) PROVE serving = d \/ InQueue(d) \/ Answered(d)
  BY <1>1 DEF WaitingIsServed
\* A call that joins the queue, or has no need to.
<1>2. ASSUME NEW c \in Calls, ~shutdown, Enqueue(c) \/ (UNCHANGED <<queue, workerVars>> /\ ~Waiting(c)'),
             \A d \in Calls : d # c => call'[d] = call[d], UNCHANGED <<events, serving>>
      PROVE  WaitingIsServed'
  <2> SUFFICES ASSUME NEW d \in Calls, Waiting(d)' PROVE (serving = d \/ InQueue(d) \/ Answered(d))'
    BY DEF WaitingIsServed
  <2>1. CASE d # c
    <3>1. serving = d \/ InQueue(d) \/ Answered(d)
      BY <1>1, <1>2, <2>1 DEF Waiting
    <3>2. InQueue(d) => InQueue(d)'
      BY <1>2, AppendKeepsPlaces DEF Enqueue, InQueue
    <3>3. Answered(d) => Answered(d)'
      BY <1>2 DEF Answered
    <3>4. QED
      BY <1>2, <3>1, <3>2, <3>3
  <2>2. CASE d = c
    <3>1. Enqueue(c)
      BY <1>2, <2>2
    <3>2. /\ Len(queue') = Len(queue) + 1 /\ Len(queue) \in Nat /\ queue'[Len(queue) + 1] = c
          /\ \A j \in 1..Len(queue) : queue'[j] = queue[j]
      BY <1>0, <3>1 DEF Enqueue
    <3>3. \A j \in 1..Len(queue) : queue'[j] # "shutdown"
      BY <1>2, <3>2 DEF CancelledIsOver
    <3>4. InQueue(d)'
      BY <2>2, <3>2, <3>3 DEF InQueue
    <3>5. QED
      BY <3>4
  <2>3. QED
    BY <2>1, <2>2
<1>3. ASSUME NEW c \in Inferences, NEW m \in Modes, Ask(c, m) PROVE WaitingIsServed'
  <2>1. c \in Calls /\ \A d \in Calls : d # c => call'[d] = call[d]
    BY <1>0, <1>3 DEF Ask, Calls
  <2>2. CASE m # "pty" /\ CanAttempt(m = "resident")
    BY <1>2, <1>3, <2>1, <2>2 DEF Ask, CanAttempt, Enqueue
  <2>3. CASE ~(m # "pty" /\ CanAttempt(m = "resident"))
    <3>1. call'[c] = "fallback" /\ UNCHANGED <<queue, workerVars, events>>
      BY <1>0, <1>3, <2>1, <2>3 DEF Ask
    <3>2. QED
      BY <1>1, <2>1, <3>1 DEF WaitingIsServed, Waiting, InQueue, Answered
  <2>4. QED
    BY <2>2, <2>3
<1>4. ASSUME NEW c \in Warmups, Warm(c) PROVE WaitingIsServed'
  <2>1. c \in Calls /\ ~shutdown /\ \A d \in Calls : d # c => call'[d] = call[d]
    BY <1>0, <1>4 DEF Warm, Calls, CanAttempt
  <2>2. Enqueue(c) \/ (UNCHANGED <<queue, workerVars>> /\ call'[c] = "over")
    BY <1>0, <1>4, <2>1 DEF Warm
  <2>3. QED
    BY <1>2, <1>4, <2>1, <2>2 DEF Warm, Enqueue, Waiting
\* A call that ends waits no more; the others are where they were.
<1>5. ASSUME NEW c \in Calls, NEW outcome \in Outcomes, End(c, outcome), UNCHANGED <<queue, serving>>
      PROVE  WaitingIsServed'
  <2> SUFFICES ASSUME NEW d \in Calls, Waiting(d)' PROVE (serving = d \/ InQueue(d) \/ Answered(d))'
    BY DEF WaitingIsServed
  <2>1. d # c
    BY <1>0, <1>5 DEF End, Waiting, Outcomes
  <2>2. call'[d] = call[d] /\ events'[d] = events[d]
    BY <1>0, <1>5, <2>1 DEF End
  <2>3. QED
    BY <1>1, <1>5, <2>2 DEF Waiting, InQueue, Answered
<1>6. ASSUME NEW c \in Calls, Abandon(c) \/ Timeout(c) PROVE WaitingIsServed'
  <2>1. AfterFailure(c) \in Outcomes /\ "over" \in Outcomes
    BY DEF AfterFailure, Outcomes
  <2>2. QED
    BY <1>5, <1>6, <2>1 DEF Abandon, Timeout
<1>7. ASSUME NEW c \in Calls, Receive(c) PROVE WaitingIsServed'
  <2>1. events[c] \in Seq(Events) /\ events[c] # <<>> /\ UNCHANGED <<queue, serving>>
    BY <1>0, <1>7 DEF Receive
  <2>2. CASE Head(events[c]) = "token"
    <3>1. call' = call /\ events' = [events EXCEPT ![c] = Tail(@)]
      BY <1>7, <2>2 DEF Receive
    <3>2. ASSUME Answered(c) PROVE Answered(c)'
      <4>1. PICK i \in 1..Len(events[c]) : events[c][i] \in {"done", "error"}
        BY <3>2 DEF Answered
      <4>2. i # 1
        BY <2>1, <2>2, <4>1
      <4>3. events'[c] = Tail(events[c])
        BY <1>0, <3>1
      <4>4. Len(events'[c]) = Len(events[c]) - 1 /\ events'[c][i - 1] = events[c][i]
        BY <2>1, <4>1, <4>2, <4>3
      <4>5. i - 1 \in 1..Len(events'[c])
        BY <2>1, <4>1, <4>2, <4>4
      <4>6. QED
        BY <4>1, <4>4, <4>5 DEF Answered
    <3>3. \A d \in Calls : Answered(d) => Answered(d)'
      BY <1>0, <3>1, <3>2 DEF Answered
    <3>4. QED
      BY <1>1, <2>1, <3>1, <3>3 DEF WaitingIsServed, Waiting, InQueue
  <2>3. CASE Head(events[c]) \in {"done", "error"}
    <3>1. AfterFailure(c) \in Outcomes /\ "over" \in Outcomes
      BY DEF AfterFailure, Outcomes
    <3>2. \E outcome \in Outcomes : End(c, outcome)
      BY <1>7, <2>3, <3>1 DEF Receive
    <3>3. QED
      BY <1>5, <2>1, <3>2
  <2>4. Head(events[c]) \in Events
    BY <2>1
  <2>5. QED
    BY <2>2, <2>3, <2>4 DEF Events
<1>8. ASSUME NEW c \in Calls, Fallback(c) PROVE WaitingIsServed'
  <2>1. UNCHANGED <<queue, serving, events>> /\ \A d \in Calls : Waiting(d)' => Waiting(d)
    BY <1>0, <1>8 DEF Fallback, Waiting
  <2>2. QED
    BY <1>1, <2>1 DEF WaitingIsServed, InQueue, Answered
<1>9. CASE RequestUnload \/ Shutdown
  <2>1. \A d \in Calls : InQueue(d) => InQueue(d)'
    <3>1. PICK item \in Control : queue' = queue \/ queue' = Append(queue, item)
      BY <1>9 DEF RequestUnload, Shutdown, Control
    <3>2. CASE queue' = queue
      BY <3>2 DEF InQueue
    <3>3. CASE queue' = Append(queue, item)
      BY <3>3, AppendKeepsPlaces
    <3>4. QED
      BY <3>1, <3>2, <3>3
  <2>2. UNCHANGED <<call, events, serving>>
    BY <1>9 DEF RequestUnload, Shutdown
  <2>3. QED
    BY <1>1, <2>1, <2>2 DEF WaitingIsServed, Waiting, Answered
<1>10. CASE TakeRequest \/ TakeControl
  <2>1. /\ queue # <<>> /\ queue' = Tail(queue) /\ UNCHANGED <<call, events>>
        /\ worker = "waiting"
    BY <1>10 DEF TakeRequest, TakeControl
  <2>2. serving = NoCall
    BY <2>1 DEF ServingIsKnown
  <2>3. ASSUME NEW d \in Calls, InQueue(d) PROVE serving' = d \/ InQueue(d)'
    <3>1. CASE Head(queue) = d
      BY <1>10, <3>1, CallsAreNotControls DEF TakeRequest, TakeControl, Control
    <3>2. CASE Head(queue) # d
      BY <2>1, <2>3, <3>2, TailKeepsPlaces
    <3>3. QED
      BY <3>1, <3>2
  <2>4. QED
    BY <1>1, <2>1, <2>2, <2>3, CallsAreNotControls DEF WaitingIsServed, Waiting, Answered
<1>11. CASE Load \/ Generate \/ Raise \/ Maintain \/ TimePasses \/ UNCHANGED residentVars
  <2>1. UNCHANGED <<call, events, queue, serving>>
    BY <1>11 DEF Load, Generate, Raise, Maintain, TimePasses, residentVars
  <2>2. QED
    BY <1>1, <2>1 DEF WaitingIsServed, Waiting, InQueue, Answered
<1>12. CASE SkipCancelled
  <2>1. UNCHANGED <<call, events, queue>> /\ serving \in cancelled
    BY <1>12 DEF SkipCancelled
  <2>2. \A d \in Calls : Waiting(d) => serving # d
    BY <2>1 DEF CancelledIsOver, Waiting
  <2>3. QED
    BY <1>1, <2>1, <2>2 DEF WaitingIsServed, Waiting, InQueue, Answered
\* The worker answers the call that it serves.
<1>13. ASSUME NEW event \in Events, Emit(serving, event), UNCHANGED <<call, queue>>,
              serving' = serving \/ event # "token"
       PROVE  WaitingIsServed'
  <2> SUFFICES ASSUME NEW d \in Calls, Waiting(d)' PROVE (serving = d \/ InQueue(d) \/ Answered(d))'
    BY DEF WaitingIsServed
  <2>1. Waiting(d)
    BY <1>13 DEF Waiting
  <2>2. d \notin cancelled
    BY <2>1 DEF CancelledIsOver, Waiting
  <2>3. /\ Answered(d) => Answered(d)'
        /\ d = serving /\ event # "token" => Answered(d)'
    BY <1>13, <2>2, EmitKeepsAnswers
  <2>4. InQueue(d) => InQueue(d)'
    BY <1>13 DEF InQueue
  <2>5. QED
    BY <1>1, <1>13, <2>1, <2>3, <2>4
<1>14. CASE Token
  BY <1>13, <1>14 DEF Token, Events
<1>15. CASE Finish
  BY <1>13, <1>15 DEF Finish, Events
<1>16. CASE Closed
  <2>1. CASE reason = "error"
    BY <1>13, <1>16, <2>1 DEF Closed, Events
  <2>2. CASE reason # "error"
    <3>1. UNCHANGED <<call, events, queue>> /\ serving = NoCall
      BY <1>16, <2>2 DEF Closed, ServingIsKnown
    <3>2. QED
      BY <1>1, <3>1, CallsAreNotControls DEF WaitingIsServed, Waiting, InQueue, Answered
  <2>3. QED
    BY <2>1, <2>2
<1>17. CASE CloseRaises
  <2>1. UNCHANGED <<call, events, queue, serving>>
    BY <1>17 DEF CloseRaises
  <2>2. QED
    BY <1>1, <2>1 DEF WaitingIsServed, Waiting, InQueue, Answered
<1>18. QED
  BY <1>3, <1>4, <1>6, <1>7, <1>8, <1>9, <1>10, <1>11, <1>12, <1>14, <1>15, <1>16, <1>17
     DEF ResidentNext, CallerStep, ReplyStep, WorkerStep

LEMMA ResidentStepInv == ResidentIInv /\ [ResidentNext]_residentVars => ResidentIInv'
  BY ResidentTypeStep, EngineStep, VoiceStep, ServingStep, CancelledStep, ServedStep DEF ResidentIInv

\* The variables have their types.
THEOREM ResidentTypes == ResidentSpec => []ResidentTypeOK
<1>1. ResidentIInv => ResidentTypeOK
  BY DEF ResidentIInv
<1>2. QED
  BY ResidentInitInv, ResidentStepInv, <1>1, PTL DEF ResidentSpec

\* When the worker waits, the telemetry's status is true, whatever failed before.
THEOREM StateIsTrueWhenWaiting == ResidentSpec => []WaitingStateIsTrue
<1>1. ResidentIInv => WaitingStateIsTrue
  BY DEF ResidentIInv, ResidentTypeOK, EngineIsKnown, WaitingStateIsTrue
<1>2. QED
  BY ResidentInitInv, ResidentStepInv, <1>1, PTL DEF ResidentSpec

\* No answer joins the text of two backends, for any number of concurrent and late calls.
THEOREM AnswersHaveOneVoice == ResidentSpec => []OneVoice
<1>1. ResidentIInv => OneVoice
  BY DEF ResidentIInv, VoicesAreKnown, OneVoice
<1>2. QED
  BY ResidentInitInv, ResidentStepInv, <1>1, PTL DEF ResidentSpec

\* A call that waits without an event is queued before any shutdown or in the worker's hands.
THEOREM CallsAreNotForgotten == ResidentSpec => []NoCallIsForgotten
<1>1. ResidentIInv => NoCallIsForgotten
  <2> SUFFICES ASSUME ResidentIInv, NEW c \in Calls, Waiting(c), events[c] = <<>>
               PROVE  serving = c \/ InQueue(c)
    BY DEF NoCallIsForgotten, InQueue
  <2>1. ~Answered(c)
    BY DEF Answered
  <2>2. QED
    BY <2>1 DEF ResidentIInv, WaitingIsServed
<1>2. QED
  BY ResidentInitInv, ResidentStepInv, <1>1, PTL DEF ResidentSpec
=============================================================================
