------------------------------ MODULE ChatTurn ------------------------------
(***************************************************************************)
(* One conversational turn of llm_controller.py (stream_inference without  *)
(* the workspace): the question is stored, evidence is retrieved, a draft  *)
(* is streamed or held back, checked and repaired, the answer is shown and *)
(* stored, and what its hidden block proposes is remembered.  Between      *)
(* turns the user's commands change the store.  The process may end at any *)
(* step; every step is at most one transaction.                            *)
(*                                                                         *)
(* A draft is two chunks of text and a hidden payload.  Of its text the    *)
(* model keeps what the checks look at: where it cites a source, whether   *)
(* the user's numbers are intact, whether it states the verified fact.     *)
(***************************************************************************)
EXTENDS MemoryStore

CONSTANTS
  Queries,    \* the questions, a subset of QueryKinds
  Drafts,     \* what the model may generate, a subset of DraftKinds
  MaxTurns,   \* turns (bounds TLC)
  MaxCommands \* commands between turns, and clock steps (bounds TLC)

\* strict: the numbers are strict; exact: an exact claim; grounding: should_ground, on its own
\* or forced by the user.
QueryKinds == [strict : BOOLEAN, exact : BOOLEAN, grounding : {"none", "auto", "forced"}]

\* length: chunks, fewer than 2 after a failure; cites: the first chunk that cites, 0 for none.
DraftKinds == [by : {"model"}, length : 0..2, cites : 0..2, numbers : BOOLEAN, fact : BOOLEAN,
               hidden : Seq(Items)]

ASSUME ChatAssumption ==
  /\ Queries \subseteq QueryKinds
  /\ \A d \in Drafts : d \in DraftKinds /\ d.cites \in 0..d.length
  /\ MaxTurns \in Nat /\ MaxCommands \in Nat

VARIABLES
  pc,       \* what the turn does next
  query,    \* the question
  asked,    \* its message's id
  evidence, \* web_data: "none", "found", or "exact" if it verifies a fact
  visible,  \* the draft whose text is the answer so far
  hidden,   \* the items still to be remembered
  shown,    \* the chunks on the screen, with their drafts
  opening,  \* a session that was inserted and is not yet active
  turns, commands

turnVars == <<query, asked, evidence, visible, hidden, shown>>
boundVars == <<turns, commands>>
chatVars == <<storeVars, pc, turnVars, opening, boundVars>>

NoQuery == [strict |-> FALSE, exact |-> FALSE, grounding |-> "none"]
NoDraft == [by |-> "none", length |-> 0, cites |-> 0, numbers |-> FALSE, fact |-> FALSE,
            hidden |-> <<>>]

\* The controller's own answers: safe_fallback and _verified_fact_fallback.
SafeFallback == [by |-> "numeric_guard", length |-> 1, cites |-> 0, numbers |-> TRUE, fact |-> FALSE,
                 hidden |-> <<>>]
FactFallback == [by |-> "fact_guard", length |-> 1, cites |-> 1, numbers |-> FALSE, fact |-> TRUE,
                 hidden |-> <<>>]

Reset ==
  /\ query' = NoQuery /\ asked' = 0 /\ evidence' = "none"
  /\ visible' = NoDraft /\ hidden' = <<>> /\ shown' = <<>>

ChatInit ==
  /\ MemoryInit
  /\ pc = "idle" /\ opening = 0
  /\ query = NoQuery /\ asked = 0 /\ evidence = "none"
  /\ visible = NoDraft /\ hidden = <<>> /\ shown = <<>>
  /\ turns = 0 /\ commands = 0

-----------------------------------------------------------------------------
(* The checks.                                                             *)

NumbersHold(draft) == draft.length > 0 /\ draft.numbers

\* _grounded_answer_is_valid, with the verified fact if there is one.
Grounded(draft) == draft.cites > 0 /\ (evidence = "exact" => draft.fact)

HoldOutput == query.strict \/ evidence # "none"

\* Mutant: a fact does not hold the answer back.
Releases_EvenAFact(draft, chunks) ==
  ~query.strict /\ evidence # "none" /\ draft.cites \in 1..chunks

\* Streaming goes on to the screen once the text so far cites a source, if nothing else
\* is to be checked.
Releases(draft, chunks) ==
  ~query.strict /\ evidence = "found" /\ draft.cites \in 1..chunks

\* The first n chunks of a draft.
Chunks(draft, n) ==
  [i \in 1..(IF n < draft.length THEN n ELSE draft.length) |-> [draft |-> draft, chunk |-> i]]

Text(draft) == Chunks(draft, draft.length)

-----------------------------------------------------------------------------
(* The turn.                                                               *)

\* The event loop stays in the turn, or in a command, until it is over.
Idle == pc = "idle" /\ opening = 0

Ask(q) ==
  /\ Idle /\ turns < MaxTurns
  /\ turns' = turns + 1
  /\ query' = q
  /\ pc' = "session"
  /\ UNCHANGED <<storeVars, asked, evidence, visible, hidden, shown, opening, commands>>

\* get_active_session makes a session when there is none.
EnsureSession ==
  /\ pc = "session" /\ opening = 0
  /\ activeSession = 0
  /\ InsertSession
  /\ opening' = sessions + 1
  /\ UNCHANGED <<memoryVars, messages, pc, turnVars, boundVars>>

PointAtSession ==
  /\ opening # 0
  /\ SetActive(opening)
  /\ opening' = 0
  /\ UNCHANGED <<memoryVars, messages, pc, turnVars, boundVars>>

StoreQuestion ==
  /\ pc = "session" /\ opening = 0
  /\ activeSession # 0
  /\ AppendMessage([session |-> activeSession, role |-> "user"])
  /\ asked' = Len(messages) + 1
  /\ pc' = "grounding"
  /\ UNCHANGED <<memoryVars, sessionVars, query, evidence, visible, hidden, shown,
                 opening, boundVars>>

\* Without evidence such a question is refused.
MustBeGrounded == query.grounding # "none" /\ (query.grounding = "forced" \/ query.exact)

\* _ground and extract_verified_fact: evidence, with or without the fact, or none.
Ground(found) ==
  /\ pc = "grounding"
  /\ found \in IF query.grounding = "none" THEN {"none"}
               ELSE IF query.exact THEN {"none", "found", "exact"} ELSE {"none", "found"}
  /\ evidence' = found
  /\ pc' = IF found = "none" /\ MustBeGrounded THEN "refusing" ELSE "drafting"
  /\ UNCHANGED <<storeVars, query, asked, visible, hidden, shown, opening, boundVars>>

\* The grounding guard's notice ends the turn.
Refuse ==
  /\ pc = "refusing"
  /\ AppendMessage([session |-> activeSession, role |-> "system"])
  /\ pc' = "idle" /\ Reset
  /\ UNCHANGED <<memoryVars, sessionVars, opening, boundVars>>

\* The first tokens.
Draft(d) ==
  /\ pc = "drafting"
  /\ visible' = d /\ hidden' = d.hidden
  /\ shown' = IF ~HoldOutput \/ Releases(d, 1) THEN Chunks(d, 1) ELSE <<>>
  /\ pc' = "streaming"
  /\ UNCHANGED <<storeVars, query, asked, evidence, opening, boundVars>>

\* Mutant: once released, a chunk is taken from the buffer again.
Stream_Twice ==
  /\ pc = "streaming"
  /\ shown' = IF ~HoldOutput \/ Releases(visible, 2) THEN shown \o Text(visible) ELSE shown
  /\ pc' = "checking"
  /\ UNCHANGED <<storeVars, query, asked, evidence, visible, hidden, opening, boundVars>>

\* The rest of them; a release shows what has been held back.
Stream ==
  /\ pc = "streaming"
  /\ shown' = IF ~HoldOutput \/ Releases(visible, 2) THEN Text(visible) ELSE shown
  /\ pc' = "checking"
  /\ UNCHANGED <<storeVars, query, asked, evidence, visible, hidden, opening, boundVars>>

\* Mutant: the rejected draft's memories are kept beside the guard's answer.
RepairNumbers_KeepsHidden(d) ==
  /\ pc = "checking" /\ query.strict /\ ~NumbersHold(visible)
  /\ visible' = IF NumbersHold(d) THEN d ELSE SafeFallback
  /\ hidden' = IF NumbersHold(d) THEN d.hidden ELSE hidden
  /\ pc' = "facts"
  /\ UNCHANGED <<storeVars, query, asked, evidence, shown, opening, boundVars>>

RepairNumbers(d) ==
  /\ pc = "checking" /\ query.strict /\ ~NumbersHold(visible)
  /\ visible' = IF NumbersHold(d) THEN d ELSE SafeFallback
  /\ hidden' = IF NumbersHold(d) THEN d.hidden ELSE <<>>
  /\ pc' = "facts"
  /\ UNCHANGED <<storeVars, query, asked, evidence, shown, opening, boundVars>>

NumbersPass ==
  /\ pc = "checking"
  /\ query.strict => NumbersHold(visible)
  /\ pc' = "facts"
  /\ UNCHANGED <<storeVars, turnVars, opening, boundVars>>

\* The repaired draft is checked for the fact, and not for the numbers again.
RepairFact(d) ==
  /\ pc = "facts" /\ evidence = "exact" /\ ~Grounded(visible)
  /\ visible' = IF Grounded(d) THEN d ELSE FactFallback
  /\ hidden' = IF Grounded(d) THEN d.hidden ELSE <<>>
  /\ pc' = "verifying"
  /\ UNCHANGED <<storeVars, query, asked, evidence, shown, opening, boundVars>>

FactHolds ==
  /\ pc = "facts"
  /\ evidence = "exact" => Grounded(visible)
  /\ pc' = "verifying"
  /\ UNCHANGED <<storeVars, turnVars, opening, boundVars>>

\* A held answer without a source is refused, any other is shown.
Verify ==
  /\ pc = "verifying"
  /\ LET held == HoldOutput /\ shown = <<>>
         rejected == held /\ evidence # "none" /\ ~Grounded(visible)
     IN  /\ shown' = IF held /\ ~rejected THEN Text(visible) ELSE shown
         /\ pc' = IF rejected THEN "refusing" ELSE "showing"
  /\ UNCHANGED <<storeVars, query, asked, evidence, visible, hidden, opening, boundVars>>

StoreAnswer ==
  /\ pc = "showing"
  /\ IF visible.length > 0
       THEN AppendMessage([session |-> activeSession, role |-> "assistant"])
       ELSE UNCHANGED messages
  /\ pc' = "remembering"
  /\ UNCHANGED <<memoryVars, sessionVars, turnVars, opening, boundVars>>

\* apply_memory_payload, one item after another.
Remember ==
  /\ pc = "remembering" /\ hidden # <<>>
  /\ IF Acceptable(Head(hidden), evidence # "none")
       THEN Upsert(Head(hidden), asked)
       ELSE UNCHANGED memoryVars
  /\ hidden' = Tail(hidden)
  /\ UNCHANGED <<messages, sessionVars, pc, query, asked, evidence, visible, shown,
                 opening, boundVars>>

EndTurn ==
  /\ pc = "remembering" /\ hidden = <<>>
  /\ pc' = "idle" /\ Reset
  /\ UNCHANGED <<storeVars, opening, boundVars>>

TurnStep ==
  \/ EnsureSession \/ PointAtSession \/ StoreQuestion
  \/ \E found \in {"none", "found", "exact"} : Ground(found)
  \/ Refuse
  \/ \E d \in Drafts : Draft(d) \/ RepairNumbers(d) \/ RepairFact(d)
  \/ Stream \/ NumbersPass \/ FactHolds \/ Verify \/ StoreAnswer \/ Remember \/ EndTurn
-----------------------------------------------------------------------------
(* Between turns, and at any time.                                         *)

Command ==
  /\ Idle /\ commands < MaxCommands
  /\ commands' = commands + 1
  /\ UNCHANGED <<messages, pc, turnVars, turns>>

\* /memory forget and purge.
ForgetMemory ==
  /\ Command
  /\ \E id \in Ids : Forget(id) \/ Purge(id)
  /\ UNCHANGED <<sessionVars, opening>>

\* /new, which EnsureSession's second step completes.
NewSession ==
  /\ Command
  /\ InsertSession
  /\ opening' = sessions + 1
  /\ UNCHANGED memoryVars

\* Mutant: the session's existence is not looked up.
SwitchSession_Unchecked ==
  /\ Command
  /\ \E session \in 1..(MaxTurns + MaxCommands) : SetActive(session)
  /\ UNCHANGED <<memoryVars, opening>>

\* /session.
SwitchSession ==
  /\ Command
  /\ \E session \in 1..sessions : SetActive(session)
  /\ UNCHANGED <<memoryVars, opening>>

FactExpires ==
  /\ \E id \in Ids : Expire(id)
  /\ UNCHANGED <<messages, sessionVars, pc, turnVars, opening, boundVars>>

\* The store survives the process.
Crash ==
  /\ ~Idle
  /\ pc' = "idle" /\ opening' = 0 /\ Reset
  /\ UNCHANGED <<storeVars, boundVars>>

ChatNext ==
  \/ \E q \in Queries : Ask(q)
  \/ TurnStep
  \/ ForgetMemory \/ NewSession \/ SwitchSession
  \/ FactExpires
  \/ Crash

ChatSpec == ChatInit /\ [][ChatNext]_chatVars

-----------------------------------------------------------------------------

\* The variables have their types; the active session exists, wherever its creation stopped.
ChatTypeOK ==
  /\ memories \in Seq(Rows \cup {NoRow})
  /\ revisions \subseteq [memory : Ids, old : Values]
  /\ messages \in Seq([session : 1..sessions, role : {"user", "assistant", "system"}])
  /\ activeSession \in 0..sessions /\ opening \in 0..sessions
  /\ asked \in 0..Len(messages)
  /\ pc \in {"idle", "session", "grounding", "refusing", "drafting", "streaming", "checking",
             "facts", "verifying", "showing", "remembering"}
  /\ evidence \in {"none", "found", "exact"}
  /\ hidden \in Seq(Items)

\* A key has one active memory, whatever is learned, forgotten and purged in which order.
OneActivePerKey ==
  \A i, j \in Ids :
    memories[i].active /\ memories[j].active /\ memories[i].key = memories[j].key => i = j

\* What is on the screen, even for a moment, has passed the checks: with evidence it begins with
\* a text that cites it and states the verified fact, and the user's numbers are in it, unless
\* the answer was repaired for the fact after its numbers had been checked.
ShownIsVerified ==
  shown # <<>> =>
    /\ evidence # "none" => \E i \in 1..Len(shown) : shown[i].chunk = shown[i].draft.cites
    /\ evidence = "exact" => \A i \in 1..Len(shown) : shown[i].draft.fact
    /\ query.strict /\ evidence # "exact" => \A i \in 1..Len(shown) : shown[i].draft.numbers

\* A stored answer is what the user has seen, once, in order and in full, held back or not.
ShownIsStored ==
  pc = "remembering" =>
    IF visible.length > 0
      THEN shown = Text(visible) /\ messages[Len(messages)].role = "assistant"
      ELSE shown = <<>>

\* Only the answer that was shown is remembered: a draft that was rejected, repaired or
\* replaced by a guard's text leaves none of its proposals behind.
OnlyShownIsRemembered ==
  pc = "remembering" =>
    \E n \in 0..Len(visible.hidden) : hidden = SubSeq(visible.hidden, n + 1, Len(visible.hidden))

\* A conflict preserves the previous revision: a turn deletes and rewrites no memory, and what it
\* retires is named by its successor and kept as a revision.  Nothing forgotten comes back.
HistoryIsKept ==
  [][\A i \in Ids :
       /\ i \in Ids' => /\ memories'[i].key = memories[i].key
                        /\ memories'[i].value = memories[i].value
                        /\ memories'[i].active => memories[i].active
       /\ pc # "idle" => i \in Ids'
       /\ pc # "idle" /\ memories[i].active /\ ~memories'[i].active =>
            \E j \in Ids' \ Ids :
              /\ memories'[j].active /\ memories'[j].supersedes = i
              /\ [memory |-> j, old |-> memories[i].value] \in revisions']_chatVars

\* What a turn remembers can be recalled afterwards.  (A fact that is learned again after it
\* expired keeps its old date, and stays out of sight.)
LearnedIsRecalled ==
  [][pc = "remembering" /\ pc' = pc /\ hidden # hidden'
       /\ Acceptable(Head(hidden), evidence # "none")
       /\ (\A i \in Existing(Head(hidden).key) :
             memories[i].value = Head(hidden).value => memories[i].expiry # "past")
     => \E i \in Recalled(TRUE)' :
          memories'[i].key = Head(hidden).key /\ memories'[i].value = Head(hidden).value]_chatVars
=============================================================================
