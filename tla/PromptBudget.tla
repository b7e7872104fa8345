---------------------------- MODULE PromptBudget ----------------------------
(***************************************************************************)
(* build_prompt of prompt_builder.py: the blocks of a prompt are cut to    *)
(* their own limits and then, while their sum is over the input limit, one *)
(* optional block after the other is cut down or emptied; at last, if the  *)
(* assembled text is still too long, the user's message is cut.            *)
(*                                                                         *)
(* A block is its length in characters.  Token estimates and truncation    *)
(* are computed as the code computes them, 3.2 characters to a token and   *)
(* 3.05 characters kept for a token that may stay.                         *)
(***************************************************************************)
EXTENDS Integers, Sequences, FiniteSets, SequencesExt

CONSTANTS
  Requests, \* what a prompt is made of: texts, as lengths in characters
  Limits    \* input_limit

VARIABLES
  promptPc, \* "evict", "assemble", "done", or "none" before a prompt is asked for
  request,  \* what it is made of
  limit,    \* input_limit
  start,    \* the blocks before any eviction
  block     \* the blocks

promptVars == <<promptPc, request, limit, start, block>>

LargerOf(a, b) == IF a >= b THEN a ELSE b
LesserOf(a, b) == IF a <= b THEN a ELSE b

\* Rounded up, as math.ceil(length / 3.2).
EstimateTokens(chars) == (10 * chars + 31) \div 32

\* The length of what _truncate leaves of a text.
Truncate(chars, tokens) ==
  IF tokens <= 0 THEN 0
  ELSE IF EstimateTokens(chars) <= tokens THEN chars
       ELSE LargerOf(64, (305 * tokens) \div 100)

BlockNames ==
  <<"identity", "session", "recent", "recall", "second_brain", "grounding_contract", "web",
    "tools", "mission", "continuation", "response_contract", "numeric_integrity", "protocol",
    "current", "cue">>
Names == {BlockNames[i] : i \in DOMAIN BlockNames}

\* evict_order; a block of order 0 is mandatory.
EvictOrder ==
  [n \in Names |->
     CASE n \in {"recall", "second_brain"} -> 6
       [] n = "session" -> 5
       [] n = "recent" -> 4
       [] n = "web" -> 3
       [] n \in {"tools", "mission", "continuation"} -> 2
       [] n = "identity" -> 1
       [] OTHER -> 0]

\* min_tokens of the optional blocks.
MinTokens(lookup) ==
  [identity |-> IF lookup THEN 260 ELSE 300, session |-> IF lookup THEN 0 ELSE 120,
   recent |-> IF lookup THEN 80 ELSE 450, recall |-> 0, second_brain |-> 0, web |-> 220,
   tools |-> 260, mission |-> 240, continuation |-> 100]

Optional == DOMAIN MinTokens(TRUE)

\* _format_recent: from the newest message back, each one that still fits; the newest is cut to
\* the budget if it does not.  Two characters separate messages, 22 are the heading.
TakeMessage(budget, taken, message) ==
  LET cost == EstimateTokens(message) + 3
      kept == IF cost > budget THEN Truncate(message, budget) ELSE message
  IN  IF \/ taken.count > 0 /\ taken.used + cost > budget
         \/ taken.used >= budget
      THEN taken
      ELSE [count |-> taken.count + 1, chars |-> taken.chars + kept + 2,
            used |-> taken.used + IF cost > budget THEN EstimateTokens(kept) ELSE cost]

FormatRecent(messages, budget) ==
  LET taken == FoldLeft(LAMBDA t, m : TakeMessage(budget, t, m),
                        [count |-> 0, chars |-> 0, used |-> 0], Reverse(messages))
  IN  IF taken.count = 0 THEN 0 ELSE taken.chars - 2 + 22

\* A block is empty when what it holds is; its heading counts otherwise.
Headed(chars, heading) == IF chars = 0 THEN 0 ELSE chars + heading

Blocks(r) ==
  [identity |-> Truncate(r.identity, IF r.lookup THEN 360 ELSE 500),
   session |-> IF r.lookup THEN 0 ELSE Truncate(r.session, 480),
   recent |-> FormatRecent(r.messages, IF r.lookup THEN 220 ELSE 1800),
   recall |-> IF r.lookup THEN 0 ELSE r.recall,
   second_brain |-> IF r.lookup THEN 0 ELSE r.second_brain,
   grounding_contract |-> IF r.web = 0 THEN 0 ELSE r.contract,
   web |-> Headed(Truncate(r.web, IF r.lookup THEN 620 ELSE 900), 32),
   tools |-> Headed(Truncate(r.tools, 620), 17),
   mission |-> Truncate(r.mission, 900),
   continuation |-> Headed(Truncate(r.continuation, 400), 21),
   response_contract |-> Truncate(r.response, IF r.lookup THEN 520 ELSE 320),
   numeric_integrity |-> Truncate(r.numeric, 620),
   protocol |-> IF r.lookup THEN 0 ELSE r.protocol,
   current |-> Truncate(r.user, 1700) + 29,
   cue |-> 10]

\* What the texts of a prompt are made of is as long as it is.
ASSUME PromptAssumption ==
  /\ Limits \subseteq Nat
  /\ \A r \in Requests :
       /\ r.lookup \in BOOLEAN
       /\ {r.identity, r.session, r.recall, r.second_brain, r.web, r.contract, r.tools, r.mission,
           r.continuation, r.response, r.numeric, r.protocol, r.user} \subseteq Nat
       /\ \A budget \in {220, 1800} : FormatRecent(r.messages, budget) \in Nat

PromptInit ==
  /\ promptPc = "none" /\ limit = 0
  /\ request \in Requests
  /\ start = [n \in Names |-> 0] /\ block = start

\* A prompt is asked for; the limit that its response mode and the engine's context leave it.
Compose(l) ==
  /\ promptPc = "none"
  /\ promptPc' = "evict"
  /\ limit' = l
  /\ start' = Blocks(request) /\ block' = start'
  /\ UNCHANGED request

\* Over the blocks, in their order.
SumOf(size) ==
  size.identity + size.session + size.recent + size.recall + size.second_brain
  + size.grounding_contract + size.web + size.tools + size.mission + size.continuation
  + size.response_contract + size.numeric_integrity + size.protocol + size.current + size.cue

TokensOf(n) == EstimateTokens(block[n])
SumOfTokens == SumOf([n \in Names |-> TokensOf(n)])

Minimum(n) == MinTokens(request.lookup)[n]

Candidates == {n \in Optional : block[n] > 0 /\ TokensOf(n) > Minimum(n)}

\* Mutant: the largest block goes first.
GoesBefore_Largest(n, m) ==
  \/ TokensOf(n) > TokensOf(m)
  \/ TokensOf(n) = TokensOf(m) /\ EvictOrder[n] >= EvictOrder[m]

\* Whether n is evicted before m.
GoesBefore(n, m) ==
  \/ EvictOrder[n] > EvictOrder[m]
  \/ EvictOrder[n] = EvictOrder[m] /\ TokensOf(n) >= TokensOf(m)

\* max() takes the first of equals, in the order of the blocks.
Target ==
  LET best == {n \in Candidates : \A m \in Candidates : GoesBefore(n, m)}
  IN  BlockNames[CHOOSE i \in DOMAIN BlockNames :
                   BlockNames[i] \in best /\ \A j \in 1..i - 1 : BlockNames[j] \notin best]

\* Mutant: the minimum bounds the choice of a block and not what is left of it.
NewLimit_NoMinimum(n) == TokensOf(n) - LargerOf(SumOfTokens - limit + 24, TokensOf(n) \div 4)

NewLimit(n) ==
  LET overflow == SumOfTokens - limit
  IN  LargerOf(Minimum(n), TokensOf(n) - LargerOf(overflow + 24, TokensOf(n) \div 4))

Evict ==
  /\ promptPc = "evict" /\ SumOfTokens > limit /\ Candidates # {}
  /\ block' = [block EXCEPT ![Target] = Truncate(@, NewLimit(Target))]
  /\ UNCHANGED <<promptPc, request, limit, start>>

StopEvicting ==
  /\ promptPc = "evict" /\ (SumOfTokens <= limit \/ Candidates = {})
  /\ promptPc' = "assemble"
  /\ UNCHANGED <<request, limit, start, block>>

\* The blocks that are not empty, two characters between them.
Filled == {n \in Names : block[n] > 0}
Separators == 2 * (Cardinality(Filled) - 1)
AssembledTokens == EstimateTokens(SumOf(block) + Separators)

Assemble ==
  /\ promptPc = "assemble"
  /\ block' = IF AssembledTokens <= limit THEN block
              ELSE [block EXCEPT !["current"] =
                      Truncate(@, LargerOf(300, TokensOf("current")
                                                - (AssembledTokens - limit) - 32))]
  /\ promptPc' = "done"
  /\ UNCHANGED <<request, limit, start>>

PromptNext == (\E l \in Limits : Compose(l)) \/ Evict \/ StopEvicting \/ Assemble

PromptSpec == PromptInit /\ [][PromptNext]_promptVars

(***************************************************************************)
(* Properties                                                              *)
(***************************************************************************)
\* A block is cut only when every block that goes before it in the order of the code is down to its
\* minimum: neither the size of a block nor the steps in which it shrinks change the order, which
\* docs/ARCHITECTURE.md:69 calls deterministic (prompt_builder.py:299-308).  The order is not that
\* of docs/MEMORY.md:90, "Older dialogue is compacted first": recollections, typed events and the
\* session's checkpoint all go before the recent messages.
EvictionOrder ==
  \A n, m \in Optional :
    block[n] < start[n] /\ EvictOrder[m] > EvictOrder[n] => TokensOf(m) <= Minimum(m)

\* What is left of a block that may only be cut so far: a mandatory block but the user's message
\* is not cut at all, that message keeps the length of 300 tokens.
Floor(n) ==
  IF n = "current" THEN LesserOf(start[n], Truncate(start[n], 300))
  ELSE IF n \in Optional THEN LesserOf(start[n], Truncate(start[n], Minimum(n)))
  ELSE start[n]

\* A finished prompt is within its limit, but for the separators that the eviction loop does not
\* count, or every optional block of it is at its minimum; and nothing that the answer depends on,
\* the evidence and its contract, the numeric ledger, the message, was cut below what is kept of
\* it (prompt_builder.py:299-317).
PromptFits ==
  /\ promptPc = "done" =>
       \/ AssembledTokens <= limit + EstimateTokens(Separators)
       \/ Candidates = {}
  /\ \A n \in Names : block[n] >= Floor(n)

\* The user's message is cut only when no optional block can be cut any more, or when the separators
\* alone are too much.  This is less than what docs/ARCHITECTURE.md:69 says, "Mandatory user text
\* [...] survive[s] before optional old dialogue", and the comment at prompt_builder.py:314, "Only
\* mandatory material remains": the message then goes down to 300 tokens while recent messages, the
\* checkpoint and the identity keep their minima.
MessageGoesLast ==
  block["current"] < start["current"] => Candidates = {} \/ SumOfTokens <= limit

\* Compaction keeps its promises at once, in every step: what goes first, and what stays.
CompactionIsSound == EvictionOrder /\ PromptFits /\ MessageGoesLast
=============================================================================
