------------------------------- MODULE MCChat -------------------------------
(* An instance of ChatTurn for TLC. *)
EXTENDS ChatTurn

CONSTANTS preference, worldFact, v1, v2

MCItem(key, value, explicit) ==
  [key |-> key, value |-> value, explicit |-> explicit, sensitive |-> FALSE, sourced |-> TRUE]

MCPayloads ==
  {<<>>, <<MCItem(preference, v1, TRUE)>>,
   <<MCItem(preference, v2, TRUE), MCItem(preference, v1, TRUE)>>,
   <<MCItem(worldFact, v1, FALSE), MCItem(preference, v2, FALSE)>>}

\* An answer that passes every check, one that fails each, a late citation and a failed stream.
MCTexts ==
  {[length |-> 2, cites |-> 1, numbers |-> TRUE, fact |-> TRUE],
   [length |-> 2, cites |-> 2, numbers |-> TRUE, fact |-> TRUE],
   [length |-> 2, cites |-> 0, numbers |-> TRUE, fact |-> TRUE],
   [length |-> 2, cites |-> 1, numbers |-> FALSE, fact |-> TRUE],
   [length |-> 2, cites |-> 1, numbers |-> TRUE, fact |-> FALSE],
   [length |-> 1, cites |-> 0, numbers |-> FALSE, fact |-> FALSE],
   [length |-> 0, cites |-> 0, numbers |-> FALSE, fact |-> FALSE]}

MCDrafts ==
  {[by |-> "model", length |-> t.length, cites |-> t.cites, numbers |-> t.numbers,
    fact |-> t.fact, hidden |-> p] : t \in MCTexts, p \in MCPayloads}

MCQueries ==
  {q \in QueryKinds : q.exact => q.grounding # "none"}
=============================================================================
