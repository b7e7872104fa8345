----------------------------- MODULE MemoryStore -----------------------------
(***************************************************************************)
(* memory_store.py, and what memory_protocol.py lets a hidden payload write *)
(* into it for a conversation: versioned memories with their revisions,     *)
(* sessions and messages.  Each operator is one SQLite transaction.        *)
(*                                                                         *)
(* A memory's kind and key are one Key, a value stands for its normalized  *)
(* text.  Confidence, salience, pins and provenance order or explain what  *)
(* is recalled and are left out.                                           *)
(***************************************************************************)
EXTENDS Naturals, FiniteSets, Sequences

CONSTANTS
  Keys,          \* kind and memory_key
  HardKeys,      \* those of kind world_fact or hard_fact
  PersonalKeys,  \* those of PERSONAL_KINDS
  Values

ASSUME MemoryAssumption == HardKeys \cup PersonalKeys \subseteq Keys

VARIABLES
  memories,       \* the rows by id; a purged row is NoRow
  revisions,      \* memory_revisions
  messages,       \* the rows by id
  sessions,       \* number of sessions, numbered from 1
  activeSession   \* the setting active_session_id, 0 for none

memoryVars == <<memories, revisions>>
sessionVars == <<sessions, activeSession>>
storeVars == <<memoryVars, messages, sessionVars>>

NoRow == [purged |-> TRUE]
Rows == [purged : {FALSE}, key : Keys, value : Values, sensitive : BOOLEAN, active : BOOLEAN,
         supersedes : Nat, expiry : {"never", "fresh", "past"}, source : Nat]

\* What a hidden payload proposes, and whether its source URLs are among the evidence's.
Items == [key : Keys, value : Values, explicit : BOOLEAN, sensitive : BOOLEAN, sourced : BOOLEAN]

MemoryInit ==
  /\ memories = <<>> /\ revisions = {}
  /\ messages = <<>>
  /\ sessions = 0 /\ activeSession = 0

Ids == {i \in 1..Len(memories) : ~memories[i].purged}

\* Mutant: an inactive row counts as existing.
Existing_OfAnyState(key) == {i \in Ids : memories[i].key = key}

Existing(key) == {i \in Ids : memories[i].active /\ memories[i].key = key}

\* The row that upsert_memory compares with, the newest.
Newest(ids) == CHOOSE i \in ids : \A j \in ids : j <= i

\* apply_memory_payload skips what is not explicit, or not backed by the evidence.
Acceptable(item, evidence) ==
  /\ item.key \in PersonalKeys \/ item.sensitive => item.explicit
  /\ item.key \in HardKeys => evidence /\ item.sourced

Expiry(item) == IF item.key \in HardKeys THEN "fresh" ELSE "never"

NewRow(item, old, source) ==
  [purged |-> FALSE, key |-> item.key, value |-> item.value, sensitive |-> item.sensitive,
   active |-> TRUE, supersedes |-> old, expiry |-> Expiry(item), source |-> source]

\* The same value again: flags are joined, the rest of the row stays.
Reinforce(id, item, source) ==
  /\ memories' = [memories EXCEPT ![id].sensitive = @ \/ item.sensitive, ![id].source = source]
  /\ UNCHANGED revisions

\* Mutant: the old row is overwritten in place.
Supersede_InPlace(id, item, source) ==
  /\ memories' = [memories EXCEPT ![id] = NewRow(item, memories[id].supersedes, source)]
  /\ UNCHANGED revisions

\* Mutant: the old row stays active.
Supersede_KeepsOld(id, item, source) ==
  /\ memories' = Append(memories, NewRow(item, id, source))
  /\ revisions' = revisions \cup {[memory |-> Len(memories) + 1, old |-> memories[id].value]}

\* A conflict: a new row takes over, and the old value becomes a revision.
Supersede(id, item, source) ==
  /\ memories' = Append([memories EXCEPT ![id].active = FALSE], NewRow(item, id, source))
  /\ revisions' = revisions \cup {[memory |-> Len(memories) + 1, old |-> memories[id].value]}

Upsert(item, source) ==
  LET existing == Existing(item.key) IN
    \/ /\ existing = {}
       /\ memories' = Append(memories, NewRow(item, 0, source))
       /\ UNCHANGED revisions
    \/ /\ existing # {}
       /\ LET id == Newest(existing) IN
            IF memories[id].value = item.value
              THEN Reinforce(id, item, source)
              ELSE Supersede(id, item, source)

Forget(id) ==
  /\ id \in Ids
  /\ memories' = [memories EXCEPT ![id].active = FALSE]
  /\ UNCHANGED revisions

\* The row goes, and with it by the foreign keys its revision and the references to it.
Purge(id) ==
  /\ id \in Ids
  /\ memories' = [i \in 1..Len(memories) |->
                    CASE i = id -> NoRow
                      [] i \in Ids \ {id} /\ memories[i].supersedes = id ->
                           [memories[i] EXCEPT !.supersedes = 0]
                      [] OTHER -> memories[i]]
  /\ revisions' = {r \in revisions : r.memory # id}

\* search_memories, for a query that may or may not see what is sensitive.
Recalled(private) ==
  {i \in Ids : /\ memories[i].active /\ memories[i].expiry # "past"
               /\ memories[i].sensitive => private}

Expire(id) ==
  /\ id \in Ids /\ memories[id].expiry = "fresh"
  /\ memories' = [memories EXCEPT ![id].expiry = "past"]
  /\ UNCHANGED revisions

AppendMessage(message) == messages' = Append(messages, message)

\* create_session inserts the session, then another transaction points at it.
InsertSession == sessions' = sessions + 1 /\ UNCHANGED activeSession

SetActive(session) == activeSession' = session /\ UNCHANGED sessions
=============================================================================
