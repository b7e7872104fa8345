----------------------------- MODULE ChatProofs -----------------------------
(***************************************************************************)
(* The memory of conversations, for any keys, questions, drafts, turns and *)
(* crashes.  Three lemmas say what a change of one row, a new row and a    *)
(* conflict do to the store; the rest of a turn leaves it alone.           *)
(***************************************************************************)
EXTENDS ChatTurn, TLAPS, SequenceTheorems

\* The rows and their revisions.
StoreTyped ==
  /\ memories \in Seq(Rows \cup {NoRow})
  /\ revisions \subseteq [memory : Ids, old : Values]

StoreInv == StoreTyped /\ OneActivePerKey

\* No row that is there changes its key or its text, and none becomes active.
RowsKeepTheirText ==
  \A i \in Ids :
    i \in Ids' => /\ memories'[i].key = memories[i].key
                  /\ memories'[i].value = memories[i].value
                  /\ memories'[i].active => memories[i].active

\* No row goes, and one that is retired has a successor that names it, and a revision.
RowsAreSucceeded ==
  \A i \in Ids :
    /\ i \in Ids'
    /\ memories[i].active /\ ~memories'[i].active =>
         \E j \in Ids' \ Ids :
           /\ memories'[j].active /\ memories'[j].supersedes = i
           /\ [memory |-> j, old |-> memories[i].value] \in revisions'

LEMMA RowsOfIds ==
  ASSUME StoreTyped, NEW i \in Ids
  PROVE  i \in 1..Len(memories) /\ memories[i] \in Rows
  BY DEF StoreTyped, Ids, NoRow

\* One row changes, and not in what identifies it.
LEMMA RowChanges ==
  ASSUME StoreInv, NEW id \in Ids, NEW row \in Rows,
         row.key = memories[id].key, row.value = memories[id].value, row.active => memories[id].active,
         memories' = [memories EXCEPT ![id] = row], UNCHANGED revisions
  PROVE  /\ StoreInv' /\ RowsKeepTheirText
         /\ Ids' = Ids /\ memories'[id] = row
         /\ \A i \in Ids : i # id => memories'[i] = memories[i]
<1>1. memories \in Seq(Rows \cup {NoRow}) /\ id \in 1..Len(memories)
  BY RowsOfIds DEF StoreInv, StoreTyped
<1>2. Len(memories') = Len(memories) /\ memories' \in Seq(Rows \cup {NoRow})
  BY <1>1
<1>3. memories'[id] = row /\ \A i \in 1..Len(memories) : i # id => memories'[i] = memories[i]
  BY <1>1
<1>4. ~row.purged /\ ~memories[id].purged
  BY DEF Rows, Ids
<1>5. Ids' = Ids
  BY <1>2, <1>3, <1>4 DEF Ids
<1>6. \A i \in Ids : i \in 1..Len(memories)
  BY DEF Ids
<1>7. RowsKeepTheirText
  BY <1>3, <1>6 DEF RowsKeepTheirText
<1>8. StoreTyped'
  BY <1>2, <1>5 DEF StoreInv, StoreTyped
<1>9. OneActivePerKey'
  <2> SUFFICES ASSUME NEW i \in Ids, NEW j \in Ids, memories'[i].active, memories'[j].active,
                      memories'[i].key = memories'[j].key
               PROVE  i = j
    BY <1>5 DEF OneActivePerKey
  <2>1. memories[i].active /\ memories[j].active /\ memories[i].key = memories[j].key
    BY <1>5, <1>7 DEF RowsKeepTheirText
  <2>2. QED
    BY <2>1 DEF StoreInv, OneActivePerKey
<1>10. QED
  BY <1>3, <1>5, <1>6, <1>7, <1>8, <1>9 DEF StoreInv

\* A row is added behind rows of which none is active under its key.
LEMMA RowAdded ==
  ASSUME StoreInv, NEW row \in Rows, row.active, Existing(row.key) = {},
         memories' = Append(memories, row), revisions' = revisions
  PROVE  StoreInv' /\ RowsKeepTheirText /\ RowsAreSucceeded
<1> DEFINE new == Len(memories) + 1
<1>1. memories \in Seq(Rows \cup {NoRow}) /\ Len(memories) \in Nat
  BY DEF StoreInv, StoreTyped
<1>2. Len(memories') = new /\ memories' \in Seq(Rows \cup {NoRow}) /\ memories'[new] = row
  BY <1>1
<1>3. \A i \in 1..Len(memories) : memories'[i] = memories[i]
  BY <1>1
<1>4. ~row.purged
  BY DEF Rows
<1>5. \A i \in Ids : i \in 1..Len(memories) /\ i # new
  BY <1>1 DEF Ids
<1>6. Ids' = Ids \cup {new}
  BY <1>1, <1>2, <1>3, <1>4 DEF Ids
<1>7. RowsKeepTheirText /\ RowsAreSucceeded
  BY <1>3, <1>5, <1>6 DEF RowsKeepTheirText, RowsAreSucceeded
<1>8. StoreTyped'
  BY <1>2, <1>6 DEF StoreInv, StoreTyped
<1>9. OneActivePerKey'
  <2> SUFFICES ASSUME NEW i \in Ids', NEW j \in Ids', memories'[i].active, memories'[j].active,
                      memories'[i].key = memories'[j].key
               PROVE  i = j
    BY DEF OneActivePerKey
  <2>1. ASSUME NEW k \in Ids, memories[k].active PROVE memories[k].key # row.key
    BY <2>1 DEF Existing
  <2>2. CASE i \in Ids /\ j \in Ids
    BY <1>3, <1>5, <2>2 DEF StoreInv, OneActivePerKey
  <2>3. CASE i = new \/ j = new
    BY <1>2, <1>3, <1>5, <1>6, <2>1, <2>3
  <2>4. QED
    BY <1>6, <2>2, <2>3
<1>10. QED
  BY <1>7, <1>8, <1>9 DEF StoreInv

\* A conflict retires the one active row of the key and names it in the new one.
LEMMA RowSuperseded ==
  ASSUME StoreInv, NEW id \in Ids, memories[id].active, NEW item \in Items, NEW source \in Nat,
         item.key = memories[id].key, Supersede(id, item, source)
  PROVE  StoreInv' /\ RowsKeepTheirText /\ RowsAreSucceeded
<1> DEFINE new == Len(memories) + 1
           row == NewRow(item, id, source)
           retired == [memories[id] EXCEPT !.active = FALSE]
           rest == [memories EXCEPT ![id] = retired]
<1>1. /\ memories \in Seq(Rows \cup {NoRow}) /\ Len(memories) \in Nat
      /\ id \in 1..Len(memories) /\ memories[id] \in Rows
  BY RowsOfIds DEF StoreInv, StoreTyped
<1>2. /\ row \in Rows /\ row.active /\ row.supersedes = id /\ row.key = memories[id].key /\ ~row.purged
  BY <1>1 DEF NewRow, Rows, Items, Expiry
<1>3. /\ retired \in Rows /\ ~retired.active /\ ~retired.purged
      /\ retired.key = memories[id].key /\ retired.value = memories[id].value
  BY <1>1 DEF Rows
<1>4. /\ memories' = Append(rest, row)
      /\ revisions' = revisions \cup {[memory |-> new, old |-> memories[id].value]}
  BY DEF Supersede
<1> HIDE DEF row, retired
<1>5. rest \in Seq(Rows \cup {NoRow}) /\ Len(rest) = Len(memories)
  BY <1>1, <1>3
<1>6. Len(memories') = new /\ memories' \in Seq(Rows \cup {NoRow}) /\ memories'[new] = row
  BY <1>1, <1>2, <1>4, <1>5
<1>7. /\ memories'[id] = retired
      /\ \A i \in 1..Len(memories) : i # id => memories'[i] = memories[i]
  BY <1>1, <1>4, <1>5
<1>8. \A i \in Ids : i \in 1..Len(memories) /\ i # new
  BY <1>1 DEF Ids
<1>9. Ids' = Ids \cup {new}
  <2>1. ~memories[id].purged
    BY DEF Ids
  <2>2. QED
    BY <1>1, <1>2, <1>3, <1>6, <1>7, <2>1 DEF Ids
<1>10. RowsKeepTheirText
  BY <1>3, <1>7, <1>8, <1>9 DEF RowsKeepTheirText
<1>11. RowsAreSucceeded
  <2>1. new \in Ids' \ Ids
    BY <1>8, <1>9
  <2>2. \A i \in Ids : i # id => memories'[i] = memories[i]
    BY <1>7, <1>8
  <2>3. QED
    BY <1>2, <1>4, <1>6, <1>9, <2>1, <2>2 DEF RowsAreSucceeded
<1>12. StoreTyped'
  <2>1. memories[id].value \in Values
    BY <1>1 DEF Rows
  <2>2. revisions' \subseteq [memory : Ids', old : Values]
    BY <1>4, <1>9, <2>1 DEF StoreInv, StoreTyped
  <2>3. QED
    BY <1>6, <2>2 DEF StoreTyped
<1>13. OneActivePerKey'
  <2> SUFFICES ASSUME NEW i \in Ids', NEW j \in Ids', memories'[i].active, memories'[j].active,
                      memories'[i].key = memories'[j].key
               PROVE  i = j
    BY DEF OneActivePerKey
  <2>1. ASSUME NEW k \in Ids, memories'[k].active PROVE memories[k].key # memories[id].key /\ k # id
    <3>1. k # id
      BY <1>3, <1>7, <2>1
    <3>2. memories[k].active
      BY <1>7, <1>8, <2>1, <3>1
    <3>3. QED
      BY <3>1, <3>2 DEF StoreInv, OneActivePerKey
  <2>2. CASE i \in Ids /\ j \in Ids
    BY <1>7, <1>8, <2>1, <2>2 DEF StoreInv, OneActivePerKey
  <2>3. CASE i = new \/ j = new
    BY <1>2, <1>6, <1>7, <1>8, <1>9, <2>1, <2>3
  <2>4. QED
    BY <1>9, <2>2, <2>3
<1>14. QED
  BY <1>10, <1>11, <1>12, <1>13 DEF StoreInv

LEMMA UpsertKeeps ==
  ASSUME StoreInv, NEW item \in Items, NEW source \in Nat, Upsert(item, source)
  PROVE  StoreInv' /\ RowsKeepTheirText /\ RowsAreSucceeded
<1>1. CASE Existing(item.key) = {}
  <2>1. NewRow(item, 0, source) \in Rows /\ NewRow(item, 0, source).active
    BY DEF NewRow, Rows, Items, Expiry
  <2>2. NewRow(item, 0, source).key = item.key
    BY DEF NewRow
  <2>3. memories' = Append(memories, NewRow(item, 0, source)) /\ revisions' = revisions
    BY <1>1 DEF Upsert
  <2>4. QED
    BY <1>1, <2>1, <2>2, <2>3, RowAdded
<1>2. CASE Existing(item.key) # {}
  <2>1. PICK id : id \in Existing(item.key)
    BY <1>2
  <2>2. id \in Ids /\ memories[id].active /\ memories[id].key = item.key
    BY <2>1 DEF Existing
  <2>3. memories[id] \in Rows /\ id \in 1..Len(memories)
    BY <2>2, RowsOfIds DEF StoreInv
  <2>4. Existing(item.key) = {id}
    BY <2>2 DEF Existing, StoreInv, OneActivePerKey
  <2>5. Newest(Existing(item.key)) = id
    BY <2>3, <2>4 DEF Newest
  <2>6. CASE memories[id].value = item.value
    <3> DEFINE row == [memories[id] EXCEPT !.sensitive = @ \/ item.sensitive, !.source = source]
    <3>1. row \in Rows /\ row.active = memories[id].active
      BY <2>3 DEF Rows, Items
    <3>2. row.key = memories[id].key /\ row.value = memories[id].value
      BY <2>3 DEF Rows
    <3>3. memories' = [memories EXCEPT ![id] = row] /\ UNCHANGED revisions
      BY <1>2, <2>3, <2>5, <2>6 DEF Upsert, Reinforce, StoreInv, StoreTyped
    <3> HIDE DEF row
    <3>4. /\ StoreInv' /\ RowsKeepTheirText /\ Ids' = Ids /\ memories'[id] = row
          /\ \A i \in Ids : i # id => memories'[i] = memories[i]
      BY <2>2, <3>1, <3>2, <3>3, RowChanges
    <3>5. QED
      BY <2>2, <3>1, <3>4 DEF RowsAreSucceeded
  <2>7. CASE memories[id].value # item.value
    <3>1. Supersede(id, item, source)
      BY <1>2, <2>5, <2>7 DEF Upsert
    <3>2. QED
      BY <2>2, <3>1, RowSuperseded
  <2>8. QED
    BY <2>6, <2>7
<1>3. QED
  BY <1>1, <1>2

LEMMA ForgetKeeps ==
  ASSUME StoreInv, NEW id, Forget(id)
  PROVE  StoreInv' /\ RowsKeepTheirText
<1> DEFINE row == [memories[id] EXCEPT !.active = FALSE]
<1>1. id \in Ids /\ memories[id] \in Rows /\ id \in 1..Len(memories)
  BY RowsOfIds DEF Forget, StoreInv
<1>2. row \in Rows /\ ~row.active /\ row.key = memories[id].key /\ row.value = memories[id].value
  BY <1>1 DEF Rows
<1>3. memories' = [memories EXCEPT ![id] = row] /\ UNCHANGED revisions
  BY <1>1 DEF Forget, StoreInv, StoreTyped
<1> HIDE DEF row
<1>4. QED
  BY <1>1, <1>2, <1>3, RowChanges

LEMMA ExpireKeeps ==
  ASSUME StoreInv, NEW id, Expire(id)
  PROVE  StoreInv' /\ RowsKeepTheirText /\ RowsAreSucceeded
<1> DEFINE row == [memories[id] EXCEPT !.expiry = "past"]
<1>1. id \in Ids /\ memories[id] \in Rows /\ id \in 1..Len(memories)
  BY RowsOfIds DEF Expire, StoreInv
<1>2. /\ row \in Rows /\ row.active = memories[id].active
      /\ row.key = memories[id].key /\ row.value = memories[id].value
  BY <1>1 DEF Rows
<1>3. memories' = [memories EXCEPT ![id] = row] /\ UNCHANGED revisions
  BY <1>1 DEF Expire, StoreInv, StoreTyped
<1> HIDE DEF row
<1>4. /\ StoreInv' /\ RowsKeepTheirText /\ Ids' = Ids /\ memories'[id] = row
      /\ \A i \in Ids : i # id => memories'[i] = memories[i]
  BY <1>1, <1>2, <1>3, RowChanges
<1>5. QED
  BY <1>2, <1>4 DEF RowsAreSucceeded

LEMMA PurgeKeeps ==
  ASSUME StoreInv, NEW id, Purge(id)
  PROVE  StoreInv' /\ RowsKeepTheirText
<1> DEFINE Cut(i) == [memories[i] EXCEPT !.supersedes = 0]
<1>1. memories \in Seq(Rows \cup {NoRow}) /\ Len(memories) \in Nat /\ id \in 1..Len(memories)
  BY RowsOfIds DEF Purge, StoreInv, StoreTyped
<1>2. ASSUME NEW i \in Ids, i # id
      PROVE  /\ i \in 1..Len(memories) /\ memories'[i] \in Rows /\ ~memories'[i].purged
             /\ memories'[i].key = memories[i].key /\ memories'[i].value = memories[i].value
             /\ memories'[i].active = memories[i].active
  <2>1. i \in 1..Len(memories) /\ memories[i] \in Rows
    BY RowsOfIds DEF StoreInv
  <2>2. /\ Cut(i) \in Rows /\ Cut(i).key = memories[i].key /\ Cut(i).value = memories[i].value
        /\ Cut(i).active = memories[i].active
    BY <2>1 DEF Rows
  <2>3. memories'[i] \in {Cut(i), memories[i]}
    BY <1>2, <2>1 DEF Purge
  <2> HIDE DEF Cut
  <2>4. memories'[i] \in Rows
    BY <2>1, <2>2, <2>3
  <2>5. ~memories'[i].purged
    BY <2>4 DEF Rows
  <2>6. QED
    BY <2>1, <2>2, <2>3, <2>4, <2>5
<1>3. memories'[id] = NoRow
  BY <1>1 DEF Purge
<1>4. \A i \in 1..Len(memories) : i \notin Ids /\ i # id => memories'[i] = memories[i]
  BY DEF Purge
<1>5. \A i \in 1..Len(memories) : memories'[i] \in Rows \cup {NoRow}
  BY <1>1, <1>2, <1>3, <1>4
<1>6. memories' \in Seq(Rows \cup {NoRow}) /\ Len(memories') = Len(memories)
  <2>1. memories' = [i \in 1..Len(memories) |-> memories'[i]]
    BY DEF Purge
  <2>2. QED
    BY <1>1, <1>5, <2>1
<1>7. Ids' = Ids \ {id}
  <2>1. \A i \in 1..Len(memories) : ~memories'[i].purged <=> i \in Ids \ {id}
    <3> TAKE i \in 1..Len(memories)
    <3>1. CASE i = id
      BY <1>3, <3>1 DEF NoRow
    <3>2. CASE i # id /\ i \in Ids
      BY <1>2, <3>2
    <3>3. CASE i # id /\ i \notin Ids
      BY <1>4, <3>3 DEF Ids
    <3>4. QED
      BY <3>1, <3>2, <3>3
  <2>2. QED
    BY <1>6, <2>1 DEF Ids
<1>8. StoreTyped'
  BY <1>6, <1>7 DEF StoreInv, StoreTyped, Purge
<1>9. RowsKeepTheirText
  BY <1>2, <1>7 DEF RowsKeepTheirText
<1>10. OneActivePerKey'
  BY <1>2, <1>7 DEF StoreInv, OneActivePerKey
<1>11. QED
  BY <1>8, <1>9, <1>10 DEF StoreInv

(***************************************************************************)
(* The turn around the store.                                              *)
(***************************************************************************)
Roles == {"user", "assistant", "system"}
MessagesIn(n) == Seq([session : 1..n, role : Roles])

\* The types of what is not a memory; past its beginning a turn has a session.
ControlTyped ==
  /\ sessions \in Nat /\ messages \in MessagesIn(sessions)
  /\ activeSession \in 0..sessions /\ opening \in 0..sessions
  /\ asked \in 0..Len(messages)
  /\ pc \in {"idle", "session", "grounding", "refusing", "drafting", "streaming", "checking",
             "facts", "verifying", "showing", "remembering"}
  /\ evidence \in {"none", "found", "exact"}
  /\ hidden \in Seq(Items)
  /\ pc \notin {"idle", "session"} => activeSession # 0

ChatIInv == StoreInv /\ ControlTyped

LEMMA MessageAppended ==
  ASSUME ControlTyped, activeSession # 0, NEW role \in Roles,
         AppendMessage([session |-> activeSession, role |-> role])
  PROVE  messages' \in MessagesIn(sessions) /\ Len(messages') = Len(messages) + 1 /\ Len(messages) \in Nat
<1>1. [session |-> activeSession, role |-> role] \in [session : 1..sessions, role : Roles]
  BY DEF ControlTyped
<1>2. QED
  BY <1>1 DEF ControlTyped, MessagesIn, AppendMessage

LEMMA SessionInserted ==
  ASSUME ControlTyped, InsertSession
  PROVE  messages \in MessagesIn(sessions') /\ sessions' = sessions + 1 /\ sessions' \in Nat
<1>1. sessions' = sessions + 1 /\ sessions' \in Nat
  BY DEF ControlTyped, InsertSession
<1>2. [session : 1..sessions, role : Roles] \subseteq [session : 1..sessions', role : Roles]
  BY <1>1 DEF ControlTyped
<1>3. messages \in MessagesIn(sessions')
  <2>1. messages \in Seq([session : 1..sessions, role : Roles])
    BY DEF ControlTyped, MessagesIn
  <2>2. QED
    BY <1>2, <2>1, SeqMonotonic DEF MessagesIn
<1>4. QED
  BY <1>1, <1>3

LEMMA ChatInitInv == ChatInit => ChatIInv
<1> SUFFICES ASSUME ChatInit PROVE ChatIInv
  OBVIOUS
<1>1. memories = <<>> /\ revisions = {}
  BY DEF ChatInit, MemoryInit
<1>2. Ids = {}
  BY <1>1 DEF Ids
<1>3. StoreInv
  BY <1>1, <1>2 DEF StoreInv, StoreTyped, OneActivePerKey
<1>4. messages \in MessagesIn(sessions) /\ asked \in 0..Len(messages) /\ hidden \in Seq(Items)
  BY DEF ChatInit, MemoryInit, MessagesIn
<1>5. ControlTyped
  BY <1>4 DEF ChatInit, MemoryInit, ControlTyped
<1>6. QED
  BY <1>3, <1>5 DEF ChatIInv

LEMMA ControlStep == ControlTyped /\ [ChatNext]_chatVars => ControlTyped'
<1> SUFFICES ASSUME ControlTyped, [ChatNext]_chatVars PROVE ControlTyped'
  OBVIOUS
<1> USE DEF storeVars, memoryVars, sessionVars, turnVars, boundVars, Reset, NoDraft
<1>0. Len(messages) \in Nat
  BY DEF ControlTyped, MessagesIn
<1>1. ASSUME NEW q \in Queries, Ask(q) PROVE ControlTyped'
  BY <1>1 DEF Ask, ControlTyped
<1>2. CASE EnsureSession \/ NewSession
  BY <1>2, SessionInserted DEF EnsureSession, NewSession, Command, Idle, InsertSession, ControlTyped
<1>3. CASE PointAtSession
  BY <1>3 DEF PointAtSession, SetActive, ControlTyped
<1>4. CASE StoreQuestion
  <2>1. messages' \in MessagesIn(sessions) /\ Len(messages') = Len(messages) + 1
    BY <1>4, MessageAppended DEF StoreQuestion, Roles
  <2>2. QED
    BY <1>0, <1>4, <2>1 DEF StoreQuestion, ControlTyped
<1>5. ASSUME NEW found \in {"none", "found", "exact"}, Ground(found) PROVE ControlTyped'
  BY <1>5 DEF Ground, ControlTyped
<1>6. CASE Refuse
  <2>1. messages' \in MessagesIn(sessions) /\ Len(messages') = Len(messages) + 1
    BY <1>6, MessageAppended DEF Refuse, Roles, ControlTyped
  <2>2. QED
    BY <1>0, <1>6, <2>1 DEF Refuse, ControlTyped
<1>7. ASSUME NEW d \in Drafts, Draft(d) \/ RepairNumbers(d) \/ RepairFact(d) PROVE ControlTyped'
  <2>1. d.hidden \in Seq(Items)
    BY ChatAssumption DEF DraftKinds
  <2>2. hidden' \in Seq(Items)
    <3>1. hidden' \in {d.hidden, <<>>}
      BY <1>7 DEF Draft, RepairNumbers, RepairFact
    <3>2. <<>> \in Seq(Items)
      OBVIOUS
    <3>3. QED
      BY <2>1, <3>1, <3>2
  <2>3. QED
    BY <1>7, <2>2 DEF Draft, RepairNumbers, RepairFact, ControlTyped
<1>8. CASE Stream \/ NumbersPass \/ FactHolds
  BY <1>8 DEF Stream, NumbersPass, FactHolds, ControlTyped
<1>9. CASE Verify
  BY <1>9 DEF Verify, ControlTyped
<1>10. CASE StoreAnswer
  <2>1. CASE UNCHANGED messages
    BY <1>10, <2>1 DEF StoreAnswer, ControlTyped
  <2>2. CASE AppendMessage([session |-> activeSession, role |-> "assistant"])
    <3>1. messages' \in MessagesIn(sessions) /\ Len(messages') = Len(messages) + 1
      BY <1>10, <2>2, MessageAppended DEF StoreAnswer, Roles, ControlTyped
    <3>2. QED
      BY <1>0, <1>10, <3>1 DEF StoreAnswer, ControlTyped
  <2>3. QED
    BY <1>10, <2>1, <2>2 DEF StoreAnswer
<1>11. CASE Remember
  <2>1. hidden' \in Seq(Items)
    BY <1>11 DEF Remember, ControlTyped
  <2>2. QED
    BY <1>11, <2>1 DEF Remember, ControlTyped
<1>12. CASE EndTurn \/ Crash
  <2>1. hidden' = <<>> /\ asked' = 0 /\ pc' = "idle" /\ evidence' = "none"
    BY <1>12 DEF EndTurn, Crash
  <2>2. UNCHANGED <<messages, sessions, activeSession>> /\ opening' \in {0, opening}
    BY <1>12 DEF EndTurn, Crash
  <2>3. hidden' \in Seq(Items)
    BY <2>1
  <2>4. QED
    BY <1>0, <2>1, <2>2, <2>3 DEF ControlTyped
<1>13. CASE ForgetMemory
  BY <1>13 DEF ForgetMemory, Command, ControlTyped
<1>14. CASE SwitchSession
  BY <1>14 DEF SwitchSession, Command, Idle, SetActive, ControlTyped
<1>15. CASE FactExpires \/ UNCHANGED chatVars
  BY <1>15 DEF FactExpires, chatVars, ControlTyped
<1>16. QED
  BY <1>1, <1>2, <1>3, <1>4, <1>5, <1>6, <1>7, <1>8, <1>9, <1>10, <1>11, <1>12, <1>13, <1>14, <1>15
     DEF ChatNext, TurnStep

\* What a step does to the memories: nothing, or what the last lemmas are about.
LEMMA StoreStep ==
  ASSUME ChatIInv, [ChatNext]_chatVars
  PROVE  /\ StoreInv' /\ RowsKeepTheirText
         /\ pc # "idle" => RowsAreSucceeded
<1> USE DEF storeVars, memoryVars, sessionVars, turnVars, boundVars
<1>1. ASSUME UNCHANGED memoryVars PROVE StoreInv' /\ RowsKeepTheirText /\ RowsAreSucceeded
  <2>1. Ids' = Ids
    BY <1>1 DEF Ids
  <2>2. QED
    BY <1>1, <2>1 DEF ChatIInv, StoreInv, StoreTyped, OneActivePerKey, RowsKeepTheirText, RowsAreSucceeded
<1>2. CASE Remember
  <2>1. Head(hidden) \in Items /\ asked \in Nat
    BY <1>2 DEF Remember, ChatIInv, ControlTyped, MessagesIn
  <2>2. UNCHANGED memoryVars \/ Upsert(Head(hidden), asked)
    BY <1>2 DEF Remember
  <2>3. QED
    BY <1>1, <2>1, <2>2, UpsertKeeps DEF ChatIInv
<1>3. CASE ForgetMemory
  <2>1. pc = "idle"
    BY <1>3 DEF ForgetMemory, Command, Idle
  <2>2. PICK id : Forget(id) \/ Purge(id)
    BY <1>3 DEF ForgetMemory
  <2>3. QED
    BY <2>1, <2>2, ForgetKeeps, PurgeKeeps DEF ChatIInv
<1>4. CASE FactExpires
  <2>1. PICK id : Expire(id)
    BY <1>4 DEF FactExpires
  <2>2. QED
    BY <2>1, ExpireKeeps DEF ChatIInv
<1>5. ASSUME ~Remember, ~ForgetMemory, ~FactExpires PROVE UNCHANGED memoryVars
  BY <1>5 DEF ChatNext, chatVars, TurnStep, Ask, EnsureSession, PointAtSession, StoreQuestion, Ground,
     Refuse, Draft, Stream, RepairNumbers, NumbersPass, RepairFact, FactHolds, Verify, StoreAnswer,
     EndTurn, NewSession, SwitchSession, Crash
<1>6. QED
  BY <1>1, <1>2, <1>3, <1>4, <1>5

LEMMA ChatStepInv == ChatIInv /\ [ChatNext]_chatVars => ChatIInv'
  BY ControlStep, StoreStep DEF ChatIInv

\* The variables have their types; the active session exists, wherever its creation stopped.
THEOREM ChatTypes == ChatSpec => []ChatTypeOK
<1>1. ChatIInv => ChatTypeOK
  BY DEF ChatIInv, StoreInv, StoreTyped, ControlTyped, MessagesIn, Roles, ChatTypeOK
<1>2. QED
  BY ChatInitInv, ChatStepInv, <1>1, PTL DEF ChatSpec

\* A key has one active memory, for any keys and any order of turns, commands and crashes.
THEOREM OneVersionIsActive == ChatSpec => []OneActivePerKey
<1>1. ChatIInv => OneActivePerKey
  BY DEF ChatIInv, StoreInv
<1>2. QED
  BY ChatInitInv, ChatStepInv, <1>1, PTL DEF ChatSpec

\* A turn deletes and rewrites no memory and names the successor of what it retires; nothing that was
\* forgotten comes back.
THEOREM MemoriesHaveHistory == ChatSpec => HistoryIsKept
<1> DEFINE Kept ==
      \A i \in Ids :
        /\ i \in Ids' => /\ memories'[i].key = memories[i].key
                         /\ memories'[i].value = memories[i].value
                         /\ memories'[i].active => memories[i].active
        /\ pc # "idle" => i \in Ids'
        /\ pc # "idle" /\ memories[i].active /\ ~memories'[i].active =>
             \E j \in Ids' \ Ids :
               /\ memories'[j].active /\ memories'[j].supersedes = i
               /\ [memory |-> j, old |-> memories[i].value] \in revisions'
<1>1. ChatIInv /\ [ChatNext]_chatVars => [Kept]_chatVars
  BY StoreStep DEF RowsKeepTheirText, RowsAreSucceeded
<1>2. QED
  BY ChatInitInv, ChatStepInv, <1>1, PTL DEF ChatSpec, HistoryIsKept

\* What a turn remembers can be recalled afterwards, for any memories that came before.
LEMMA UpsertIsRecalled ==
  ASSUME StoreInv, NEW item \in Items, NEW source \in Nat, Upsert(item, source),
         \A i \in Existing(item.key) : memories[i].value = item.value => memories[i].expiry # "past"
  PROVE  \E i \in Recalled(TRUE)' : memories'[i].key = item.key /\ memories'[i].value = item.value
<1> DEFINE new == Len(memories) + 1
<1>1. memories \in Seq(Rows \cup {NoRow}) /\ Len(memories) \in Nat
  BY DEF StoreInv, StoreTyped
<1>2. ASSUME NEW old \in Nat, NEW rest \in Seq(Rows \cup {NoRow}), Len(rest) = Len(memories),
             memories' = Append(rest, NewRow(item, old, source))
      PROVE  \E i \in Recalled(TRUE)' : memories'[i].key = item.key /\ memories'[i].value = item.value
  <2> DEFINE row == NewRow(item, old, source)
  <2>1. /\ row \in Rows /\ ~row.purged /\ row.active /\ row.expiry # "past"
        /\ row.key = item.key /\ row.value = item.value
    BY DEF NewRow, Rows, Items, Expiry
  <2>2. memories' = Append(rest, row)
    BY <1>2
  <2> HIDE DEF row
  <2>3. Len(memories') = new /\ memories'[new] = row
    BY <1>1, <1>2, <2>1, <2>2
  <2>4. new \in Ids'
    BY <1>1, <2>1, <2>3 DEF Ids
  <2>5. new \in Recalled(TRUE)'
    BY <2>1, <2>3, <2>4 DEF Recalled
  <2>6. QED
    BY <2>1, <2>3, <2>5
<1>3. CASE Existing(item.key) = {}
  BY <1>1, <1>2, <1>3 DEF Upsert
<1>4. CASE Existing(item.key) # {}
  <2>1. PICK id : id \in Existing(item.key)
    BY <1>4
  <2>2. id \in Ids /\ memories[id].active /\ memories[id].key = item.key
    BY <2>1 DEF Existing
  <2>3. memories[id] \in Rows /\ id \in 1..Len(memories)
    BY <2>2, RowsOfIds DEF StoreInv
  <2>4. Existing(item.key) = {id}
    BY <2>2 DEF Existing, StoreInv, OneActivePerKey
  <2>5. Newest(Existing(item.key)) = id
    BY <2>3, <2>4 DEF Newest
  <2>6. CASE memories[id].value = item.value
    <3> DEFINE row == [memories[id] EXCEPT !.sensitive = @ \/ item.sensitive, !.source = source]
    <3>1. /\ memories' = [memories EXCEPT ![id] = row]
      BY <1>4, <2>3, <2>5, <2>6, <1>1 DEF Upsert, Reinforce
    <3>2. /\ row.key = item.key /\ row.value = item.value /\ ~row.purged /\ row.active
          /\ row.expiry # "past"
      BY <2>1, <2>2, <2>3, <2>6 DEF Rows
    <3> HIDE DEF row
    <3>3. Len(memories') = Len(memories) /\ memories'[id] = row
      BY <1>1, <2>3, <3>1
    <3>4. id \in Recalled(TRUE)'
      BY <2>3, <3>2, <3>3 DEF Recalled, Ids
    <3>5. QED
      BY <3>2, <3>3, <3>4
  <2>7. CASE memories[id].value # item.value
    <3> DEFINE rest == [memories EXCEPT ![id].active = FALSE]
    <3>1. memories' = Append(rest, NewRow(item, id, source))
      BY <1>4, <2>5, <2>7 DEF Upsert, Supersede
    <3>2. [memories[id] EXCEPT !.active = FALSE] \in Rows
      BY <2>3 DEF Rows
    <3>3. rest \in Seq(Rows \cup {NoRow}) /\ Len(rest) = Len(memories)
      BY <1>1, <2>3, <3>2
    <3>4. \E old \in Nat, other \in Seq(Rows \cup {NoRow}) :
            Len(other) = Len(memories) /\ memories' = Append(other, NewRow(item, old, source))
      <4> HIDE DEF rest
      <4>1. id \in Nat
        BY <2>3
      <4> QED
        BY <3>1, <3>3, <4>1
    <3>5. QED
      BY <1>2, <3>4
  <2>8. QED
    BY <2>6, <2>7
<1>5. QED
  BY <1>3, <1>4

\* What a turn remembers can be recalled afterwards, unless it had expired before.
THEOREM LearnedIsRecalledLater == ChatSpec => LearnedIsRecalled
<1> DEFINE Kept ==
      pc = "remembering" /\ pc' = pc /\ hidden # hidden'
        /\ Acceptable(Head(hidden), evidence # "none")
        /\ (\A i \in Existing(Head(hidden).key) :
              memories[i].value = Head(hidden).value => memories[i].expiry # "past")
      => \E i \in Recalled(TRUE)' :
           memories'[i].key = Head(hidden).key /\ memories'[i].value = Head(hidden).value
<1>1. ChatIInv /\ [ChatNext]_chatVars => [Kept]_chatVars
  <2> SUFFICES ASSUME ChatIInv, ChatNext, pc = "remembering", pc' = pc, hidden # hidden',
                      Acceptable(Head(hidden), evidence # "none"),
                      \A i \in Existing(Head(hidden).key) :
                        memories[i].value = Head(hidden).value => memories[i].expiry # "past"
               PROVE  \E i \in Recalled(TRUE)' :
                        memories'[i].key = Head(hidden).key /\ memories'[i].value = Head(hidden).value
    OBVIOUS
  <2>1. Remember
    BY DEF ChatNext, TurnStep, Ask, EnsureSession, PointAtSession, StoreQuestion, Ground, Refuse, Draft,
       Stream, RepairNumbers, NumbersPass, RepairFact, FactHolds, Verify, StoreAnswer, EndTurn,
       ForgetMemory, NewSession, SwitchSession, Command, Idle, FactExpires, Crash, turnVars
  <2>2. Upsert(Head(hidden), asked)
    BY <2>1 DEF Remember
  <2>3. Head(hidden) \in Items /\ asked \in Nat /\ StoreInv
    BY <2>1 DEF Remember, ChatIInv, ControlTyped, MessagesIn
  <2>4. QED
    BY <2>2, <2>3, UpsertIsRecalled
<1>2. QED
  BY ChatInitInv, ChatStepInv, <1>1, PTL DEF ChatSpec, LearnedIsRecalled

(***************************************************************************)
(* The answer.  What is on the screen follows from the draft, the evidence *)
(* and the question at every step of the turn, and so does what is to be   *)
(* remembered.                                                             *)
(***************************************************************************)
AnswerKinds ==
  [by : {"model", "none", "numeric_guard", "fact_guard"}, length : 0..2, cites : 0..2,
   numbers : BOOLEAN, fact : BOOLEAN, hidden : Seq(Items)]

\* What the model or a guard may have written.
Answers == {d \in AnswerKinds : d.cites <= d.length}

\* After n chunks of a draft: what does not need to be held is on the screen.
ShownAfter(n) == IF ~HoldOutput \/ Releases(visible, n) THEN Chunks(visible, n) ELSE <<>>

NumbersAreChecked == query.strict => NumbersHold(visible)

\* A repair for the fact comes after the numbers were checked.
FactIsChecked ==
  IF evidence = "exact" THEN Grounded(visible) ELSE NumbersAreChecked

\* What is shown in the end cites its evidence, wherever it was released.
SourceIsChecked ==
  /\ FactIsChecked
  /\ evidence # "none" => visible.cites > 0

SuffixOf(items, whole) ==
  \E n \in 0..Len(whole) : items = SubSeq(whole, n + 1, Len(whole))

AnswerInv ==
  /\ query \in QueryKinds /\ visible \in Answers
  /\ pc \in {"idle", "session", "grounding", "refusing", "drafting"} => shown = <<>>
  /\ pc = "streaming" => shown = ShownAfter(1)
  /\ pc \in {"checking", "facts", "verifying"} => shown = ShownAfter(2)
  /\ pc \in {"streaming", "checking", "facts", "verifying", "showing"} => hidden = visible.hidden
  /\ pc = "facts" => NumbersAreChecked
  /\ pc = "verifying" => FactIsChecked
  /\ pc \in {"showing", "remembering"} => SourceIsChecked /\ shown = Text(visible)
  /\ pc = "remembering" =>
       /\ SuffixOf(hidden, visible.hidden)
       /\ visible.length > 0 => messages # <<>> /\ messages[Len(messages)].role = "assistant"

LEMMA AnswersAre ==
  ASSUME NEW d \in Answers
  PROVE  /\ d.length \in 0..2 /\ d.cites \in 0..2 /\ d.cites <= d.length
         /\ d.numbers \in BOOLEAN /\ d.fact \in BOOLEAN
         /\ d.hidden \in Seq(Items) /\ Len(d.hidden) \in Nat
<1>1. d \in AnswerKinds /\ d.cites <= d.length
  BY DEF Answers
<1>2. d.hidden \in Seq(Items)
  BY <1>1 DEF AnswerKinds
<1>3. Len(d.hidden) \in Nat
  BY <1>2
<1>4. d.length \in 0..2 /\ d.cites \in 0..2 /\ d.numbers \in BOOLEAN /\ d.fact \in BOOLEAN
  BY <1>1 DEF AnswerKinds
<1>5. QED
  BY <1>1, <1>2, <1>3, <1>4

LEMMA DraftsAreAnswers ==
  /\ Drafts \subseteq Answers
  /\ NoDraft \in Answers /\ SafeFallback \in Answers /\ FactFallback \in Answers
  /\ NumbersHold(SafeFallback) /\ FactFallback.cites > 0 /\ FactFallback.fact
<1>1. <<>> \in Seq(Items)
  OBVIOUS
<1>2. NoDraft \in Answers /\ SafeFallback \in Answers /\ FactFallback \in Answers
  <2>1. NoDraft \in AnswerKinds
    BY <1>1 DEF NoDraft, AnswerKinds
  <2>2. SafeFallback \in AnswerKinds
    BY <1>1 DEF SafeFallback, AnswerKinds
  <2>3. FactFallback \in AnswerKinds
    BY <1>1 DEF FactFallback, AnswerKinds
  <2>4. NoDraft.cites = 0 /\ NoDraft.length = 0 /\ SafeFallback.cites = 0 /\ SafeFallback.length = 1
        /\ FactFallback.cites = 1 /\ FactFallback.length = 1
    BY DEF NoDraft, SafeFallback, FactFallback
  <2>5. QED
    BY <2>1, <2>2, <2>3, <2>4 DEF Answers
<1>3. Drafts \subseteq Answers
  <2> SUFFICES ASSUME NEW d \in Drafts PROVE d \in Answers
    OBVIOUS
  <2>1. d \in DraftKinds /\ d.cites \in 0..d.length
    BY ChatAssumption
  <2>2. d \in AnswerKinds /\ d.length \in 0..2
    BY <2>1 DEF DraftKinds, AnswerKinds
  <2>3. QED
    BY <2>1, <2>2 DEF Answers
<1>4. QED
  BY <1>2, <1>3 DEF NoDraft, SafeFallback, FactFallback, NumbersHold

LEMMA TextOfAnswers ==
  ASSUME NEW d \in Answers
  PROVE  /\ Text(d) = Chunks(d, 2)
         /\ Text(d) = <<>> <=> d.length = 0
         /\ \A n \in {1, 2} : Len(Chunks(d, n)) = IF n < d.length THEN n ELSE d.length
         /\ \A n \in {1, 2} : \A i \in 1..Len(Chunks(d, n)) : Chunks(d, n)[i] = [draft |-> d, chunk |-> i]
<1>1. d.length \in 0..2
  BY AnswersAre
<1>2. Text(d) = Chunks(d, 2)
  BY <1>1 DEF Text, Chunks
<1>3. ASSUME NEW n \in {1, 2}
      PROVE  /\ Len(Chunks(d, n)) = IF n < d.length THEN n ELSE d.length
             /\ \A i \in 1..Len(Chunks(d, n)) : Chunks(d, n)[i] = [draft |-> d, chunk |-> i]
  <2> DEFINE k == IF n < d.length THEN n ELSE d.length
  <2>1. k \in Nat
    BY <1>1
  <2>2. Chunks(d, n) = [i \in 1..k |-> [draft |-> d, chunk |-> i]]
    BY DEF Chunks
  <2> HIDE DEF k
  <2>3. Chunks(d, n) \in Seq([draft : {d}, chunk : Nat]) /\ Len(Chunks(d, n)) = k
    BY <2>1, <2>2
  <2>4. Len(Chunks(d, n)) = IF n < d.length THEN n ELSE d.length
    BY <2>3 DEF k
  <2>5. QED
    BY <2>2, <2>3, <2>4
<1>5. Text(d) = <<>> <=> d.length = 0
  <2>1. CASE d.length = 0
    BY <2>1 DEF Text, Chunks
  <2>2. CASE d.length # 0
    BY <1>1, <1>2, <1>3, <2>2
  <2>3. QED
    BY <2>1, <2>2
<1>6. QED
  BY <1>2, <1>3, <1>5

LEMMA AnswerInitInv == ChatInit => AnswerInv
  BY DraftsAreAnswers DEF ChatInit, AnswerInv, NoQuery, QueryKinds

\* A turn ends, or is cut short.
LEMMA ResetKeeps ==
  ASSUME Reset, pc' = "idle" PROVE AnswerInv'
  BY DraftsAreAnswers DEF Reset, AnswerInv, NoQuery, QueryKinds

LEMMA AnswerStepInv ==
  ASSUME ControlTyped, AnswerInv, [ChatNext]_chatVars PROVE AnswerInv'
<1> USE DEF storeVars, memoryVars, sessionVars, turnVars, boundVars
<1>0. ASSUME UNCHANGED <<query, evidence, visible>>
      PROVE  /\ UNCHANGED <<HoldOutput, NumbersAreChecked, FactIsChecked, SourceIsChecked, Text(visible)>>
             /\ UNCHANGED <<ShownAfter(1), ShownAfter(2)>>
  BY <1>0 DEF HoldOutput, NumbersAreChecked, NumbersHold, FactIsChecked, Grounded, SourceIsChecked, Text,
     ShownAfter, Releases, Chunks
<1>1. CASE \/ \E q \in Queries : Ask(q)
           \/ StoreQuestion \/ \E found \in {"none", "found", "exact"} : Ground(found)
  BY <1>1, ChatAssumption DEF Ask, Idle, StoreQuestion, Ground, AnswerInv
<1>2. CASE UNCHANGED <<pc, messages, turnVars>>
  BY <1>0, <1>2 DEF AnswerInv
<1>3. CASE EnsureSession \/ PointAtSession \/ FactExpires \/ UNCHANGED chatVars
  BY <1>2, <1>3 DEF EnsureSession, PointAtSession, FactExpires, chatVars
<1>4. CASE ForgetMemory \/ NewSession \/ SwitchSession
  BY <1>2, <1>4 DEF ForgetMemory, NewSession, SwitchSession, Command
<1>5. CASE Refuse \/ EndTurn \/ Crash
  BY <1>5, ResetKeeps DEF Refuse, EndTurn, Crash
<1>6. ASSUME NEW d \in Drafts, Draft(d) PROVE AnswerInv'
  <2>1. d \in Answers
    BY DraftsAreAnswers
  <2>2. shown' = ShownAfter(1)'
    BY <1>6 DEF Draft, ShownAfter, HoldOutput, Releases
  <2>3. QED
    BY <1>6, <2>1, <2>2 DEF Draft, AnswerInv
<1>7. CASE Stream
  <2>1. visible \in Answers /\ shown = ShownAfter(1)
    BY <1>7 DEF Stream, AnswerInv
  <2>2. Text(visible) = Chunks(visible, 2)
    BY <2>1, TextOfAnswers
  <2>3. Releases(visible, 1) => Releases(visible, 2)
    BY <2>1 DEF Releases
  <2>4. shown' = ShownAfter(2)
    BY <1>7, <2>1, <2>2, <2>3 DEF Stream, ShownAfter
  <2>5. shown' = ShownAfter(2)'
    BY <1>0, <1>7, <2>4 DEF Stream
  <2>6. QED
    BY <1>7, <2>5 DEF Stream, AnswerInv
<1>8. ASSUME NEW d \in Drafts, RepairNumbers(d) PROVE AnswerInv'
  <2>1. visible' \in Answers /\ NumbersHold(visible') /\ hidden' = visible'.hidden
    BY <1>8, DraftsAreAnswers DEF RepairNumbers, SafeFallback, NoDraft
  <2>2. shown = <<>> /\ shown' = ShownAfter(2)'
    BY <1>8 DEF RepairNumbers, AnswerInv, ShownAfter, HoldOutput, Releases
  <2>3. NumbersAreChecked'
    BY <2>1 DEF NumbersAreChecked, NumbersHold
  <2>4. QED
    BY <1>8, <2>1, <2>2, <2>3 DEF RepairNumbers, AnswerInv
<1>9. CASE NumbersPass
  <2>1. NumbersAreChecked
    BY <1>9 DEF NumbersPass, NumbersAreChecked
  <2>2. QED
    BY <1>0, <1>9, <2>1 DEF NumbersPass, AnswerInv
<1>10. ASSUME NEW d \in Drafts, RepairFact(d) PROVE AnswerInv'
  <2>1. visible' \in Answers /\ hidden' = visible'.hidden
    BY <1>10, DraftsAreAnswers DEF RepairFact, FactFallback, NoDraft
  <2>2. evidence' = "exact" /\ visible'.cites > 0 /\ visible'.fact
    BY <1>10, DraftsAreAnswers DEF RepairFact, Grounded
  <2>3. shown = <<>> /\ shown' = ShownAfter(2)'
    BY <1>10 DEF RepairFact, AnswerInv, ShownAfter, HoldOutput, Releases
  <2>4. FactIsChecked'
    BY <2>2 DEF FactIsChecked, Grounded
  <2>5. QED
    BY <1>10, <2>1, <2>3, <2>4 DEF RepairFact, AnswerInv
<1>11. CASE FactHolds
  <2>1. FactIsChecked
    BY <1>11 DEF FactHolds, FactIsChecked, AnswerInv
  <2>2. QED
    BY <1>0, <1>11, <2>1 DEF FactHolds, AnswerInv
<1>12. CASE Verify
  <2>1. /\ visible \in Answers /\ query \in QueryKinds /\ FactIsChecked /\ shown = ShownAfter(2)
        /\ Text(visible) = Chunks(visible, 2) /\ (Text(visible) = <<>> <=> visible.length = 0)
    BY <1>12, TextOfAnswers DEF Verify, AnswerInv
  <2> DEFINE held == HoldOutput /\ shown = <<>>
             rejected == held /\ evidence # "none" /\ ~Grounded(visible)
  <2>2. /\ shown' = IF held /\ ~rejected THEN Text(visible) ELSE shown
        /\ pc' = IF rejected THEN "refusing" ELSE "showing"
    BY <1>12 DEF Verify
  <2>3. CASE rejected
    BY <1>12, <2>2, <2>3 DEF Verify, AnswerInv
  <2>4. CASE ~rejected
    <3>1. shown' = Text(visible)
      BY <2>1, <2>2, <2>4 DEF ShownAfter
    <3>5. SourceIsChecked
      <4>1. evidence # "none" => visible.cites > 0
        <5>1. CASE held
          BY <2>4, <5>1 DEF Grounded
        <5>2. CASE ~HoldOutput
          BY <5>2 DEF HoldOutput
        <5>3. CASE HoldOutput /\ shown # <<>>
          BY <2>1, <5>3 DEF ShownAfter, Releases
        <5>4. QED
          BY <5>1, <5>2, <5>3
      <4>2. QED
        BY <2>1, <4>1 DEF SourceIsChecked
    <3>6. QED
      BY <1>0, <1>12, <2>2, <2>4, <3>1, <3>5 DEF Verify, AnswerInv
  <2>5. QED
    BY <2>3, <2>4
<1>13. CASE StoreAnswer
  <2>1. SourceIsChecked /\ shown = Text(visible) /\ hidden = visible.hidden /\ visible \in Answers
    BY <1>13 DEF StoreAnswer, AnswerInv
  <2>2. SuffixOf(hidden, visible.hidden)
    <3>1. visible.hidden \in Seq(Items)
      BY <2>1, AnswersAre
    <3>2. 0 \in 0..Len(visible.hidden) /\ visible.hidden = SubSeq(visible.hidden, 1, Len(visible.hidden))
      BY <3>1
    <3>3. QED
      BY <2>1, <3>2 DEF SuffixOf
  <2>3. visible.length > 0 => messages' # <<>> /\ messages'[Len(messages')].role = "assistant"
    BY <1>13 DEF StoreAnswer, AppendMessage, ControlTyped, MessagesIn
  <2>4. QED
    BY <1>0, <1>13, <2>1, <2>2, <2>3 DEF StoreAnswer, AnswerInv, SuffixOf
<1>14. CASE Remember
  <2>1. visible \in Answers /\ hidden # <<>> /\ hidden' = Tail(hidden) /\ SuffixOf(hidden, visible.hidden)
    BY <1>14 DEF Remember, AnswerInv
  <2>2. SuffixOf(Tail(hidden), visible.hidden)
    <3>1. visible.hidden \in Seq(Items) /\ Len(visible.hidden) \in Nat
      BY <2>1, AnswersAre
    <3>2. PICK n \in 0..Len(visible.hidden) : hidden = SubSeq(visible.hidden, n + 1, Len(visible.hidden))
      BY <2>1 DEF SuffixOf
    <3>3. n < Len(visible.hidden)
      BY <2>1, <3>1, <3>2
    <3>4. Tail(hidden) = SubSeq(visible.hidden, n + 2, Len(visible.hidden))
      BY <3>1, <3>2, <3>3
    <3>5. n + 1 \in 0..Len(visible.hidden) /\ n + 2 = (n + 1) + 1
      BY <3>1, <3>3
    <3>6. QED
      BY <3>4, <3>5 DEF SuffixOf
  <2>3. QED
    BY <1>0, <1>14, <2>1, <2>2 DEF Remember, AnswerInv, SuffixOf
<1>15. QED
  BY <1>1, <1>3, <1>4, <1>5, <1>6, <1>7, <1>8, <1>9, <1>10, <1>11, <1>12, <1>13, <1>14 DEF ChatNext, TurnStep

LEMMA AnswerInvariant == ChatSpec => [](ChatIInv /\ AnswerInv)
<1>1. ChatInit => ChatIInv /\ AnswerInv
  BY ChatInitInv, AnswerInitInv
<1>2. (ChatIInv /\ AnswerInv) /\ [ChatNext]_chatVars => (ChatIInv /\ AnswerInv)'
  BY ChatStepInv, AnswerStepInv DEF ChatIInv
<1>3. QED
  BY <1>1, <1>2, PTL DEF ChatSpec

\* What is on the screen, even for a moment, has passed the checks that the question and the
\* evidence call for, for any drafts the model may generate.
THEOREM OnlyVerifiedIsShown == ChatSpec => []ShownIsVerified
<1>1. AnswerInv /\ ControlTyped => ShownIsVerified
  <2> SUFFICES ASSUME AnswerInv, ControlTyped, shown # <<>> 
               PROVE  /\ evidence # "none" => \E i \in 1..Len(shown) : shown[i].chunk = shown[i].draft.cites
                      /\ evidence = "exact" => \A i \in 1..Len(shown) : shown[i].draft.fact
                      /\ query.strict /\ evidence # "exact" => \A i \in 1..Len(shown) : shown[i].draft.numbers
    BY DEF ShownIsVerified
  <2>1. visible \in Answers /\ visible.length \in 0..2 /\ visible.cites \in 0..visible.length
    BY AnswersAre DEF AnswerInv
  <2>2. PICK n \in {1, 2} : /\ shown = Chunks(visible, n)
                            /\ evidence # "none" => visible.cites \in 1..n
                            /\ evidence = "exact" => visible.fact
                            /\ query.strict /\ evidence # "exact" => visible.numbers
    <3>1. CASE pc \in {"showing", "remembering"}
      BY <2>1, <3>1, TextOfAnswers
         DEF AnswerInv, SourceIsChecked, FactIsChecked, NumbersAreChecked, NumbersHold, Grounded
    <3>2. CASE pc \notin {"showing", "remembering"}
      <4>1. PICK n \in {1, 2} : shown = ShownAfter(n)
        BY <3>2 DEF AnswerInv, ControlTyped
      <4>2. ~HoldOutput \/ Releases(visible, n)
        BY <4>1 DEF ShownAfter
      <4>3. QED
        BY <4>1, <4>2 DEF ShownAfter, HoldOutput, Releases
    <3>3. QED
      BY <3>1, <3>2
  <2>3. /\ Len(shown) = IF n < visible.length THEN n ELSE visible.length
        /\ \A i \in 1..Len(shown) : shown[i].draft = visible /\ shown[i].chunk = i
    <3>1. Len(Chunks(visible, n)) = IF n < visible.length THEN n ELSE visible.length
      BY <2>1, TextOfAnswers
    <3>2. \A i \in 1..Len(Chunks(visible, n)) : Chunks(visible, n)[i] = [draft |-> visible, chunk |-> i]
      BY <2>1, TextOfAnswers
    <3>3. shown = Chunks(visible, n)
      BY <2>2
    <3>4. \A i \in 1..Len(shown) : shown[i] = [draft |-> visible, chunk |-> i]
      BY <3>2, <3>3
    <3>5. ASSUME NEW i \in 1..Len(shown) PROVE shown[i].draft = visible /\ shown[i].chunk = i
      <4>1. shown[i] = [draft |-> visible, chunk |-> i]
        BY <3>4
      <4>2. QED
        BY <4>1
    <3>6. QED
      BY <3>1, <3>3, <3>5
  <2>4. QED
    BY <2>1, <2>2, <2>3
<1>2. QED
  BY <1>1, AnswerInvariant, PTL DEF ChatIInv

\* A stored answer is what the user has seen, once, in order and in full, held back or not.
THEOREM WhatIsShownIsStored == ChatSpec => []ShownIsStored
<1>1. AnswerInv => ShownIsStored
  BY TextOfAnswers, AnswersAre DEF AnswerInv, ShownIsStored
<1>2. QED
  BY <1>1, AnswerInvariant, PTL

\* Only the answer that was shown is remembered, whichever drafts were rejected, repaired or
\* replaced by a guard's text before.
THEOREM RejectedDraftsAreForgotten == ChatSpec => []OnlyShownIsRemembered
<1>1. AnswerInv => OnlyShownIsRemembered
  BY DEF AnswerInv, OnlyShownIsRemembered, SuffixOf
<1>2. QED
  BY <1>1, AnswerInvariant, PTL
=============================================================================
