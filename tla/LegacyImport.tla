---------------------------- MODULE LegacyImport ----------------------------
(***************************************************************************)
(* apply_migration of memory_migrate.py: the messages of a text file and   *)
(* of an older database are imported, on the user's command, into the      *)
(* messages of the store, one transaction each.  The process may die       *)
(* between any two of them and the user may give the command again.        *)
(*                                                                         *)
(* A message is a text, which stands for its role and its normalised       *)
(* content, and a fingerprint: the candidate's index, since source, key,   *)
(* speaker and content make it and all of them stay.  The roles share one  *)
(* window here.  No cockpit runs beside the import.                        *)
(***************************************************************************)
EXTENDS Naturals, Sequences, FiniteSets

CONSTANTS
  LegacyMessages,    \* the texts of the text file's messages, then of the database's
  Long,          \* the texts of 40 characters or more
  Talk,          \* the texts of messages that the cockpit appends
  Window,        \* the newest long messages that content_exists looks at
  MaxImports,    \* commands (bounds TLC)
  MaxTalk        \* messages that the cockpit appends (bounds TLC)

ASSUME ImportAssumption ==
  /\ LegacyMessages \in Seq(STRING) /\ Talk \subseteq STRING
  /\ Window \in Nat /\ MaxImports \in Nat /\ MaxTalk \in Nat

VARIABLES
  recovered,    \* messages, oldest first; fingerprint 0 is NULL
  recoveredIn,  \* the legacy_migration_session_id is set and its session exists
  spare,        \* sessions that a death left without the setting
  next,         \* the candidate that is next, or 0 when no import runs
  opened,       \* create_session is done, set_setting is not
  longSeen,     \* seen_long_content
  whole,        \* imports have completed
  imports, talk

importVars ==
  <<recovered, recoveredIn, spare, next, opened, longSeen, whole, imports, talk>>

ImportInit ==
  /\ recovered = <<>>
  /\ recoveredIn = FALSE /\ spare = 0
  /\ next = 0 /\ opened = FALSE /\ longSeen = {}
  /\ whole = FALSE
  /\ imports = 0 /\ talk = 0

IsRunning == next # 0 \/ opened

LongAfter(i) == {j \in i + 1..Len(recovered) : recovered[j].text \in Long}

\* content_exists.
ContentExists(text) ==
  /\ text \in Long
  /\ \E i \in 1..Len(recovered) :
       recovered[i].text = text /\ Cardinality(LongAfter(i)) < Window

\* Mutant: nothing keeps a fingerprint unique.
IsRecorded_Never(c) == FALSE

\* append_message: the fingerprint is unique, and one that is there stays alone.
IsRecorded(c) == \E i \in 1..Len(recovered) : recovered[i].fingerprint = c

\* The command; a session that an earlier import has made is used again.
StartImport ==
  /\ ~IsRunning /\ imports < MaxImports
  /\ imports' = imports + 1
  /\ longSeen' = {}
  /\ IF recoveredIn
       THEN next' = 1 /\ UNCHANGED opened
       ELSE opened' = TRUE /\ UNCHANGED next
  /\ UNCHANGED <<recovered, recoveredIn, spare, whole, talk>>

\* create_session commits before the setting that remembers it does.
KeepSession ==
  /\ opened
  /\ opened' = FALSE /\ recoveredIn' = TRUE
  /\ next' = 1
  /\ UNCHANGED <<recovered, spare, longSeen, whole, imports, talk>>

IsCandidate == next \in 1..Len(LegacyMessages)

\* A message that is there already, or that this import has read from the other source.
SkipDuplicate ==
  LET text == LegacyMessages[next] IN
    /\ IsCandidate
    /\ text \in longSeen \/ ContentExists(text)
    /\ next' = next + 1
    /\ UNCHANGED <<recovered, recoveredIn, spare, opened, longSeen, whole, imports, talk>>

ImportMessage ==
  LET text == LegacyMessages[next] IN
    /\ IsCandidate
    /\ text \notin longSeen /\ ~ContentExists(text)
    /\ IF IsRecorded(next)
         THEN UNCHANGED <<recovered, longSeen>>
         ELSE /\ recovered' = Append(recovered, [text |-> text, fingerprint |-> next])
              /\ longSeen' = longSeen \cup ({text} \cap Long)
    /\ next' = next + 1
    /\ UNCHANGED <<recoveredIn, spare, opened, whole, imports, talk>>

\* The session is described and activated, the time of the import is noted.
FinishImport ==
  /\ next > Len(LegacyMessages)
  /\ next' = 0 /\ whole' = TRUE
  /\ UNCHANGED <<recovered, recoveredIn, spare, opened, longSeen, imports, talk>>

\* The cockpit stores a message of a turn.
TalkOn ==
  /\ ~IsRunning /\ talk < MaxTalk
  /\ \E text \in Talk : recovered' = Append(recovered, [text |-> text, fingerprint |-> 0])
  /\ talk' = talk + 1
  /\ UNCHANGED <<recoveredIn, spare, next, opened, longSeen, whole, imports>>

\* The process dies; what it has committed stays.
ImportDies ==
  /\ IsRunning
  /\ next' = 0 /\ opened' = FALSE
  /\ spare' = spare + IF opened THEN 1 ELSE 0
  /\ UNCHANGED <<recovered, recoveredIn, longSeen, whole, imports, talk>>

ImportNext ==
  StartImport \/ KeepSession \/ SkipDuplicate \/ ImportMessage \/ FinishImport \/ TalkOn \/ ImportDies

ImportSpec == ImportInit /\ [][ImportNext]_importVars

-----------------------------------------------------------------------------
(* Properties                                                              *)

\* The variables have their types.
ImportTypeOK ==
  /\ recovered \in Seq([text : STRING, fingerprint : 0..Len(LegacyMessages)])
  /\ next \in 0..Len(LegacyMessages) + 1
  /\ spare \in 0..MaxImports
  /\ longSeen \subseteq Long

\* After an import that was cut short and repeated, and once one has completed, every legacy
\* message is in the store, no candidate is there twice, and a long text that is there a second
\* time was not among the newest that content_exists looks at.
RecoveredOnce ==
  /\ whole => \A c \in 1..Len(LegacyMessages) :
                \E i \in 1..Len(recovered) : recovered[i].text = LegacyMessages[c]
  /\ \A i, j \in 1..Len(recovered) :
       i < j /\ recovered[j].fingerprint # 0 =>
         /\ recovered[i].fingerprint # recovered[j].fingerprint
         /\ recovered[i].text = recovered[j].text /\ recovered[i].text \in Long =>
              Cardinality({k \in LongAfter(i) : k < j}) >= Window

-----------------------------------------------------------------------------
(* What the repository says of the program and the program does not do.    *)

\* docs/MEMORY.md:104: the migration is "idempotent": a completed import repeated adds nothing.
\* A message of the second source that the first import skipped as a copy is remembered nowhere:
\* its original is recognised by its fingerprint, which does not enter it in
\* seen_long_content, and content_exists has lost sight of it after a thousand newer messages.
ImportIsIdempotent ==
  [][whole /\ recovered' # recovered => ~(next \in 1..Len(LegacyMessages))]_importVars
=============================================================================
