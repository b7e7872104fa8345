----------------------------- MODULE Workspace -----------------------------
(***************************************************************************)
(* The agent workspace of engine/workspace_state.py: files on disk, the    *)
(* content-addressed checkpoint blobs, the recoverable trash, and the      *)
(* deletion reviews of pending_deletions.json.                             *)
(*                                                                         *)
(* Every operation that changes them holds _STATE_LOCK.  write_text        *)
(* (checkpoint, then overwrite) and approve_deletion (compare the hash,    *)
(* move to the trash, remove the review) are an action for each step, with *)
(* the operation in hand between them; a crash keeps what was done.  A     *)
(* second operation waits for the lock, so the promises below rest on it.  *)
(* A content stands for a file's bytes and for their hash.                 *)
(*                                                                         *)
(* Left out: the event journal (nothing reads it back), directories, size  *)
(* limits and path resolution (a path here has passed safe_path), the last *)
(* 100 reviews bound, and writers other than this module, such as the      *)
(* programs that run_python starts.                                        *)
(***************************************************************************)
EXTENDS WorkspaceNames

CONSTANTS
  Contents,   \* what a file may hold
  Absent      \* the hash of a file that does not exist

ASSUME WorkspaceAssumption == Absent \notin Contents

Writers == {"agent", "lens"}

Review == [id : Requests, path : Paths, expected : Contents]

Trashed == [path : Paths, content : Contents]

\* The operation that holds _STATE_LOCK, after its first step.
Operation == [op : {"write"}, by : Writers, path : Paths, content : Contents]
             \cup [op : {"consented", "moved"}, review : Review]
             \cup {[op |-> "none"]}

VARIABLES
  disk,      \* the files
  blobs,     \* CHECKPOINT_BLOBS
  trash,     \* TRASH_DIR
  reviews,   \* pending_deletions.json
  drawn,     \* review ids drawn so far
  hand       \* the operation in progress

workspaceVars == <<disk, blobs, trash, reviews, drawn, hand>>

Nothing == [op |-> "none"]

Present(p) == disk[p] # Absent

WorkspaceInit ==
  /\ disk = [p \in Paths |-> Absent]
  /\ blobs = {}
  /\ trash = {}
  /\ reviews = {}
  /\ drawn = {}
  /\ hand = Nothing

-----------------------------------------------------------------------------
(* write_text                                                              *)

\* Mutant: the write is not preceded by a checkpoint.
BeginWrite_NoCheckpoint(by, p, c) ==
  /\ hand = Nothing
  /\ hand' = [op |-> "write", by |-> by, path |-> p, content |-> c]
  /\ UNCHANGED <<disk, blobs, trash, reviews, drawn>>

BeginWrite(by, p, c) ==
  /\ hand = Nothing
  /\ blobs' = blobs \cup ({disk[p]} \ {Absent})
  /\ hand' = [op |-> "write", by |-> by, path |-> p, content |-> c]
  /\ UNCHANGED <<disk, trash, reviews, drawn>>

FinishWrite(by) ==
  /\ hand.op = "write"
  /\ hand.by = by
  /\ disk' = [disk EXCEPT ![hand.path] = hand.content]
  /\ hand' = Nothing
  /\ UNCHANGED <<blobs, trash, reviews, drawn>>

-----------------------------------------------------------------------------
(* request_deletion, approve_deletion, deny_deletion                       *)

ReviewsOf(p) == {rv \in reviews : rv.path = p}

\* A second request for a path answers with the review that is already open, whatever the
\* file holds by now.
RequestDeletion(p, r) ==
  /\ hand = Nothing
  /\ Present(p)
  /\ IF ReviewsOf(p) # {}
     THEN r \in {rv.id : rv \in ReviewsOf(p)} /\ UNCHANGED <<reviews, drawn>>
     ELSE /\ r \in Requests \ drawn
          /\ reviews' = reviews \cup {[id |-> r, path |-> p, expected |-> disk[p]]}
          /\ drawn' = drawn \cup {r}
  /\ UNCHANGED <<disk, blobs, trash, hand>>

\* Mutant: consent is not compared with what the file holds now.
ConsentIsCurrent_Always(rv) == Present(rv.path)

ConsentIsCurrent(rv) == Present(rv.path) /\ disk[rv.path] = rv.expected

\* approve_deletion reads the review and compares the hashes, ...
CheckConsent(rv) ==
  /\ hand = Nothing
  /\ rv \in reviews
  /\ ConsentIsCurrent(rv)
  /\ hand' = [op |-> "consented", review |-> rv]
  /\ UNCHANGED <<disk, blobs, trash, reviews, drawn>>

\* ... moves the file, whatever it holds now, ...
MoveToTrash ==
  /\ hand.op = "consented"
  /\ trash' = trash \cup {[path |-> hand.review.path, content |-> disk[hand.review.path]]}
  /\ disk' = [disk EXCEPT ![hand.review.path] = Absent]
  /\ hand' = [op |-> "moved", review |-> hand.review]
  /\ UNCHANGED <<blobs, reviews, drawn>>

\* ... and writes back the list of reviews that it read, without this one.
CloseApproved ==
  /\ hand.op = "moved"
  /\ reviews' = reviews \ {hand.review}
  /\ hand' = Nothing
  /\ UNCHANGED <<disk, blobs, trash, drawn>>

\* A directory or the list cannot be written, or the move fails.
AbandonApproval ==
  /\ hand.op \in {"consented", "moved"}
  /\ hand' = Nothing
  /\ UNCHANGED <<disk, blobs, trash, reviews, drawn>>

DenyDeletion(rv) ==
  /\ hand = Nothing
  /\ rv \in reviews
  /\ reviews' = reviews \ {rv}
  /\ UNCHANGED <<disk, blobs, trash, drawn, hand>>

WorkspaceCrash == hand' = Nothing /\ UNCHANGED <<disk, blobs, trash, reviews, drawn>>

-----------------------------------------------------------------------------

\* The workspace's variables have their types.
WorkspaceTypeOK ==
  /\ disk \in [Paths -> Contents \cup {Absent}]
  /\ blobs \subseteq Contents
  /\ trash \subseteq Trashed
  /\ reviews \subseteq Review
  /\ drawn \subseteq Requests
  /\ hand \in Operation

=============================================================================
