---------------------------- MODULE HiddenMemory ----------------------------
(***************************************************************************)
(* HiddenMemoryFilter of memory_protocol.py: a draft arrives in chunks cut *)
(* anywhere, and the filter separates what the user sees from the trailing *)
(* block of memories, whose two markers may be cut too.  What could be the *)
(* beginning of a marker is held back until more is known.                 *)
(*                                                                         *)
(* A text is a sequence of symbols; the markers are two of them.           *)
(***************************************************************************)
EXTENDS Naturals, Sequences, SequencesExt

CONSTANTS
  Drafts,       \* the texts that a model may write
  OpenMarker,   \* OPEN_MARKER
  CloseMarker,  \* CLOSE_MARKER
  HiddenLimit   \* hidden_limit

ASSUME FilterAssumption ==
  /\ \A text \in Drafts \cup {OpenMarker, CloseMarker} : text \in Seq(STRING)
  /\ Len(OpenMarker) > 1 /\ Len(CloseMarker) > 1
  /\ HiddenLimit \in Nat

VARIABLES
  draft,      \* what is still to come of the draft
  written,    \* what has come of it
  filterPc,   \* _state, and "finished" after finish
  pending,    \* _pending
  seen,       \* what the filter has handed out to be shown
  concealed   \* _hidden_parts, joined

filterVars == <<draft, written, filterPc, pending, seen, concealed>>

FilterInit ==
  /\ draft \in Drafts
  /\ written = <<>>
  /\ filterPc = "visible"
  /\ pending = <<>> /\ seen = <<>> /\ concealed = <<>>

Upto(text, n) == SubSeq(text, 1, n)
Remainder(text, n) == SubSeq(text, n + 1, Len(text))
Least(a, b) == IF a <= b THEN a ELSE b

\* The places at which the marker begins in the text.
Places(text, marker) ==
  {i \in 1..Len(text) : i + Len(marker) - 1 <= Len(text)
                        /\ SubSeq(text, i, i + Len(marker) - 1) = marker}

Holds(text, marker) == Places(text, marker) # {}

\* What stands before the first marker, and what follows it.
Before(text, marker) ==
  Upto(text, (CHOOSE i \in Places(text, marker) : \A j \in Places(text, marker) : i <= j) - 1)
Behind(text, marker) == Remainder(text, Len(Before(text, marker)) + Len(marker))

\* Mutant: one symbol too few is held back.
Held_Short(text, marker) == Least(Len(text), Len(marker) - 2)

\* How much of a text without the marker may be the beginning of one.
Held(text, marker) == Least(Len(text), Len(marker) - 1)

\* _append_hidden: what fits.
AppendHidden(hidden, text) == hidden \o Upto(text, Least(Len(text), HiddenLimit - Len(hidden)))

\* _consume_hidden of a pending text.
ConsumeHidden(text) ==
  IF Holds(text, CloseMarker)
    THEN /\ filterPc' = "done"
         /\ concealed' = AppendHidden(concealed, Before(text, CloseMarker))
         /\ pending' = <<>>
    ELSE LET cut == Len(text) - Held(text, CloseMarker)
         IN  /\ filterPc' = "hidden"
             /\ concealed' = AppendHidden(concealed, Upto(text, cut))
             /\ pending' = Remainder(text, cut)

\* The next n symbols come as one chunk.
Arrive(n) ==
  /\ n \in 1..Len(draft)
  /\ filterPc # "finished"
  /\ draft' = Remainder(draft, n)
  /\ written' = written \o Upto(draft, n)

FeedVisible(n) ==
  /\ filterPc = "visible"
  /\ Arrive(n)
  /\ LET text == pending \o Upto(draft, n)
         cut  == Len(text) - Held(text, OpenMarker)
     IN  IF Holds(text, OpenMarker)
           THEN /\ seen' = seen \o Before(text, OpenMarker)
                /\ ConsumeHidden(Behind(text, OpenMarker))
           ELSE /\ seen' = seen \o Upto(text, cut)
                /\ pending' = Remainder(text, cut)
                /\ UNCHANGED <<filterPc, concealed>>

FeedHidden(n) ==
  /\ filterPc = "hidden"
  /\ Arrive(n)
  /\ ConsumeHidden(pending \o Upto(draft, n))
  /\ UNCHANGED seen

\* What follows the block is dropped.
FeedDone(n) ==
  /\ filterPc = "done"
  /\ Arrive(n)
  /\ pending' = <<>>
  /\ UNCHANGED <<filterPc, seen, concealed>>

\* finish, when the model has stopped, wherever it stops.
FinishDraft ==
  /\ filterPc # "finished"
  /\ seen' = IF filterPc = "visible" THEN seen \o pending ELSE seen
  /\ concealed' = IF filterPc = "hidden" THEN AppendHidden(concealed, pending) ELSE concealed
  /\ pending' = <<>>
  /\ filterPc' = "finished"
  /\ UNCHANGED <<draft, written>>

FilterNext ==
  \/ \E n \in 1..Len(draft) : FeedVisible(n) \/ FeedHidden(n) \/ FeedDone(n)
  \/ FinishDraft

FilterSpec == FilterInit /\ [][FilterNext]_filterVars

-----------------------------------------------------------------------------
(* What the filter is to tell apart, of a text that is there as a whole.   *)

Shown(text) == IF Holds(text, OpenMarker) THEN Before(text, OpenMarker) ELSE text

Concealed(text) ==
  IF ~Holds(text, OpenMarker) THEN <<>>
  ELSE LET block == Behind(text, OpenMarker)
       IN  IF Holds(block, CloseMarker) THEN Before(block, CloseMarker) ELSE block

\* The split depends on what was written and not on how it was cut into chunks: before the end nothing
\* has been shown that the whole draft hides, and in the end nothing of either part is
\* missing, but for the part of a block that is over the limit.
HiddenStaysHidden ==
  /\ filterPc # "finished" => IsPrefix(seen, Shown(written \o draft))
  /\ filterPc = "finished" =>
       /\ seen = Shown(written)
       /\ concealed = Upto(Concealed(written), Least(HiddenLimit, Len(Concealed(written))))
=============================================================================
