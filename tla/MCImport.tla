------------------------------ MODULE MCImport ------------------------------
(* An instance of LegacyImport for TLC. *)
EXTENDS LegacyImport

\* Two messages of the text file, one of them short, and the same two and a third of the
\* database.
MCCandidates == <<"A", "ok", "A", "ok", "B">>
=============================================================================
