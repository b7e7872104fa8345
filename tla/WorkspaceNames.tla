--------------------------- MODULE WorkspaceNames ---------------------------
(* The names that the mission ledger and the workspace share. *)

CONSTANTS
  Paths,      \* workspace-relative file names
  PyPaths,    \* those that end in .py
  Requests    \* ids of deletion reviews

ASSUME NamesAssumption == PyPaths \subseteq Paths
=============================================================================
