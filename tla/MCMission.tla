----------------------------- MODULE MCMission -----------------------------
(* Instances of Mission for TLC. *)
EXTENDS Mission, TLC

MCEvidence == ResultKinds \X (Contents \cup {Absent})

\* Beyond what MaxInputs turns can record.
MCMaxSeq == [t \in Tasks |-> 99]

MCSymmetry == Permutations(Tasks) \cup Permutations(Contents) \cup Permutations(Requests)

=============================================================================
