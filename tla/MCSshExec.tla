----------------------------- MODULE MCSshExec -----------------------------
(* SshExec for TLC: calls, paths and process numbers are interchangeable. *)
EXTENDS SshExec, TLC

Symmetry == Permutations(Calls) \cup Permutations(Paths) \cup Permutations(Pids)

=============================================================================
