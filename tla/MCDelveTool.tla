----------------------------- MODULE MCDelveTool -----------------------------
(* Symmetry for the runs of DelveTool. *)
EXTENDS DelveTool, TLC

\* Goroutines, sessions, pids and ids are interchangeable.
SafetySymmetry ==
    Permutations(Calls) \cup Permutations(Sessions) \cup Permutations(Pids)
        \cup Permutations(Ids)
=============================================================================
