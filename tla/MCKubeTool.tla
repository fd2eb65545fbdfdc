----------------------------- MODULE MCKubeTool -----------------------------
(* Symmetry for the safety run of KubeTool. *)
EXTENDS KubeTool, TLC

ToolSymmetry ==
    Permutations(Callers) \cup Permutations(Connectors)
        \cup Permutations(Cmds) \cup Permutations(Pids)
=============================================================================
