-------------------------- MODULE MCWorkspaceLease --------------------------
EXTENDS WorkspaceLease, TLC

(* A kill may come at any point of a command, or not between the creation  *)
(* of a file and the writing of its content.                               *)
Everywhere == Points \ {"done", "crashed"}
OutsideWrites == Everywhere \ {"ownwrite", "claimWrite"}

Symmetry == Permutations(Respawning)
            \cup Permutations(Proc \ (Ghost \cup Respawning))
            \cup Permutations(DirId)
=============================================================================
