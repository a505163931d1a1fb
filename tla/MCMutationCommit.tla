-------------------------- MODULE MCMutationCommit --------------------------
EXTENDS MutationCommit, TLC

Everywhere == Points \ {"done", "crashed"}

Symmetry == Permutations(Proc \ Ghost) \cup Permutations(DirId) \cup Permutations(Lane)
=============================================================================
