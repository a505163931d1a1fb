-------------------------- MODULE MCKnowledgeStore --------------------------
EXTENDS KnowledgeStore, TLC

Symmetry == Permutations(Process)
=============================================================================
