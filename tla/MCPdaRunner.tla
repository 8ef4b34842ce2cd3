---------------------------- MODULE MCPdaRunner ----------------------------
EXTENDS PdaRunner, TLC

Symmetry == Permutations(Keys) \cup Permutations(Handlers) \cup Permutations(Tasks)
=============================================================================
