------------------------- MODULE MCRunnerLifecycle --------------------------
EXTENDS RunnerLifecycle, TLC

Symmetry == Permutations(Keys) \cup Permutations(Handlers) \cup Permutations(Tasks)
=============================================================================
