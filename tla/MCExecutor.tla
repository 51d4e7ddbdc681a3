----------------------------- MODULE MCExecutor -----------------------------
EXTENDS Executor, TLC

\* Jobs and Cores are interchangeable in every safety property.
Symmetric == Permutations(Jobs) \cup Permutations(Cores) \cup Permutations(Keys)
=============================================================================
