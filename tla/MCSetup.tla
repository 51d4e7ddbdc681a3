-------------------------------- MODULE MCSetup --------------------------------
\* Windows, folders and jobs are interchangeable.
EXTENDS Setup, TLC

WindowSymmetry ==
  Permutations(Windows) \cup Permutations(Folders) \cup Permutations(Jobs)
=============================================================================
