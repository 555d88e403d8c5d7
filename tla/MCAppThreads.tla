---------------------------- MODULE MCAppThreads ----------------------------
\* AppThreads with the bounds of AppThreads.cfg.  The threads of each kind are
\* interchangeable.
EXTENDS AppThreads, TLC

ThreadSymmetry == Permutations(ReadThreads) \cup Permutations(Writers) \cup Permutations(ThunkThreads)
=============================================================================
