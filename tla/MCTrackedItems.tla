----------------------------- MODULE MCTrackedItems -----------------------------
\* One item, and two commands, directives or messages at once about it.
EXTENDS TrackedItems, TLC
CONSTANTS i1, t1, t2

OneItem == {i1}
TwoJobs == {t1, t2}
Interchangeable == Permutations(TwoJobs)
================================================================================
