----------------------------- MODULE MCRunSignals -----------------------------
\* A run loop's wait, an approval's wait and a compaction's wait on one queue.
EXTENDS RunSignals
CONSTANTS t1, t2, main, approval, compaction

MCSetters == {t1, t2}
MCWaiters == {main, approval, compaction}
MCKind == [w \in MCWaiters |-> CASE w = main -> "changed"
                                 [] w = approval -> "stopped"
                                 [] w = compaction -> "cancelled"]
==============================================================================
