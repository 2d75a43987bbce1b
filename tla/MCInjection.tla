------------------------------ MODULE MCInjection ------------------------------
\* Three follow-ups: enough for one being delivered, one accepted behind it and
\* one still in the inject channel.
EXTENDS Injection, TLC
CONSTANTS m1, m2, m3

ThreeMessages == {m1, m2, m3}
Symmetry == Permutations(ThreeMessages)
================================================================================
