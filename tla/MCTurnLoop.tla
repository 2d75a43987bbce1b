------------------------------- MODULE MCTurnLoop ------------------------------
\* Small instances of TurnLoop: two questions of one signature, two pings.
EXTENDS TurnLoop
CONSTANTS q1, q2, bash

TwoQuestions == {q1, q2}
SameSignature == [q \in TwoQuestions |-> bash]
TwoClicks == {"always", "deny"}
QuietLines == {"prose", "extend"}
================================================================================
