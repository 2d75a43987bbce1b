---------------------------- MODULE MCPullRequests -----------------------------
\* A small instance of PullRequests: one pull request, of the project's checkout,
\* and an item it may deliver.
EXTENDS PullRequests, TLC
CONSTANTS own, i1, t1, t2

OnePull == {own}
ItsNumber == [p \in OnePull |-> 7]
OwnCheckout == {own}
OneItem == {i1}
TwoTasks == {t1, t2}
Symmetry == Permutations(TwoTasks)
================================================================================
