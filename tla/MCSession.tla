----------------------------- MODULE MCSession -----------------------------
\* Model values of Session for TLC.
EXTENDS Session, TLC

\* Tabs, requests and pairs are interchangeable.
Symmetry == Permutations(Tabs) \cup Permutations(Requests) \cup Permutations(Pairs)
=============================================================================
