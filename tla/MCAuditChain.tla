---------------------------- MODULE MCAuditChain ----------------------------
\* Model values of AuditChain for TLC.
EXTENDS AuditChain, TLC

\* Processes, routes modules and events are interchangeable.
Symmetry == Permutations(Processes) \cup Permutations(Modules)
              \cup Permutations(Events)
=============================================================================
