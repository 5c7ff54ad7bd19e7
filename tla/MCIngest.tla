------------------------------ MODULE MCIngest ------------------------------
\* Model values of Ingest for TLC.
EXTENDS Ingest, TLC

\* Uploads, documents, workers and request slots are interchangeable.
Symmetry == Permutations(Ingests) \cup Permutations(Documents)
              \cup Permutations(Workers) \cup Permutations(Admins)
=============================================================================
