----------------------------- MODULE MCLspServer -----------------------------
EXTENDS LspServer, TLC

\* Request instances and ids are interchangeable in the safety runs.
Symmetry == Permutations(Reqs) \cup Permutations(Ids)
=============================================================================
