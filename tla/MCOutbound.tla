----------------------------- MODULE MCOutbound -----------------------------
EXTENDS Outbound, TLC

\* The sending threads are interchangeable in the safety runs.
Symmetry == Permutations(Procs)
=============================================================================
