------------------------------ MODULE MCGraphLease ------------------------------
EXTENDS GraphLease, TLC
WorkerSymmetry == Permutations(Workers)
================================================================================
