----------------------------- MODULE MCFoundryGraph -----------------------------
EXTENDS FoundryGraph, TLC
WorkerSymmetry == Permutations(Workers)
================================================================================
