--------------------------- MODULE MCConcurrency ---------------------------
EXTENDS Concurrency, TLC

CONSTANTS list, owner

InOneList == [e \in Entries |-> list]
OfOneOwner == [l \in Lists |-> owner]
RequestSymmetry == Permutations(Requests)
=============================================================================
