---------------------------- MODULE MCMemoryItems ---------------------------
(* Instances of MemoryItems for TLC. *)
EXTENDS MemoryItemsProperties, TLC

\* The requests are alike; so would the users be, but for the admins.
Interchangeable == Permutations(Requests)
=============================================================================
