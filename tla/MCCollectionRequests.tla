------------------------ MODULE MCCollectionRequests ------------------------
(* Small instances of CollectionRequests for TLC. *)
EXTENDS CollectionRequests, TLC

FlatPrice == [c \in Centers |-> 1]
NoDeposits == [c \in Collectors |-> 0]
Deposited == [c \in Collectors |-> 14]
Interchangeable ==
    Permutations(Sessions) \cup Permutations(Collectors) \cup Permutations(Centers)
        \cup Permutations(Requests) \cup Permutations(Bids) \cup Permutations(Batches)
=============================================================================
