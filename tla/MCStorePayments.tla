-------------------------- MODULE MCStorePayments --------------------------
(* Small instances of StorePayments for TLC. *)
EXTENDS StorePayments, TLC

\* A buyer starts with 4 half tokens, all of them minted; a store with nothing.
BuyersHaveFour == [u \in Buyers \cup Stores |-> IF u \in Buyers THEN 4 ELSE 0]
RewardsMinted == [u \in Buyers |-> 4]

\* One buyer can afford a single redemption of 2.  The other can afford two, but only
\* with rewards that the database counts and the chain never received.
Poorer == CHOOSE u \in Buyers : TRUE
ThreeAndTwo == [a \in Buyers \cup Stores |->
                  IF a = Poorer THEN 3 ELSE IF a \in Buyers THEN 2 ELSE 0]
ThreeAndFour == [RewardsMinted EXCEPT ![Poorer] = 3]

Alike == Permutations(Sessions) \cup Permutations(Redemptions)
=============================================================================
