--------------------------- MODULE CertifiedTrade ---------------------------
(***************************************************************************)
(* What the trade of recycled material promises, whatever the endpoints    *)
(* that carry it out: material enters and leaves the shelves of a center,  *)
(* an order is dispatched by taking its material off a shelf in the same   *)
(* step, and a certificate is given for a dispatch that has none yet.      *)
(***************************************************************************)
EXTENDS Integers

CONSTANTS Centers, Orders

VARIABLES
    shelf,     \* material of a center, in kg: [Centers -> Int]
    open,      \* dispatches of an order without a certificate: [Orders -> Nat]
    certified  \* certificates of an order: [Orders -> Nat]

vars == <<shelf, open, certified>>

Init ==
    /\ shelf \in [Centers -> Nat]
    /\ open = [o \in Orders |-> 0]
    /\ certified = [o \in Orders |-> 0]

Moves(c) == \A d \in Centers \ {c} : shelf'[d] = shelf[d]
Enter(c) == Moves(c) /\ shelf'[c] > shelf[c] /\ UNCHANGED <<open, certified>>
Leave(c) == Moves(c) /\ shelf'[c] < shelf[c] /\ UNCHANGED <<open, certified>>

Dispatch(o, c) ==
    /\ Moves(c) /\ shelf'[c] < shelf[c]
    /\ open' = [open EXCEPT ![o] = @ + 1]
    /\ UNCHANGED certified

Certify(o) ==
    /\ open[o] > 0
    /\ open' = [open EXCEPT ![o] = @ - 1]
    /\ certified' = [certified EXCEPT ![o] = @ + 1]
    /\ UNCHANGED shelf

Next ==
    \/ \E c \in Centers : Enter(c) \/ Leave(c) \/ \E o \in Orders : Dispatch(o, c)
    \/ \E o \in Orders : Certify(o)

Spec == Init /\ [][Next]_vars
=============================================================================
