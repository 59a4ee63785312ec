-------------------------- MODULE CenterInventory --------------------------
(***************************************************************************)
(* The stock of the collection centers: the inventory_items row of every   *)
(* center, the entries of the Kardex beside it, and the endpoint that      *)
(* books a movement by hand.  Materials are of one kind here, weights are  *)
(* whole kilograms.                                                        *)
(*                                                                         *)
(* The batches that are weighed in (CenterBatches) and the material that   *)
(* is traded out (CenterTrades) work on the same rows, in the same         *)
(* sessions.                                                               *)
(***************************************************************************)
EXTENDS Integers, FiniteSets

CONSTANTS
    Centers,    \* users with the role CENTRO_ACOPIO
    Sessions,   \* handlers that can be in flight at once
    None,       \* a NULL column, a row that is not there
    Calls,      \* endpoints the clients call
    Weights,    \* weights that are entered, in kg
    Opening,    \* stock a center starts with: [Centers -> Nat \cup {None}]
    MaxIn,      \* bound on the kilograms booked into one center
    MaxCrashes  \* bound on the handlers that end half-way

ASSUME InventoryOK ==
    /\ None \notin Centers \cup Sessions \cup Int
    /\ Weights \subseteq Nat \ {0}
    /\ Opening \in [Centers -> Nat \cup {None}]
    /\ MaxIn \in Nat /\ MaxCrashes \in Nat

VARIABLES
    stock,    \* inventory_items.quantityKg of a center, None without the row
    ins,      \* sum of the IN movements of a center
    outs,     \* sum of the OUT movements of a center
    session,  \* continuation of every handler in flight
    overrun,  \* centers whose row changed under a movement booked by hand
    crashes   \* handlers that ended half-way

bookVars == <<stock, ins, outs>>
inventoryVars == <<stock, ins, outs, session, overrun, crashes>>

-----------------------------------------------------------------------------
(* Sessions: kind is the step to come, id the row, center and kg what the  *)
(* request carries, seen what was read before the await.                   *)

Idle == [kind |-> "idle", id |-> None, center |-> None, kg |-> 0, seen |-> None]
Step(kind, id, center, kg, seen) ==
    [kind |-> kind, id |-> id, center |-> center, kg |-> kg, seen |-> seen]

Begin(s, call, step) ==
    /\ call \in Calls
    /\ session[s] = Idle
    /\ session' = [session EXCEPT ![s] = step]
At(s, kind) == session[s].kind = kind
GoOn(s, kind) == session' = [session EXCEPT ![s].kind = kind]
Finish(s) == session' = [session EXCEPT ![s] = Idle]

\* SELECT ... FOR UPDATE of acceptTransfer: the only lock held over an await.
Holders(c) == {s \in Sessions : At(s, "acceptCommit") /\ session[s].center = c}
Unlocked(c) == Holders(c) = {}

Kg(quantity) == IF quantity = None THEN 0 ELSE quantity

\* Variant of Book that sells without a movement in the Kardex.
BookEntriesOnly(c, in, out) ==
    /\ stock' = [stock EXCEPT ![c] = Kg(@) + in - out]
    /\ ins' = [ins EXCEPT ![c] = @ + in]
    /\ UNCHANGED outs

\* increment or decrement of the row and the movement beside it, in one transaction
Book(c, in, out) ==
    /\ stock' = [stock EXCEPT ![c] = Kg(@) + in - out]
    /\ ins' = [ins EXCEPT ![c] = @ + in]
    /\ outs' = [outs EXCEPT ![c] = @ + out]

InventoryInit ==
    /\ stock = Opening
    /\ ins = [c \in Centers |-> Kg(Opening[c])]
    /\ outs = [c \in Centers |-> 0]
    /\ session = [s \in Sessions |-> Idle]
    /\ overrun = {}
    /\ crashes = 0

-----------------------------------------------------------------------------
(* InventoryService.createMovement: the row is read before the transaction *)
(* and written back as the quantity read plus or minus the movement.       *)

ReadForMovement(s, c, type, w) ==
    /\ type = "OUT" => stock[c] # None /\ stock[c] >= w
    /\ type = "IN" => ins[c] + w <= MaxIn
    /\ Begin(s, "movement", Step(type, None, c, w, stock[c]))
    /\ UNCHANGED <<bookVars, overrun, crashes>>

\* A second row of a center breaks the unique index and the transaction fails.
WriteMovement(s) ==
    LET c == session[s].center
        w == session[s].kg
        in == IF At(s, "IN") THEN w ELSE 0
        out == IF At(s, "OUT") THEN w ELSE 0
    IN  /\ session[s].kind \in {"IN", "OUT"}
        /\ Unlocked(c)
        /\ IF session[s].seen = None /\ stock[c] # None
           THEN UNCHANGED <<bookVars, overrun>>
           ELSE /\ stock' = [stock EXCEPT ![c] = Kg(session[s].seen) + in - out]
                /\ ins' = [ins EXCEPT ![c] = @ + in]
                /\ outs' = [outs EXCEPT ![c] = @ + out]
                /\ overrun' = IF stock[c] = session[s].seen THEN overrun
                              ELSE overrun \cup {c}
        /\ Finish(s)
        /\ UNCHANGED crashes

\* The process ends, or the database refuses: what is left of a handler is gone.
HandlerStops(s) ==
    /\ session[s] # Idle
    /\ crashes < MaxCrashes
    /\ crashes' = crashes + 1
    /\ Finish(s)
    /\ UNCHANGED <<bookVars, overrun>>

InventoryNext ==
    \/ \E s \in Sessions, c \in Centers, type \in {"IN", "OUT"}, w \in Weights :
          ReadForMovement(s, c, type, w)
    \/ \E s \in Sessions : WriteMovement(s)
    \/ \E s \in Sessions : HandlerStops(s)

-----------------------------------------------------------------------------
\* The stock of a center is what its Kardex says: entries less exits, however
\* batches, sales, transfers and repeated jobs interleave.  Only a movement booked
\* by hand over a row that changed meanwhile can part the two, since it writes the
\* quantity and not the difference.
StockIsKardex ==
    \A c \in Centers : c \in overrun \/ Kg(stock[c]) = ins[c] - outs[c]

=============================================================================
