---------------------------- MODULE CenterTrades ----------------------------
(***************************************************************************)
(* The material of the centers on its way out: purchase orders of          *)
(* companies (accepted, dispatched, received and certified), direct        *)
(* dispatches, and sales of consolidated batches.  It completes the        *)
(* centers' specification: inventory, batches and trades over the same     *)
(* stock.                                                                  *)
(*                                                                         *)
(* acceptTransfer locks the stock row before it checks; the direct         *)
(* dispatch reads it without a lock in its transaction, the sale before    *)
(* its transaction.                                                        *)
(***************************************************************************)
EXTENDS CenterBatches

CONSTANTS
    Orders,      \* b2b_transfers the database can hand out
    Shrink       \* SHRINK_FACTOR in percent (5 in the code)

AllCalls == {"movement", "dispatch", "reroute", "receive", "approve", "dispute", "resolve",
             "fiat", "consolidate", "request", "accept", "deliver", "direct", "sell"}

ASSUME TradesOK ==
    /\ Calls \subseteq AllCalls
    /\ None \notin Orders /\ Shrink \in 0..100

VARIABLES
    order,       \* b2b_transfers
    dispatched,  \* times material left a center for an order
    certified    \* certificates created for an order

tradeVars == <<order, dispatched, certified>>
vars == <<inventoryVars, batchVars, tradeVars>>

OrderStatus == {"NONE", "REQUESTED", "ACCEPTED", "DELIVERED"}
NoOrder == [status |-> "NONE", center |-> None]

Init ==
    /\ InventoryInit
    /\ BatchesInit
    /\ order = [o \in Orders |-> NoOrder]
    /\ dispatched = [o \in Orders |-> 0]
    /\ certified = [o \in Orders |-> 0]

TypeOK ==
    /\ stock \in [Centers -> Int \cup {None}]
    /\ ins \in [Centers -> Nat] /\ outs \in [Centers -> Nat]
    /\ DOMAIN session = Sessions
    /\ overrun \subseteq Centers /\ crashes \in 0..MaxCrashes
    /\ batch \in [Batches -> [status: Status, center: Centers, kg: Nat,
                              lot: Lots \cup {None}, fiat: BOOLEAN]]
    /\ lot \in [Lots -> [status: LotStatus, center: Centers \cup {None}, total: Nat]]
    /\ job \in [Batches -> [state: JobState, center: Centers \cup {None}, kg: Nat,
                            attempts: 0..MaxAttempts, stalls: 0..MaxStalls]]
    /\ approved \subseteq Batches /\ booked \in [Batches -> Seq(Nat)]
    /\ order \in [Orders -> [status: OrderStatus, center: Centers \cup {None}]]
    /\ dispatched \in [Orders -> Nat] /\ certified \in [Orders -> Nat]

-----------------------------------------------------------------------------
(* The two checks of every exit. *)

Enough(c, w) == stock[c] # None /\ stock[c] >= w

\* Exits stay within the entries less the shrinkage.
MassBalance(c, w) == 100 * (outs[c] + w) <= (100 - Shrink) * ins[c]

\* acceptTransfer asks for it only of a center that has entries.
KeepsMass(c, w) == ins[c] > 0 => MassBalance(c, w)

\* UPDATE ... SET status of the order, with what the material's exit brings.
Leaves(o, c, w) ==
    /\ Book(c, 0, w)
    /\ order' = [order EXCEPT ![o] = [status |-> "ACCEPTED", center |-> c]]
    /\ dispatched' = [dispatched EXCEPT ![o] = @ + 1]

-----------------------------------------------------------------------------
(* Purchase orders. *)

\* createPurchaseRequest
RequestOrder(o, c) ==
    /\ "request" \in Calls
    /\ order[o].status = "NONE"
    /\ order' = [order EXCEPT ![o] = [status |-> "REQUESTED", center |-> c]]
    /\ UNCHANGED <<inventoryVars, batchVars, dispatched, certified>>

\* acceptTransfer, before its transaction.
ReadForAccept(s, o, w) ==
    /\ order[o].status = "REQUESTED"
    /\ Begin(s, "accept", Step("accept", o, order[o].center, w, None))
    /\ UNCHANGED <<bookVars, overrun, crashes, batchVars, tradeVars>>

\* Variant of CanLock that does not wait for the holder of the row.
NeverWaits(c) == TRUE

CanLock(c) == Unlocked(c)

\* FOR UPDATE, the sums of the movements, both checks.  A row that is not there
\* cannot be locked: what follows then reads without a lock.
AcceptLock(s) ==
    LET c == session[s].center
        w == session[s].kg
    IN  /\ At(s, "accept")
        /\ CanLock(c)
        /\ IF stock[c] = None THEN GoOn(s, "acceptRead")
           ELSE IF KeepsMass(c, w) /\ Enough(c, w) THEN GoOn(s, "acceptCommit")
           ELSE Finish(s)
        /\ UNCHANGED <<bookVars, overrun, crashes, batchVars, tradeVars>>

\* The fallback: the row, which may be there by now, ...
AcceptRead(s) ==
    LET c == session[s].center
    IN  /\ At(s, "acceptRead")
        /\ IF Enough(c, session[s].kg)
           THEN session' = [session EXCEPT ![s].kind = "acceptSums",
                                           ![s].seen = [kg |-> stock[c], outs |-> outs[c]]]
           ELSE Finish(s)
        /\ UNCHANGED <<bookVars, overrun, crashes, batchVars, tradeVars>>

\* ... then the sums.  (The entries are read before the exits; what passes the
\* check so passes it when both are read with the exits.)
AcceptSums(s) ==
    /\ At(s, "acceptSums")
    /\ IF KeepsMass(session[s].center, session[s].kg) THEN GoOn(s, "acceptUnlocked")
       ELSE Finish(s)
    /\ UNCHANGED <<bookVars, overrun, crashes, batchVars, tradeVars>>

AcceptUnlocked(s) ==
    /\ At(s, "acceptUnlocked")
    /\ Unlocked(session[s].center)
    /\ Leaves(session[s].id, session[s].center, session[s].kg)
    /\ Finish(s)
    /\ UNCHANGED <<overrun, crashes, batchVars, certified>>

AcceptCommit(s) ==
    /\ At(s, "acceptCommit")
    /\ Leaves(session[s].id, session[s].center, session[s].kg)
    /\ Finish(s)
    /\ UNCHANGED <<overrun, crashes, batchVars, certified>>

\* receiveTransfer, its read.
ReadForDelivery(s, o) ==
    /\ order[o].status = "ACCEPTED"
    /\ Begin(s, "deliver", Step("deliver", o, order[o].center, 0, None))
    /\ UNCHANGED <<bookVars, overrun, crashes, batchVars, tradeVars>>

\* Variant of StillAccepted that trusts the read before.
OnceSeenAccepted(o) == TRUE

StillAccepted(o) == order[o].status = "ACCEPTED"

\* UPDATE ... WHERE status = 'ACCEPTED': without a row it is a conflict.
ClaimDelivery(s) ==
    LET o == session[s].id
    IN  /\ At(s, "deliver")
        /\ IF StillAccepted(o)
           THEN /\ order' = [order EXCEPT ![o].status = "DELIVERED"]
                /\ GoOn(s, "certify")
           ELSE UNCHANGED order /\ Finish(s)
        /\ UNCHANGED <<bookVars, overrun, crashes, batchVars, dispatched, certified>>

\* The upload of the certificate's data and the certificate.
Certify(s) ==
    /\ At(s, "certify")
    /\ certified' = [certified EXCEPT ![session[s].id] = @ + 1]
    /\ Finish(s)
    /\ UNCHANGED <<bookVars, overrun, crashes, batchVars, order, dispatched>>

-----------------------------------------------------------------------------
(* Direct dispatches and sales. *)

\* createTransfer: the stock is read in the transaction, without a lock.
ReadForDirect(s, c, w) ==
    /\ Enough(c, w)
    /\ Begin(s, "direct", Step("direct", None, c, w, None))
    /\ UNCHANGED <<bookVars, overrun, crashes, batchVars, tradeVars>>

WriteDirect(s, o) ==
    /\ At(s, "direct")
    /\ order[o].status = "NONE"
    /\ Unlocked(session[s].center)
    /\ Leaves(o, session[s].center, session[s].kg)
    /\ Finish(s)
    /\ UNCHANGED <<overrun, crashes, batchVars, certified>>

\* createSale, with a lot of any center or without one.
ReadForSale(s, c, w, l) ==
    /\ MassBalance(c, w) /\ Enough(c, w)
    /\ Begin(s, "sell", Step("sell", l, c, w, None))
    /\ UNCHANGED <<bookVars, overrun, crashes, batchVars, tradeVars>>

\* A lot that is not there fails the transaction.
WriteSale(s) ==
    LET l == session[s].id
    IN  /\ At(s, "sell")
        /\ Unlocked(session[s].center)
        /\ IF l # None /\ lot[l].status = "NONE"
           THEN UNCHANGED <<bookVars, lot>>
           ELSE /\ Book(session[s].center, 0, session[s].kg)
                /\ lot' = [x \in Lots |-> IF x = l THEN [lot[x] EXCEPT !.status = "SOLD"]
                                          ELSE lot[x]]
        /\ Finish(s)
        /\ UNCHANGED <<overrun, crashes, batch, job, approved, booked, tradeVars>>

TradesNext ==
    \/ \E o \in Orders, c \in Centers : RequestOrder(o, c)
    \/ \E s \in Sessions, o \in Orders, w \in Weights : ReadForAccept(s, o, w)
    \/ \E s \in Sessions :
          \/ AcceptLock(s) \/ AcceptCommit(s) \/ AcceptRead(s) \/ AcceptSums(s)
          \/ AcceptUnlocked(s) \/ ClaimDelivery(s) \/ Certify(s)
    \/ \E s \in Sessions, o \in Orders : ReadForDelivery(s, o) \/ WriteDirect(s, o)
    \/ \E s \in Sessions, c \in Centers, w \in Weights :
          ReadForDirect(s, c, w) \/ \E l \in Lots \cup {None} : ReadForSale(s, c, w, l)
    \/ \E s \in Sessions : WriteSale(s)

Next ==
    \/ InventoryNext /\ UNCHANGED <<batchVars, tradeVars>>
    \/ BatchesNext /\ UNCHANGED tradeVars
    \/ TradesNext

Spec == Init /\ [][Next]_vars

\* The workers of the queue go on as long as the process runs.  While no
\* transaction holds the row forever, neither does a handler inside one.
Fairness ==
    /\ \A b \in Batches : WF_vars(Worker(b) /\ UNCHANGED tradeVars)
    /\ \A s \in Sessions : WF_vars(AcceptCommit(s))
FairSpec == Spec /\ Fairness

-----------------------------------------------------------------------------
\* acceptTransfer decrements atomically "con bloqueo pesimista": when it commits,
\* the stock covers the dispatch and the exits keep the mass balance, although
\* sales, direct dispatches, movements and jobs ran since its checks.  Where it
\* found no row to lock, only an exit since it read the row that came up meanwhile,
\* or a movement by hand over a changed row, can make its checks wrong.
StillCovered(c) ==
    stock'[c] >= 0 /\ (ins'[c] > 0 => 100 * outs'[c] <= (100 - Shrink) * ins'[c])
DispatchIsCovered ==
    [][\A s \in Sessions :
          LET c == session[s].center
          IN  /\ AcceptCommit(s) => StillCovered(c)
              /\ AcceptUnlocked(s) =>
                    StillCovered(c) \/ outs[c] > session[s].seen.outs \/ c \in overrun]_vars

\* What the companies are promised: no certificate without material that left a
\* center for it, even when an order is accepted twice or received twice at once.
Trade == INSTANCE CertifiedTrade WITH
            shelf <- [c \in Centers |-> ins[c] - outs[c]],
            open <- [o \in Orders |-> dispatched[o] - certified[o]]
CertifiedTradeSpec == Trade!Spec
=============================================================================
