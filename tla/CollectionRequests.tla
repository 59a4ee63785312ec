------------------------- MODULE CollectionRequests -------------------------
(***************************************************************************)
(* The life of a collection request: the endpoints of CollectionsService   *)
(* (lifecycle, auction, tracking, verification) and the timeout worker,    *)
(* over the tables collection_requests, acopio_bids and batches and the    *)
(* Redis keys of the verification lock, the PIN attempts and the route.    *)
(*                                                                         *)
(* An endpoint is an asynchronous function that reads a row, checks it and *)
(* later writes it by primary key.  Nothing holds the row in between, so   *)
(* every await at which the row can change is a step boundary here: the    *)
(* first action of an endpoint reads and checks and leaves a continuation  *)
(* in a session, the later ones run it.  A call that is refused (an        *)
(* exception before the first write) has no effect and is not a step.      *)
(***************************************************************************)
EXTENDS Integers, FiniteSets, FiniteSetsExt

CONSTANTS
    Requests, Bids, Batches,         \* row identities the database can hand out
    Households, Collectors, Centers, \* users; every collector has KYC approved
    None,                            \* a NULL column, an absent Redis key
    Sessions,                        \* handlers that can be in flight at once
    Calls,                           \* endpoints the clients call
    Scans,                           \* scans the timeout worker runs
    Modes,                           \* assignment modes households ask for
    Donations,                       \* values of isDonation: a subset of BOOLEAN
    Items,                           \* total weights a request can have
    Price,                           \* tariff of a center: [Centers -> Nat]
    Deposits,                        \* completed Izipay deposits: [Collectors -> Nat]
    StartScore,                      \* reputation of a household at the start
    StartBalance,                    \* on-chain balance of a collector at the start
    MaxBalance,                      \* bound on that balance
    MaxAttempts,                     \* wrong PINs before the block (5 in the code)
    MaxCrashes,                      \* process crashes in a behaviour
    MaxOutlived,                     \* verifications that outlive the lock of a request
    CompletionColumns                \* the columns the completing UPDATE sets exist

AllCalls == {"create", "accept", "cancel", "abandon", "edit", "noShow", "reject",
             "startRoute", "reach", "location", "bid", "withdraw", "select",
             "claim", "verify", "dispatch"}
AllScans == {"pending", "auction", "inactive", "arrived"}

ASSUME NoneIsNoId ==
    None \notin Requests \cup Bids \cup Batches \cup Households \cup Collectors \cup Centers
ASSUME ConfigurationOK ==
    /\ Calls \subseteq AllCalls
    /\ Scans \subseteq AllScans
    /\ Modes \subseteq {"AUTOMATIC", "AUCTION"}
    /\ Donations \subseteq BOOLEAN
    /\ Items \subseteq Nat \ {0}
    /\ Price \in [Centers -> Nat]
    /\ Deposits \in [Collectors -> Nat]
    /\ StartScore \in 2..10
    /\ StartBalance \in Nat
    /\ MaxBalance \in Nat
    /\ StartBalance <= MaxBalance
    /\ MaxAttempts \in Nat \ {0}
    /\ MaxCrashes \in Nat
    /\ IsFiniteSet(Sessions)
    /\ MaxOutlived \in Nat
    /\ CompletionColumns \in BOOLEAN

VARIABLES
    req,        \* collection_requests
    bid,        \* acopio_bids
    batch,      \* batches, as far as OPEN and IN_TRANSIT
    session,    \* continuation of every handler in flight
    queried,    \* scans of this worker cycle whose query has run
    todo,       \* rows the scans returned and have not finished with
    pinLock,    \* lock:verify:pin:<id> exists
    attempts,   \* attempts:pin:<id>
    routeMeta,  \* collector in collection:active:<id>
    outlived,   \* times the lock ran out under a verification of the request
    balance,    \* on-chain balance of a collector
    score,      \* reputationScore of a household, in half stars
    credited,   \* times a household was credited for a request, saturating at 2
    compensated,\* times a household paid a no-show compensation, saturating at 2
    crashes     \* crashes so far

requestVars == <<req, bid, batch>>
workerVars == <<queried, todo>>
redisVars == <<pinLock, attempts, routeMeta, outlived>>
moneyVars == <<balance, score, credited, compensated>>
vars == <<req, bid, batch, session, queried, todo, pinLock, attempts, routeMeta,
          outlived, balance, score, credited, compensated, crashes>>

-----------------------------------------------------------------------------
(* Rows and continuations. *)

Status == {"NONE", "PENDING", "AUCTION_ACTIVE", "AUCTION_ASSIGNED", "ACCEPTED",
           "EN_ROUTE", "ARRIVED", "COMPLETED", "CANCELLED", "UNATTENDED",
           "REJECTED_ON_SITE"}
Unassigned == {"PENDING", "AUCTION_ACTIVE", "AUCTION_ASSIGNED"}
InService == {"ACCEPTED", "EN_ROUTE", "ARRIVED"}
Open == Unassigned \cup InService
Terminal == {"COMPLETED", "CANCELLED", "UNATTENDED", "REJECTED_ON_SITE"}

BidStatus == {"NONE", "PENDING", "ACCEPTED", "REJECTED", "WITHDRAWN", "EXPIRED"}

\* status "NONE" is a row that does not exist yet.  center stands for the pair
\* assignedCenterId, agreedRates, which the code always writes together.  age
\* counts quarters of an hour since createdAt; wait counts five-minute spells
\* since updatedAt (of an ACCEPTED row) or arrivedAt (of an ARRIVED one).
RequestRow == [status: Status, mode: {"AUTOMATIC", "AUCTION"},
               household: Households \cup {None}, items: Nat, donation: BOOLEAN,
               collector: Collectors \cup {None}, center: Centers \cup {None},
               escrow: Nat, batch: Batches \cup {None},
               enRouteAt: BOOLEAN, arrivedAt: BOOLEAN, noShowFee: BOOLEAN,
               age: 0..2, wait: 0..2]
BidRow == [status: BidStatus, req: Requests \cup {None}, center: Centers \cup {None}]
BatchRow == [status: {"NONE", "OPEN", "IN_TRANSIT"},
             collector: Collectors \cup {None}, center: Centers \cup {None}]

NoRequest == [status |-> "NONE", mode |-> "AUTOMATIC", household |-> None, items |-> 0,
              donation |-> FALSE, collector |-> None, center |-> None, escrow |-> 0,
              batch |-> None, enRouteAt |-> FALSE, arrivedAt |-> FALSE,
              noShowFee |-> FALSE, age |-> 0, wait |-> 0]
NoBid == [status |-> "NONE", req |-> None, center |-> None]
NoBatch == [status |-> "NONE", collector |-> None, center |-> None]

VerifyKinds == {"verifyRead", "verifyPay", "verifyFind", "verifyCreate",
                "verifyComplete", "verifyDone"}
Kinds == {"idle", "create", "acceptCheck", "accept", "cancel", "abandon", "edit",
          "noShow", "noShowEffects", "reject", "startRoute", "routeCache", "reach",
          "reachPurge", "bid", "withdraw", "selectCheck", "select", "claim",
          "dispatch"} \cup VerifyKinds

CollectorKinds == {"acceptCheck", "accept", "abandon", "startRoute", "routeCache",
                   "reach", "reachPurge", "noShow", "noShowEffects", "reject",
                   "dispatch"} \cup VerifyKinds

Users == Households \cup Collectors \cup Centers

\* What a handler holds in its local variables between two awaits.
Op == [kind: Kinds, req: Requests \cup {None}, user: Users \cup {None},
       center: Centers \cup {None}, bid: Bids \cup {None}, batch: Batches \cup {None},
       value: Nat, score: Nat]
Call(k, r, u) == [kind |-> k, req |-> r, user |-> u, center |-> None,
                  bid |-> None, batch |-> None, value |-> 0, score |-> 0]
Idle == Call("idle", None, None)

\* A row a scan returned, with the household's score read in the same query.
Task == [scan: AllScans \cup {"auctionRow", "arrivedScore"}, req: Requests, score: Nat]

Init ==
    /\ req = [r \in Requests |-> NoRequest]
    /\ bid = [b \in Bids |-> NoBid]
    /\ batch = [b \in Batches |-> NoBatch]
    /\ session = [s \in Sessions |-> Idle]
    /\ queried = Scans
    /\ todo = {}
    /\ pinLock = [r \in Requests |-> FALSE]
    /\ attempts = [r \in Requests |-> 0]
    /\ routeMeta = [r \in Requests |-> None]
    /\ outlived = [r \in Requests |-> 0]
    /\ balance = [c \in Collectors |-> StartBalance]
    /\ score = [h \in Households |-> StartScore]
    /\ credited = [r \in Requests |-> 0]
    /\ compensated = [r \in Requests |-> 0]
    /\ crashes = 0

\* A client's call is read and checked, and its handler goes on later.
Begin(s, call, op) ==
    /\ call \in Calls
    /\ session[s] = Idle
    /\ session' = [session EXCEPT ![s] = op]
Running(s, k) == session[s].kind = k
GoOn(s, op) == session' = [session EXCEPT ![s] = op]
Finish(s) == session' = [session EXCEPT ![s] = Idle]

\* UPDATE collection_requests ... WHERE id = r, whatever the row holds by now.
Update(r, row) == req' = [req EXCEPT ![r] = row]

-----------------------------------------------------------------------------
(* Rewards, in twentieths: a value v is worth 20 v, the household gets 25 %  *)
(* of it (5 v), the treasury 5 % (v) and the collector guarantees 70 %       *)
(* (14 v).  A donation is worth nothing.  A material without a rate counts   *)
(* at 1.0.                                                                   *)

Rate(c) == IF c \in Centers /\ Price[c] > 0 THEN Price[c] ELSE 1
Value(row, items) == IF row.donation THEN 0 ELSE items * Rate(row.center)
HouseholdAmount(v) == 5 * v
TreasuryAmount(v) == v
RequiredEscrow(v) == 14 * v

ActiveEscrow(c) ==
    MapThenSumSet(LAMBDA r : req[r].escrow,
                  {r \in Requests : req[r].collector = c /\ req[r].status \in InService})

\* validateCollectorSolvency: an unreadable balance reads as 0, and a balance
\* of 0 is replaced by the deposits.
Solvent(c, required) ==
    \/ required = 0
    \/ \E seen \in {balance[c], 0} :
          (IF seen = 0 THEN Deposits[c] ELSE seen) - ActiveEscrow(c) >= required

-----------------------------------------------------------------------------
(* The household's endpoints. *)

\* create: the household has no open request.  The photo upload and the user
\* lookup come before the INSERT.
Create(s, h) ==
    /\ \A r \in Requests : req[r].household = h => req[r].status \notin Open
    /\ Begin(s, "create", Call("create", None, h))
    /\ UNCHANGED <<requestVars, workerVars, redisVars, moneyVars, crashes>>

Created(m, h, i, d) ==
    [status |-> IF m = "AUCTION" THEN "AUCTION_ACTIVE" ELSE "PENDING", mode |-> m,
     household |-> h, items |-> i, donation |-> d, collector |-> None, center |-> None,
     escrow |-> 0, batch |-> None, enRouteAt |-> FALSE, arrivedAt |-> FALSE,
     noShowFee |-> FALSE, age |-> 0, wait |-> 0]

CreateInsert(s) ==
    /\ Running(s, "create")
    /\ \E r \in Requests, m \in Modes, i \in Items, d \in Donations :
          /\ req[r].status = "NONE"
          /\ Update(r, Created(m, session[s].user, i, d))
    /\ Finish(s)
    /\ UNCHANGED <<bid, batch, workerVars, redisVars, moneyVars, crashes>>

Cancelled(row) == [row EXCEPT !.status = "CANCELLED", !.escrow = 0, !.wait = 0]

\* updateStatus CANCELLED, by the household before a collector accepts, or by
\* the assigned collector whatever the status.
CancelByHousehold(s, h, r) ==
    /\ req[r].household = h
    /\ req[r].status \in Unassigned
    /\ Begin(s, "cancel", Call("cancel", r, h))
    /\ UNCHANGED <<requestVars, workerVars, redisVars, moneyVars, crashes>>

CancelByCollector(s, c, r) ==
    /\ req[r].collector = c
    /\ Begin(s, "cancel", Call("cancel", r, c))
    /\ UNCHANGED <<requestVars, workerVars, redisVars, moneyVars, crashes>>

CancelWrite(s) ==
    /\ Running(s, "cancel")
    /\ Update(session[s].req, Cancelled(req[session[s].req]))
    /\ Finish(s)
    /\ UNCHANGED <<bid, batch, workerVars, redisVars, moneyVars, crashes>>

\* editCollectionRequest: the UPDATE repeats the checks in its WHERE clause.
Edit(s, h, r) ==
    /\ req[r].household = h
    /\ req[r].status = "PENDING"
    /\ \E i \in Items : Begin(s, "edit", [Call("edit", r, h) EXCEPT !.value = i])
    /\ UNCHANGED <<requestVars, workerVars, redisVars, moneyVars, crashes>>

EditWrite(s) ==
    /\ Running(s, "edit")
    /\ LET r == session[s].req
       IN IF req[r].status = "PENDING" /\ req[r].household = session[s].user
          THEN Update(r, [req[r] EXCEPT !.items = session[s].value])
          ELSE UNCHANGED req
    /\ Finish(s)
    /\ UNCHANGED <<bid, batch, workerVars, redisVars, moneyVars, crashes>>

\* selectBid: read request and bid, then a transaction that reads the request
\* again and writes the bids and the request.  The transaction runs at READ
\* COMMITTED: its second read does not lock the row.
SelectBid(s, h, r, b) ==
    /\ req[r].household = h
    /\ req[r].status \in {"PENDING", "AUCTION_ACTIVE"}
    /\ bid[b].req = r
    /\ bid[b].status = "PENDING"
    /\ Begin(s, "select", [Call("selectCheck", r, h) EXCEPT !.bid = b])
    /\ UNCHANGED <<requestVars, workerVars, redisVars, moneyVars, crashes>>

SelectCheck(s) ==
    /\ Running(s, "selectCheck")
    /\ IF req[session[s].req].status \in {"PENDING", "AUCTION_ACTIVE"}
       THEN GoOn(s, [session[s] EXCEPT !.kind = "select"])
       ELSE Finish(s)
    /\ UNCHANGED <<requestVars, workerVars, redisVars, moneyVars, crashes>>

\* Variant of Selected that leaves the other bids alone.
SelectedOnly(b, r) == [bid EXCEPT ![b] = [@ EXCEPT !.status = "ACCEPTED"]]

\* The bids of r once b is selected.
Selected(b, r) ==
    [x \in Bids |-> IF x = b THEN [bid[x] EXCEPT !.status = "ACCEPTED"]
                    ELSE IF bid[x].req = r THEN [bid[x] EXCEPT !.status = "REJECTED"]
                    ELSE bid[x]]

SelectWrite(s) ==
    /\ Running(s, "select")
    /\ LET r == session[s].req
           b == session[s].bid
       IN /\ bid' = Selected(b, r)
          /\ Update(r, [req[r] EXCEPT !.status = "AUCTION_ASSIGNED",
                                      !.center = bid[b].center, !.wait = 0])
    /\ Finish(s)
    /\ UNCHANGED <<batch, workerVars, redisVars, moneyVars, crashes>>

-----------------------------------------------------------------------------
(* The center's endpoints. *)

\* submitBid: look for an earlier bid of this center, then update it or insert
\* a new one; any earlier status is replaced by PENDING.
SubmitBid(s, c, r) ==
    /\ req[r].status \in {"PENDING", "AUCTION_ACTIVE"}
    /\ req[r].mode = "AUCTION"
    /\ req[r].age = 0
    /\ LET own == {b \in Bids : bid[b].req = r /\ bid[b].center = c}
       IN \E b \in IF own = {} THEN {None} ELSE own :
             Begin(s, "bid", [Call("bid", r, c) EXCEPT !.bid = b])
    /\ UNCHANGED <<requestVars, workerVars, redisVars, moneyVars, crashes>>

SubmitBidWrite(s) ==
    /\ Running(s, "bid")
    /\ IF session[s].bid = None
       THEN \E b \in Bids :
               /\ bid[b].status = "NONE"
               /\ bid' = [bid EXCEPT ![b] = [status |-> "PENDING", req |-> session[s].req,
                                             center |-> session[s].user]]
       ELSE bid' = [bid EXCEPT ![session[s].bid] = [@ EXCEPT !.status = "PENDING"]]
    /\ Finish(s)
    /\ UNCHANGED <<req, batch, workerVars, redisVars, moneyVars, crashes>>

WithdrawBid(s, c, b) ==
    /\ bid[b].center = c
    /\ bid[b].status = "PENDING"
    /\ Begin(s, "withdraw", [Call("withdraw", None, c) EXCEPT !.bid = b])
    /\ UNCHANGED <<requestVars, workerVars, redisVars, moneyVars, crashes>>

WithdrawBidWrite(s) ==
    /\ Running(s, "withdraw")
    /\ bid' = [bid EXCEPT ![session[s].bid] = [@ EXCEPT !.status = "WITHDRAWN"]]
    /\ Finish(s)
    /\ UNCHANGED <<req, batch, workerVars, redisVars, moneyVars, crashes>>

\* claimAutomatic: takes a PENDING request that no center has; the write sets
\* the center and leaves the status alone.
ClaimAutomatic(s, c, r) ==
    /\ req[r].status = "PENDING"
    /\ req[r].mode = "AUTOMATIC"
    /\ req[r].center = None
    /\ Price[c] > 0
    /\ Begin(s, "claim", Call("claim", r, c))
    /\ UNCHANGED <<requestVars, workerVars, redisVars, moneyVars, crashes>>

ClaimWrite(s) ==
    /\ Running(s, "claim")
    /\ LET r == session[s].req
       IN Update(r, [req[r] EXCEPT !.center = session[s].user,
                                   !.wait = IF req[r].status = "ARRIVED" THEN @ ELSE 0])
    /\ Finish(s)
    /\ UNCHANGED <<bid, batch, workerVars, redisVars, moneyVars, crashes>>

-----------------------------------------------------------------------------
(* The collector's endpoints. *)

\* Variant of Assignable that forgets the center.
AssignableWithoutCenter(row) == row.status \in {"PENDING", "AUCTION_ASSIGNED"}

Assignable(row) == row.status \in {"PENDING", "AUCTION_ASSIGNED"} /\ row.center # None

\* updateStatus ACCEPTED: status and center are read first, the solvency later,
\* and the write is by id alone.
Accept(s, c, r) ==
    /\ Assignable(req[r])
    /\ Begin(s, "accept", [Call("acceptCheck", r, c) EXCEPT
                              !.value = RequiredEscrow(Value(req[r], req[r].items))])
    /\ UNCHANGED <<requestVars, workerVars, redisVars, moneyVars, crashes>>

AcceptCheck(s) ==
    /\ Running(s, "acceptCheck")
    /\ \/ /\ Solvent(session[s].user, session[s].value)
          /\ GoOn(s, [session[s] EXCEPT !.kind = "accept"])
       \/ Finish(s)
    /\ UNCHANGED <<requestVars, workerVars, redisVars, moneyVars, crashes>>

AcceptWrite(s) ==
    /\ Running(s, "accept")
    /\ LET r == session[s].req
       IN Update(r, [req[r] EXCEPT !.status = "ACCEPTED", !.collector = session[s].user,
                                   !.escrow = session[s].value, !.wait = 0])
    /\ Finish(s)
    /\ UNCHANGED <<bid, batch, workerVars, redisVars, moneyVars, crashes>>

\* Variants of Released: the guarantee stays, or the center goes too.
ReleasedKeepingHold(row) == [row EXCEPT !.status = "PENDING", !.collector = None, !.wait = 0]
ReleasedForgettingCenter(row) ==
    [row EXCEPT !.status = "PENDING", !.collector = None, !.center = None,
                !.escrow = 0, !.wait = 0]

\* The collector loses the request, and the request its collector.
Released(row) == [row EXCEPT !.status = "PENDING", !.collector = None,
                             !.escrow = 0, !.wait = 0]

\* abandonCollectionRequest
Abandon(s, c, r) ==
    /\ req[r].collector = c
    /\ req[r].status = "ACCEPTED"
    /\ Begin(s, "abandon", Call("abandon", r, c))
    /\ UNCHANGED <<requestVars, workerVars, redisVars, moneyVars, crashes>>

AbandonWrite(s) ==
    /\ Running(s, "abandon")
    /\ LET r == session[s].req
       IN Update(r, [Released(req[r]) EXCEPT !.batch = None])
    /\ Finish(s)
    /\ UNCHANGED <<bid, batch, workerVars, redisVars, moneyVars, crashes>>

\* startRoute: the write is followed by the key collection:active:<id>, which
\* names the collector of the row as written; with none there the lookup that
\* precedes the key fails.
StartRoute(s, c, r) ==
    /\ req[r].collector = c
    /\ req[r].status = "ACCEPTED"
    /\ Begin(s, "startRoute", Call("startRoute", r, c))
    /\ UNCHANGED <<requestVars, workerVars, redisVars, moneyVars, crashes>>

StartRouteWrite(s) ==
    /\ Running(s, "startRoute")
    /\ LET r == session[s].req
       IN /\ Update(r, [req[r] EXCEPT !.status = "EN_ROUTE", !.enRouteAt = TRUE, !.wait = 0])
          /\ IF req[r].collector = None THEN Finish(s)
             ELSE GoOn(s, Call("routeCache", r, req[r].collector))
    /\ UNCHANGED <<bid, batch, workerVars, redisVars, moneyVars, crashes>>

RouteCacheSet(s) ==
    /\ Running(s, "routeCache")
    /\ routeMeta' = [routeMeta EXCEPT ![session[s].req] = session[s].user]
    /\ Finish(s)
    /\ UNCHANGED <<requestVars, workerVars, pinLock, attempts, outlived, moneyVars, crashes>>

\* updateCollectorLocation without the key: checks the row and sets the key.
\* With the key it only compares the collector, and changes nothing here.
UpdateLocation(s, c, r) ==
    /\ routeMeta[r] = None
    /\ req[r].collector = c
    /\ req[r].status = "EN_ROUTE"
    /\ Begin(s, "location", Call("routeCache", r, c))
    /\ UNCHANGED <<requestVars, workerVars, redisVars, moneyVars, crashes>>

ReachDestination(s, c, r) ==
    /\ req[r].collector = c
    /\ req[r].status = "EN_ROUTE"
    /\ Begin(s, "reach", Call("reach", r, c))
    /\ UNCHANGED <<requestVars, workerVars, redisVars, moneyVars, crashes>>

ReachWrite(s) ==
    /\ Running(s, "reach")
    /\ LET r == session[s].req
       IN Update(r, [req[r] EXCEPT !.status = "ARRIVED", !.arrivedAt = TRUE, !.wait = 0])
    /\ GoOn(s, [session[s] EXCEPT !.kind = "reachPurge"])
    /\ UNCHANGED <<bid, batch, workerVars, redisVars, moneyVars, crashes>>

ReachPurge(s) ==
    /\ Running(s, "reachPurge")
    /\ routeMeta' = [routeMeta EXCEPT ![session[s].req] = None]
    /\ Finish(s)
    /\ UNCHANGED <<requestVars, workerVars, pinLock, attempts, outlived, moneyVars, crashes>>

\* Variant of AtTheDoor that lets a collector report from the road.
OnTheWay(row, c) == row.collector = c /\ row.status \in {"EN_ROUTE", "ARRIVED"}

\* reportNoShow and rejectOnSite are for the assigned collector, at the door.
AtTheDoor(row, c) == row.collector = c /\ row.status = "ARRIVED"

\* reportNoShow, five minutes after the arrival: closes the request, then lowers
\* the household's score from the value read at the start (never below 1 star)
\* and moves 2 tokens (40 twentieths) to the collector if the chain lets it.
ReportNoShow(s, c, r) ==
    /\ AtTheDoor(req[r], c)
    /\ req[r].wait >= 1
    /\ Begin(s, "noShow", [Call("noShow", r, c) EXCEPT !.score = score[req[r].household]])
    /\ UNCHANGED <<requestVars, workerVars, redisVars, moneyVars, crashes>>

Unattended(row) == [row EXCEPT !.status = "UNATTENDED", !.escrow = 0,
                               !.noShowFee = TRUE, !.wait = 0]

\* Variant of Penalised without the floor.
PenalisedWithoutFloor(n) == n - 1

Penalised(n) == IF n - 1 < 2 THEN 2 ELSE n - 1
Saturate(n) == IF n > 2 THEN 2 ELSE n
Compensation == 40

NoShowWrite(s) ==
    /\ Running(s, "noShow")
    /\ Update(session[s].req, Unattended(req[session[s].req]))
    /\ GoOn(s, [session[s] EXCEPT !.kind = "noShowEffects"])
    /\ UNCHANGED <<bid, batch, workerVars, redisVars, moneyVars, crashes>>

NoShowEffects(s) ==
    /\ Running(s, "noShowEffects")
    /\ LET r == session[s].req
           c == session[s].user
       IN /\ score' = [score EXCEPT ![req[r].household] = Penalised(session[s].score)]
          /\ \/ /\ balance[c] + Compensation <= MaxBalance
                /\ balance' = [balance EXCEPT ![c] = @ + Compensation]
                /\ compensated' = [compensated EXCEPT ![r] = Saturate(@ + 1)]
             \/ UNCHANGED <<balance, compensated>>
    /\ Finish(s)
    /\ UNCHANGED <<requestVars, workerVars, redisVars, credited, crashes>>

RejectOnSite(s, c, r) ==
    /\ AtTheDoor(req[r], c)
    /\ Begin(s, "reject", Call("reject", r, c))
    /\ UNCHANGED <<requestVars, workerVars, redisVars, moneyVars, crashes>>

RejectWrite(s) ==
    /\ Running(s, "reject")
    /\ LET r == session[s].req
       IN Update(r, [req[r] EXCEPT !.status = "REJECTED_ON_SITE", !.escrow = 0, !.wait = 0])
    /\ Finish(s)
    /\ UNCHANGED <<bid, batch, workerVars, redisVars, moneyVars, crashes>>

\* BatchesService.updateBatch: the collector sends an OPEN batch on its way.
DispatchBatch(s, c, b, d) ==
    /\ batch[b].collector = c
    /\ batch[b].status = "OPEN"
    /\ Begin(s, "dispatch", [Call("dispatch", None, c) EXCEPT !.batch = b, !.center = d])
    /\ UNCHANGED <<requestVars, workerVars, redisVars, moneyVars, crashes>>

DispatchWrite(s) ==
    /\ Running(s, "dispatch")
    /\ batch' = [batch EXCEPT ![session[s].batch] =
                    [@ EXCEPT !.status = "IN_TRANSIT", !.center = session[s].center]]
    /\ Finish(s)
    /\ UNCHANGED <<req, bid, workerVars, redisVars, moneyVars, crashes>>

-----------------------------------------------------------------------------
(* verifyPin: the collector enters the household's PIN. *)

\* Variant of LockIsFree: SET without NX.
LockIgnored(r) == r \in Requests

\* SET lock:verify:pin:<id> NX EX 30; a caller that finds it is refused.
LockIsFree(r) == ~pinLock[r]

Verify(s, c, r) ==
    /\ req[r].status # "NONE"
    /\ LockIsFree(r)
    /\ pinLock' = [pinLock EXCEPT ![r] = TRUE]
    /\ Begin(s, "verify", Call("verifyRead", r, c))
    /\ UNCHANGED <<requestVars, workerVars, attempts, routeMeta, outlived, moneyVars, crashes>>

\* finally { DEL lock }, whoever holds the key by now.
ReleaseAndFinish(s) ==
    /\ pinLock' = [pinLock EXCEPT ![session[s].req] = FALSE]
    /\ Finish(s)

\* The chain: ownership, status, attempts, PIN, weights.
MayVerify(s) ==
    LET r == session[s].req
    IN /\ req[r].collector = session[s].user
       /\ req[r].status \in InService
       /\ attempts[r] < MaxAttempts

VerifyRefused(s) ==
    /\ Running(s, "verifyRead")
    /\ ~MayVerify(s)
    /\ ReleaseAndFinish(s)
    /\ UNCHANGED <<requestVars, workerVars, attempts, routeMeta, outlived, moneyVars, crashes>>

VerifyWrongPin(s) ==
    /\ Running(s, "verifyRead")
    /\ MayVerify(s)
    /\ attempts' = [attempts EXCEPT ![session[s].req] = @ + 1]
    /\ ReleaseAndFinish(s)
    /\ UNCHANGED <<requestVars, workerVars, routeMeta, outlived, moneyVars, crashes>>

\* The weights are checked after the right PIN has cleared the counter.
VerifyBadWeights(s) ==
    /\ Running(s, "verifyRead")
    /\ MayVerify(s)
    /\ attempts' = [attempts EXCEPT ![session[s].req] = 0]
    /\ ReleaseAndFinish(s)
    /\ UNCHANGED <<requestVars, workerVars, routeMeta, outlived, moneyVars, crashes>>

\* From here on the handler uses the row as it was read, with the weights the
\* collector measured.
VerifyPassed(s) ==
    /\ Running(s, "verifyRead")
    /\ MayVerify(s)
    /\ LET r == session[s].req
       IN /\ attempts' = [attempts EXCEPT ![r] = 0]
          /\ \E i \in Items :
                GoOn(s, [session[s] EXCEPT !.kind = "verifyPay", !.center = req[r].center,
                                           !.batch = req[r].batch,
                                           !.value = Value(req[r], i)])
    /\ UNCHANGED <<requestVars, workerVars, pinLock, routeMeta, outlived, moneyVars, crashes>>

\* The household is paid by the collector, or by the minter when the transfer
\* was not possible or not confirmed (a transfer that times out may still be
\* applied); a failed mint is only logged.  Then the treasury's commission.
VerifyPay(s) ==
    /\ Running(s, "verifyPay")
    /\ LET r == session[s].req
           c == session[s].user
           v == session[s].value
       IN \E sent \in 0..1, confirmed \in 0..1, minted \in 0..1, fee \in 0..1 :
             /\ confirmed <= sent
             /\ minted <= 1 - confirmed
             /\ v = 0 => sent + minted + fee = 0
             /\ balance[c] >= sent * HouseholdAmount(v) + fee * TreasuryAmount(v)
             /\ balance' = [balance EXCEPT ![c] =
                               @ - sent * HouseholdAmount(v) - fee * TreasuryAmount(v)]
             /\ credited' = [credited EXCEPT ![r] = Saturate(@ + sent + minted)]
    /\ GoOn(s, [session[s] EXCEPT !.kind =
                    IF session[s].batch = None THEN "verifyFind" ELSE "verifyComplete"])
    /\ UNCHANGED <<requestVars, workerVars, redisVars, score, compensated, crashes>>

\* Variant of WithoutOpenBatch that never creates one.
NeverCreate(o) == "verifyComplete"

WithoutOpenBatch(o) == IF o.center = None THEN "verifyComplete" ELSE "verifyCreate"

\* findOpenBatch, and createOpenBatch when there is none.
VerifyFind(s) ==
    /\ Running(s, "verifyFind")
    /\ LET open == {b \in Batches : /\ batch[b].status = "OPEN"
                                    /\ batch[b].collector = session[s].user
                                    /\ batch[b].center = session[s].center}
       IN IF open # {}
          THEN \E b \in open : GoOn(s, [session[s] EXCEPT !.kind = "verifyComplete", !.batch = b])
          ELSE GoOn(s, [session[s] EXCEPT !.kind = WithoutOpenBatch(session[s])])
    /\ UNCHANGED <<requestVars, workerVars, redisVars, moneyVars, crashes>>

VerifyCreate(s) ==
    /\ Running(s, "verifyCreate")
    /\ \E b \in Batches :
          /\ batch[b].status = "NONE"
          /\ batch' = [batch EXCEPT ![b] = [status |-> "OPEN", collector |-> session[s].user,
                                            center |-> session[s].center]]
          /\ GoOn(s, [session[s] EXCEPT !.kind = "verifyComplete", !.batch = b])
    /\ UNCHANGED <<req, bid, workerVars, redisVars, moneyVars, crashes>>

\* atomicCompleteRequest: one UPDATE whose WHERE clause repeats the status, and
\* not the collector.  The columns it sets are not in the schema.
VerifyComplete(s) ==
    /\ Running(s, "verifyComplete")
    /\ LET r == session[s].req
       IN IF CompletionColumns /\ req[r].status \in InService
          THEN /\ Update(r, [req[r] EXCEPT !.status = "COMPLETED",
                                           !.batch = session[s].batch, !.wait = 0])
               /\ GoOn(s, [session[s] EXCEPT !.kind = "verifyDone"])
               /\ UNCHANGED pinLock
          ELSE ReleaseAndFinish(s) /\ UNCHANGED req
    /\ UNCHANGED <<bid, batch, workerVars, attempts, routeMeta, outlived, moneyVars, crashes>>

VerifyDone(s) ==
    /\ Running(s, "verifyDone")
    /\ routeMeta' = [routeMeta EXCEPT ![session[s].req] = None]
    /\ ReleaseAndFinish(s)
    /\ UNCHANGED <<requestVars, workerVars, attempts, outlived, moneyVars, crashes>>

\* Any database or Redis call of the handler can fail; finally runs.
VerifyThrows(s) ==
    /\ session[s].kind \in VerifyKinds
    /\ ReleaseAndFinish(s)
    /\ UNCHANGED <<requestVars, workerVars, attempts, routeMeta, outlived, moneyVars, crashes>>

-----------------------------------------------------------------------------
(* CollectionsTimeoutWorker: one cycle a minute unless the last one still    *)
(* runs; its four scans run concurrently, each one query and then one row    *)
(* after the other.                                                          *)

Tick ==
    /\ queried = Scans
    /\ todo = {}
    /\ queried' = {}
    /\ UNCHANGED <<requestVars, session, todo, redisVars, moneyVars, crashes>>

HasAcceptedBid(r) == \E b \in Bids : bid[b].req = r /\ bid[b].status = "ACCEPTED"

\* Variants of the scans' conditions: claimed requests never expire, auctions
\* with bids never fall back, the no-show threshold is never passed.
UnclaimedDue(r) == req[r].status = "PENDING" /\ req[r].age = 2 /\ req[r].center = None
BidlessDue(r) == /\ req[r].status = "AUCTION_ACTIVE" /\ req[r].age >= 1
                 /\ \A b \in Bids : bid[b].req # r
NeverDue(r) == req[r].status = "ARRIVED" /\ req[r].wait > 2

PendingDue(r) == req[r].status = "PENDING" /\ req[r].age = 2
AuctionDue(r) == req[r].status = "AUCTION_ACTIVE" /\ req[r].age >= 1 /\ ~HasAcceptedBid(r)
InactiveDue(r) == req[r].status = "ACCEPTED" /\ ~req[r].enRouteAt /\ req[r].wait = 2
ArrivedDue(r) == req[r].status = "ARRIVED" /\ req[r].wait = 2

Due(k, r) ==
    \/ k = "pending" /\ PendingDue(r)
    \/ k = "auction" /\ AuctionDue(r)
    \/ k = "inactive" /\ InactiveDue(r)
    \/ k = "arrived" /\ ArrivedDue(r)

Query(k) ==
    /\ k \notin queried
    /\ queried' = queried \cup {k}
    /\ todo' = todo \cup {[scan |-> k, req |-> r, score |-> score[req[r].household]] :
                             r \in {q \in Requests : Due(k, q)}}
    /\ UNCHANGED <<requestVars, session, redisVars, moneyVars, crashes>>

Done(task) == todo' = todo \ {task}
Then(task, k) == todo' = (todo \ {task}) \cup {[task EXCEPT !.scan = k]}

\* processPendingTimeouts
ExpirePending(task) ==
    /\ task.scan = "pending"
    /\ Update(task.req, [req[task.req] EXCEPT !.status = "CANCELLED", !.wait = 0])
    /\ Done(task)
    /\ UNCHANGED <<bid, batch, session, queried, redisVars, moneyVars, crashes>>

\* processAuctionFallbacks: first the bids, then the request.
ExpireBids(task) ==
    /\ task.scan = "auction"
    /\ \A t \in todo : t.scan # "auctionRow"
    /\ bid' = [b \in Bids |-> IF bid[b].req = task.req /\ bid[b].status = "PENDING"
                              THEN [bid[b] EXCEPT !.status = "EXPIRED"] ELSE bid[b]]
    /\ Then(task, "auctionRow")
    /\ UNCHANGED <<req, batch, session, queried, redisVars, moneyVars, crashes>>

FallBackToAutomatic(task) ==
    /\ task.scan = "auctionRow"
    /\ Update(task.req, [req[task.req] EXCEPT !.status = "PENDING", !.mode = "AUTOMATIC",
                                              !.wait = 0])
    /\ Done(task)
    /\ UNCHANGED <<bid, batch, session, queried, redisVars, moneyVars, crashes>>

\* processAcceptedInactivity
ReleaseInactive(task) ==
    /\ task.scan = "inactive"
    /\ Update(task.req, Released(req[task.req]))
    /\ Done(task)
    /\ UNCHANGED <<bid, batch, session, queried, redisVars, moneyVars, crashes>>

\* processArrivedNoShowTimeouts: first the request, then the household's score.
CloseUnattended(task) ==
    /\ task.scan = "arrived"
    /\ \A t \in todo : t.scan # "arrivedScore"
    /\ Update(task.req, Unattended(req[task.req]))
    /\ Then(task, "arrivedScore")
    /\ UNCHANGED <<bid, batch, session, queried, redisVars, moneyVars, crashes>>

PenaliseHousehold(task) ==
    /\ task.scan = "arrivedScore"
    /\ score' = [score EXCEPT ![req[task.req].household] = Penalised(task.score)]
    /\ Done(task)
    /\ UNCHANGED <<requestVars, session, queried, redisVars, balance, credited,
                   compensated, crashes>>

ProcessTask ==
    \E task \in todo :
        \/ ExpirePending(task)   \/ ExpireBids(task)      \/ FallBackToAutomatic(task)
        \/ ReleaseInactive(task) \/ CloseUnattended(task) \/ PenaliseHousehold(task)

-----------------------------------------------------------------------------
(* Time and failures.  Time is counted only in the statuses whose rows some  *)
(* check compares with the clock.                                            *)

QuarterHourPasses(r) ==
    /\ req[r].status \in {"PENDING", "AUCTION_ACTIVE"}
    /\ req[r].age < 2
    /\ Update(r, [req[r] EXCEPT !.age = @ + 1])
    /\ UNCHANGED <<bid, batch, session, workerVars, redisVars, moneyVars, crashes>>

FiveMinutesPass(r) ==
    /\ req[r].status \in {"ACCEPTED", "ARRIVED"}
    /\ req[r].wait < 2
    /\ Update(r, [req[r] EXCEPT !.wait = @ + 1])
    /\ UNCHANGED <<bid, batch, session, workerVars, redisVars, moneyVars, crashes>>

Verifying(r) == {s \in Sessions : session[s].kind \in VerifyKinds /\ session[s].req = r}

\* Variant of LockExpires: the key has no TTL.
LockWithoutTtl(r) == FALSE /\ UNCHANGED vars

\* The keys' TTLs: 30 s, 15 min and 1 h.  A verification sends up to three
\* payments, and each may be polled for 30 s: the lock can run out under it.
LockExpires(r) ==
    /\ pinLock[r]
    /\ pinLock' = [pinLock EXCEPT ![r] = FALSE]
    /\ IF Verifying(r) = {} THEN UNCHANGED outlived
       ELSE /\ outlived[r] < MaxOutlived
            /\ outlived' = [outlived EXCEPT ![r] = @ + 1]
    /\ UNCHANGED <<requestVars, session, workerVars, attempts, routeMeta, moneyVars, crashes>>

AttemptsExpire(r) ==
    /\ attempts[r] > 0
    /\ attempts' = [attempts EXCEPT ![r] = 0]
    /\ UNCHANGED <<requestVars, session, workerVars, pinLock, routeMeta, outlived, moneyVars, crashes>>

RouteMetaExpires(r) ==
    /\ routeMeta[r] # None
    /\ routeMeta' = [routeMeta EXCEPT ![r] = None]
    /\ UNCHANGED <<requestVars, session, workerVars, pinLock, attempts, outlived, moneyVars, crashes>>

\* A process dies with what its handlers or its scans had left to do.
HandlerCrashes(s) ==
    /\ crashes < MaxCrashes
    /\ session[s] # Idle
    /\ Finish(s)
    /\ crashes' = crashes + 1
    /\ UNCHANGED <<requestVars, workerVars, redisVars, moneyVars>>

WorkerCrashes ==
    /\ crashes < MaxCrashes
    /\ todo # {}
    /\ todo' = {}
    /\ queried' = Scans
    /\ crashes' = crashes + 1
    /\ UNCHANGED <<requestVars, session, redisVars, moneyVars>>

-----------------------------------------------------------------------------

CallOf(s) ==
    \/ \E h \in Households : Create(s, h)
    \/ \E h \in Households, r \in Requests : CancelByHousehold(s, h, r) \/ Edit(s, h, r)
    \/ \E h \in Households, r \in Requests, b \in Bids : SelectBid(s, h, r, b)
    \/ \E c \in Centers, r \in Requests : SubmitBid(s, c, r) \/ ClaimAutomatic(s, c, r)
    \/ \E c \in Centers, b \in Bids : WithdrawBid(s, c, b)
    \/ \E c \in Collectors, r \in Requests :
          \/ Accept(s, c, r)     \/ CancelByCollector(s, c, r) \/ Abandon(s, c, r)
          \/ StartRoute(s, c, r) \/ UpdateLocation(s, c, r)    \/ ReachDestination(s, c, r)
          \/ Verify(s, c, r)     \/ ReportNoShow(s, c, r)      \/ RejectOnSite(s, c, r)
    \/ \E c \in Collectors, b \in Batches, d \in Centers : DispatchBatch(s, c, b, d)

Continue(s) ==
    \/ CreateInsert(s)  \/ CancelWrite(s)      \/ EditWrite(s)
    \/ SelectCheck(s)   \/ SelectWrite(s)
    \/ SubmitBidWrite(s) \/ WithdrawBidWrite(s) \/ ClaimWrite(s)
    \/ AcceptCheck(s)   \/ AcceptWrite(s)      \/ AbandonWrite(s)
    \/ StartRouteWrite(s) \/ RouteCacheSet(s)  \/ ReachWrite(s)   \/ ReachPurge(s)
    \/ NoShowWrite(s)   \/ NoShowEffects(s)    \/ RejectWrite(s)  \/ DispatchWrite(s)
    \/ VerifyRefused(s) \/ VerifyWrongPin(s)   \/ VerifyBadWeights(s)
    \/ VerifyPassed(s)  \/ VerifyPay(s)        \/ VerifyFind(s)   \/ VerifyCreate(s)
    \/ VerifyComplete(s) \/ VerifyDone(s)      \/ VerifyThrows(s)

Passing(r) ==
    \/ QuarterHourPasses(r) \/ FiveMinutesPass(r)
    \/ LockExpires(r)       \/ AttemptsExpire(r)   \/ RouteMetaExpires(r)

Next ==
    \/ \E s \in Sessions : CallOf(s) \/ Continue(s) \/ HandlerCrashes(s)
    \/ Tick
    \/ \E k \in Scans : Query(k)
    \/ ProcessTask
    \/ \E r \in Requests : Passing(r)
    \/ WorkerCrashes

\* Handlers in flight are resumed, the cron fires every minute and its scans
\* run, and time passes; nobody has to call anything.
Fairness ==
    /\ \A s \in Sessions : WF_vars(Continue(s))
    /\ WF_vars(Tick)
    /\ \A k \in Scans : WF_vars(Query(k))
    /\ WF_vars(ProcessTask)
    /\ \A r \in Requests :
          /\ WF_vars(QuarterHourPasses(r))
          /\ WF_vars(FiveMinutesPass(r))
          /\ WF_vars(LockExpires(r))

Spec == Init /\ [][Next]_vars
FairSpec == Spec /\ Fairness

-----------------------------------------------------------------------------
(* Properties. *)

\* Every row, key and continuation has its type.
TypeOK ==
    /\ req \in [Requests -> RequestRow]
    /\ bid \in [Bids -> BidRow]
    /\ batch \in [Batches -> BatchRow]
    /\ session \in [Sessions -> Op]
    /\ queried \subseteq Scans
    /\ todo \subseteq Task
    /\ pinLock \in [Requests -> BOOLEAN]
    /\ attempts \in [Requests -> 0..MaxAttempts]
    /\ routeMeta \in [Requests -> Collectors \cup {None}]
    /\ outlived \in [Requests -> 0..MaxOutlived]
    /\ balance \in [Collectors -> 0..MaxBalance]
    /\ score \in [Households -> 2..10]
    /\ credited \in [Requests -> 0..2]
    /\ compensated \in [Requests -> 0..2]
    /\ crashes \in 0..MaxCrashes

\* No collector is sent out, and no request is closed after a visit, without a
\* center whose tariff was agreed: updateStatus reads the center long before it
\* writes ACCEPTED, and nothing in between may take the center away.
CenterAssigned ==
    \A r \in Requests :
        req[r].status \in {"AUCTION_ASSIGNED", "COMPLETED", "UNATTENDED", "REJECTED_ON_SITE"}
                          \cup InService
            => req[r].center # None

\* A guarantee is held only for a request that has a collector, and an accepted
\* request has one, however accepts, abandons and the inactivity scan interleave.
HoldHasOwner ==
    \A r \in Requests :
        req[r].escrow > 0 \/ req[r].status = "ACCEPTED" => req[r].collector # None

\* A household is fined for a no-show, or its material is refused at the door,
\* only when a collector set out and arrived: reportNoShow, rejectOnSite and the
\* no-show scan write from what they read earlier.
VisitRecorded ==
    \A r \in Requests :
        req[r].noShowFee \/ req[r].status \in {"ARRIVED", "UNATTENDED", "REJECTED_ON_SITE"}
            => req[r].enRouteAt /\ req[r].arrivedAt

\* A completed request is in a batch that exists, so its material reaches a
\* center: verifyPin finds or creates the batch several awaits before the UPDATE.
CompletedInBatch ==
    \A r \in Requests :
        req[r].status = "COMPLETED" =>
            req[r].batch # None /\ batch[req[r].batch].status # "NONE"

\* At most one bid of a request is accepted, even when the household selects
\* two bids at once or a center bids again.
AtMostOneAcceptedBid ==
    \A a, b \in Bids :
        /\ bid[a].status = "ACCEPTED" /\ bid[b].status = "ACCEPTED"
        /\ bid[a].req = bid[b].req
        => a = b

\* A request is verified by one handler at a time, and by one more for each time
\* the lock ran out under its holder: across crashes and refused callers, and
\* though finally deletes the key without asking whose it is, so that one
\* verification that outlived its lock frees the lock of the next.
OneVerification ==
    \A r \in Requests : Cardinality(Verifying(r)) <= 1 + outlived[r]

\* What every write leaves to the handlers that have read the tables before it:
\* a row that exists goes on existing and loses neither its center nor the stamps
\* of its visit; a bid stays with its request and its center.
Keeps(old, new) ==
    old.status # "NONE" =>
        /\ new.status # "NONE"
        /\ old.center # None => new.center # None
        /\ old.enRouteAt => new.enRouteAt
        /\ old.arrivedAt => new.arrivedAt
KeepsBid(old, new) ==
    old.status # "NONE" =>
        new.status # "NONE" /\ new.req = old.req /\ new.center = old.center
KeepsBatch(old, new) == old.status # "NONE" => new.status # "NONE"

TablesGrow ==
    /\ \A r \in Requests : Keeps(req[r], req'[r])
    /\ \A b \in Bids : KeepsBid(bid[b], bid'[b])
    /\ \A b \in Batches : KeepsBatch(batch[b], batch'[b])

\* No step takes back what a handler in flight may have read and relies on when
\* it writes blindly: releases, expiries and fallbacks keep the agreed center,
\* and nothing erases a visit.
RecordsKept == [][TablesGrow]_vars

(* What the parts of the system rely on while others run: the inductive         *)
(* invariant behind the six invariants above.                                   *)

\* A row that exists has its household, one that does not has no collector; an
\* EN_ROUTE row was set out for; a batch a row points to exists; a bid is a
\* center's as soon as it exists.
RowFacts ==
    /\ \A r \in Requests :
          /\ req[r].status # "NONE" => req[r].household \in Households
          /\ req[r].status = "NONE" => req[r].collector = None
          /\ req[r].status = "EN_ROUTE" => req[r].enRouteAt
          /\ req[r].batch # None => batch[req[r].batch].status # "NONE"
    /\ \A b \in Bids :
          /\ bid[b].status # "NONE" => bid[b].center \in Centers
          /\ bid[b].status = "NONE" => bid[b] = NoBid

\* What a handler read and checked is still good for what it is going to write:
\* the row exists, the center, the route and the arrival it saw are there, the
\* bid and the batch it chose exist.
HandlerOK(o) ==
    /\ o.kind \notin {"idle", "create", "withdraw", "dispatch"}
          => o.req \in Requests /\ req[o.req].status # "NONE"
    /\ o.kind \in CollectorKinds => o.user \in Collectors
    /\ o.kind = "create" => o.user \in Households
    /\ o.kind \in {"selectCheck", "select", "withdraw"}
          => o.bid \in Bids /\ bid[o.bid].status # "NONE"
    /\ o.kind \in {"selectCheck", "select"} => bid[o.bid].req = o.req
    /\ o.kind = "bid" /\ o.bid # None => bid[o.bid].status # "NONE"
    /\ o.kind \in {"bid", "claim"} => o.user \in Centers
    /\ o.kind = "dispatch" => o.batch \in Batches /\ batch[o.batch].status # "NONE"
    /\ o.kind \in {"acceptCheck", "accept", "startRoute", "reach", "noShow", "reject"}
          => req[o.req].center # None
    /\ o.kind \in {"reach", "noShow", "reject"} => req[o.req].enRouteAt
    /\ o.kind \in {"noShow", "reject"} => req[o.req].arrivedAt
    /\ o.kind \in {"noShow", "noShowEffects"} => o.score \in 2..10
    /\ o.kind \in {"verifyPay", "verifyFind", "verifyCreate"} => o.center \in Centers
    /\ o.kind \in {"verifyPay", "verifyComplete"} /\ o.batch # None
          => batch[o.batch].status # "NONE"
    /\ o.kind = "verifyComplete" => o.batch \in Batches
HandlerFacts == \A s \in Sessions : HandlerOK(session[s])

\* The same for the rows the worker's scans returned.
TaskOK(t) ==
    /\ req[t.req].status # "NONE"
    /\ t.score \in 2..10
    /\ t.scan = "arrived" =>
          req[t.req].enRouteAt /\ req[t.req].arrivedAt /\ req[t.req].center # None
TaskFacts == \A t \in todo : TaskOK(t)

\* The verifications in flight are paid for by the key, if it is there, and by
\* the locks that ran out.
LockFacts ==
    \A r \in Requests :
        Cardinality(Verifying(r)) <= (IF pinLock[r] THEN 1 ELSE 0) + outlived[r]

IInv ==
    /\ TypeOK
    /\ RowFacts
    /\ HandlerFacts
    /\ TaskFacts
    /\ CenterAssigned
    /\ HoldHasOwner
    /\ VisitRecorded
    /\ CompletedInBatch
    /\ AtMostOneAcceptedBid
    /\ LockFacts
    /\ OneVerification

-----------------------------------------------------------------------------
(* Liveness, under the fairness of FairSpec. *)

\* A request nobody takes does not stay PENDING: it is accepted, cancelled or
\* expired by the worker's first scan.
PendingEnds ==
    \A r \in Requests : req[r].status = "PENDING" ~> req[r].status # "PENDING"

\* An auction ends, with a winner or by the worker's fallback, even if the worker
\* dies between expiring the bids and reopening the request.
AuctionEnds ==
    \A r \in Requests : req[r].status = "AUCTION_ACTIVE" ~> req[r].status # "AUCTION_ACTIVE"

\* A collector is not kept at a door: an ARRIVED request is closed.
ArrivedEnds ==
    \A r \in Requests : req[r].status = "ARRIVED" ~> req[r].status # "ARRIVED"

\* A verification that died with its process does not bar the request for good.
LockIsFreed ==
    \A r \in Requests : pinLock[r] ~> ~pinLock[r]

-----------------------------------------------------------------------------
(* What the code's comments and messages say and the code does not keep; each  *)
(* is checked by a run that is expected to end in a counterexample.            *)

\* Only the collector who accepted the request verifies its PIN, and pays its
\* household: nobody pays for a request that is another collector's by then.
VerifierIsCollector ==
    [][\A c \in Collectors, r \in Requests :
          balance'[c] < balance[c] /\ credited'[r] # credited[r]
              => req[r].collector \in {c, None}]_vars

\* The completing UPDATE is there so that a request is processed once: its
\* household is not credited twice.
PaidOnce == \A r \in Requests : credited[r] <= 1

\* One unattended visit costs the household one compensation.
CompensatedOnce == \A r \in Requests : compensated[r] <= 1

\* An accepted request whose collector does not set out is taken back.
AcceptedEnds ==
    \A r \in Requests : req[r].status = "ACCEPTED" ~> req[r].status # "ACCEPTED"

=============================================================================
