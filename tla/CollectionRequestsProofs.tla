---------------------- MODULE CollectionRequestsProofs ----------------------
(* Proofs about CollectionRequests. *)
EXTENDS CollectionRequests, FiniteSetTheorems, TLAPS

\* What a handler in flight relies on survives every step that lets the tables
\* grow: the reason why the endpoints' blind writes are safe for one another.
LEMMA HandlerFrame ==
    ASSUME TypeOK, TablesGrow, NEW o \in Op, HandlerOK(o)
    PROVE  HandlerOK(o)'
  BY DEF TypeOK, TablesGrow, Keeps, KeepsBid, KeepsBatch, Op, HandlerOK

\* The same for a row that one of the worker's scans has returned.
LEMMA TaskFrame ==
    ASSUME TypeOK, TablesGrow, NEW t \in Task, TaskOK(t)
    PROVE  TaskOK(t)'
  BY DEF TypeOK, TablesGrow, Keeps, Task, TaskOK

\* The row-wise invariants, for one row.
RowOK(row) ==
    /\ row.status # "NONE" => row.household \in Households
    /\ row.status = "NONE" => row.collector = None
    /\ row.status = "EN_ROUTE" => row.enRouteAt
    /\ row.batch # None => batch[row.batch].status # "NONE"
    /\ row.status \in {"AUCTION_ASSIGNED", "COMPLETED", "UNATTENDED", "REJECTED_ON_SITE"}
                      \cup InService
          => row.center # None
    /\ row.escrow > 0 \/ row.status = "ACCEPTED" => row.collector # None
    /\ row.noShowFee \/ row.status \in {"ARRIVED", "UNATTENDED", "REJECTED_ON_SITE"}
          => row.enRouteAt /\ row.arrivedAt
    /\ row.status = "COMPLETED" => row.batch # None

RowsOK == \A r \in Requests : RowOK(req[r])
BidsOK ==
    \A b \in Bids :
        /\ bid[b].status # "NONE" => bid[b].center \in Centers
        /\ bid[b].status = "NONE" => bid[b] = NoBid

\* The invariant, with its row-wise parts gathered for one row at a time.
LEMMA IInvByRow ==
    IInv <=> /\ TypeOK /\ RowsOK /\ BidsOK /\ HandlerFacts /\ TaskFacts
             /\ AtMostOneAcceptedBid /\ LockFacts /\ OneVerification
  BY DEF IInv, RowsOK, RowOK, BidsOK, RowFacts, CenterAssigned, HoldHasOwner,
         VisitRecorded, CompletedInBatch

\* A row that a step leaves alone stays in order when batches only grow.
LEMMA RowFrame ==
    ASSUME TypeOK, TablesGrow, NEW row \in RequestRow, RowOK(row)
    PROVE  RowOK(row)'
  BY DEF TypeOK, TablesGrow, KeepsBatch, RequestRow, RowOK

\* There are finitely many verifications in flight, and no more than before when
\* none has begun.
LEMMA VerifyingCounted ==
    ASSUME NEW r \in Requests
    PROVE  IsFiniteSet(Verifying(r)) /\ Cardinality(Verifying(r)) \in Nat
  BY ConfigurationOK, FS_Subset, FS_CardinalityType DEF Verifying

LEMMA VerifyingShrinks ==
    ASSUME NEW r \in Requests, Verifying(r)' \subseteq Verifying(r)
    PROVE  Cardinality(Verifying(r)') \in Nat /\ Cardinality(Verifying(r)') <= Cardinality(Verifying(r))
  BY VerifyingCounted, FS_Subset, FS_CardinalityType

\* At most one more when only one handler can have begun, and one less when one has
\* ended and none has begun.
LEMMA VerifyingGrows ==
    ASSUME NEW r \in Requests, NEW s, Verifying(r)' \subseteq Verifying(r) \cup {s}
    PROVE  /\ Cardinality(Verifying(r)') \in Nat
           /\ Cardinality(Verifying(r)') <= Cardinality(Verifying(r)) + 1
  <1> DEFINE V == Verifying(r)
             W == Verifying(r)'
  <1>1. IsFiniteSet(V) /\ Cardinality(V) \in Nat /\ W \in SUBSET (V \cup {s})
    BY VerifyingCounted
  <1> HIDE DEF V, W
  <1>2. IsFiniteSet(V \cup {s}) /\ Cardinality(V \cup {s}) <= Cardinality(V) + 1
    <2>1. /\ IsFiniteSet(V \cup {s})
          /\ Cardinality(V \cup {s}) = IF s \in V THEN Cardinality(V) ELSE Cardinality(V) + 1
      BY <1>1, FS_AddElement, Zenon
    <2> QED
      BY <1>1, <2>1
  <1>3. IsFiniteSet(W) /\ Cardinality(W) <= Cardinality(V \cup {s})
    BY <1>1, <1>2, FS_Subset
  <1>4. Cardinality(W) \in Nat /\ Cardinality(V \cup {s}) \in Nat
    BY <1>2, <1>3, FS_CardinalityType
  <1>5. Cardinality(W) \in Nat /\ Cardinality(W) <= Cardinality(V) + 1
    BY <1>1, <1>2, <1>3, <1>4
  <1> QED
    BY <1>5 DEF V, W

LEMMA VerifyingEnds ==
    ASSUME NEW r \in Requests, NEW s \in Verifying(r), Verifying(r)' \subseteq Verifying(r) \ {s}
    PROVE  /\ Cardinality(Verifying(r)') \in Nat
           /\ Cardinality(Verifying(r)') <= Cardinality(Verifying(r)) - 1
  <1> DEFINE V == Verifying(r)
             W == Verifying(r)'
  <1>1. IsFiniteSet(V) /\ Cardinality(V) \in Nat /\ s \in V /\ W \in SUBSET (V \ {s})
    BY VerifyingCounted
  <1> HIDE DEF V, W
  <1>2. IsFiniteSet(V \ {s}) /\ Cardinality(V \ {s}) = Cardinality(V) - 1
    BY <1>1, FS_RemoveElement
  <1>3. IsFiniteSet(W) /\ Cardinality(W) <= Cardinality(V \ {s})
    BY <1>1, <1>2, FS_Subset
  <1>4. Cardinality(W) \in Nat
    BY <1>3, FS_CardinalityType
  <1>5. Cardinality(W) \in Nat /\ Cardinality(W) <= Cardinality(V) - 1
    BY <1>1, <1>2, <1>3, <1>4
  <1> QED
    BY <1>5 DEF V, W

\* The count is right after a step if it is right for the request whose lock the
\* step takes or frees.
LEMMA OneLockMoves ==
    ASSUME TypeOK, LockFacts, NEW r \in Requests, NEW held \in BOOLEAN,
           pinLock' = [pinLock EXCEPT ![r] = held], outlived' = outlived,
           \A q \in Requests : q # r => Verifying(q)' \subseteq Verifying(q),
           Cardinality(Verifying(r)') <= (IF held THEN 1 ELSE 0) + outlived[r]
    PROVE  LockFacts'
  <1>1. ASSUME NEW q \in Requests, q # r
        PROVE  /\ Cardinality(Verifying(q)') \in Nat /\ Cardinality(Verifying(q)) \in Nat
               /\ Cardinality(Verifying(q)') <= Cardinality(Verifying(q)) /\ outlived[q] \in Nat
               /\ pinLock'[q] = pinLock[q]
    BY <1>1, VerifyingShrinks, VerifyingCounted DEF TypeOK
  <1>2. pinLock'[r] = held
    BY DEF TypeOK
  <1> QED
    BY <1>1, <1>2 DEF LockFacts

\* The bound by the locks held and outlived gives the bound by the outlived ones.
LEMMA LocksBoundVerifications ==
    ASSUME TypeOK, LockFacts
    PROVE  OneVerification
  BY VerifyingCounted DEF TypeOK, LockFacts, OneVerification

\* An empty database, with no handler in flight, satisfies the invariant.
LEMMA InitIInv == Init => IInv
  <1> SUFFICES ASSUME Init PROVE IInv
    OBVIOUS
  <1> USE NoneIsNoId, ConfigurationOK
  <1>1. TypeOK
    BY DEF Init, TypeOK, NoRequest, NoBid, NoBatch, Idle, Call, RequestRow, Status, BidRow,
           BidStatus, BatchRow, Op, Kinds, Task
  <1>2. RowsOK
    BY DEF Init, NoRequest, RowsOK, RowOK, InService
  <1>3. BidsOK /\ AtMostOneAcceptedBid
    BY DEF Init, NoBid, BidsOK, AtMostOneAcceptedBid
  <1>4. HandlerFacts
    BY DEF Init, Idle, Call, HandlerFacts, HandlerOK, CollectorKinds, VerifyKinds
  <1>5. TaskFacts
    BY DEF Init, TaskFacts
  <1>6. LockFacts /\ OneVerification
    <2>1. \A r \in Requests : Verifying(r) = {}
      BY DEF Init, Idle, Call, Verifying, VerifyKinds
    <2>2. LockFacts
      BY <2>1, FS_EmptySet DEF Init, LockFacts
    <2> QED
      BY <1>1, <2>2, LocksBoundVerifications
  <1> QED
    BY <1>1, <1>2, <1>3, <1>4, <1>5, <1>6, IInvByRow

-----------------------------------------------------------------------------
(* A step preserves IInv when it lets the tables grow and does right by what  *)
(* it writes itself.                                                          *)

GoodStep == IInv' /\ TablesGrow

\* A step is good if the types, the rows, the bids, the moved handler and the lock
\* are in order after it; the frames take care of everybody else.
LEMMA StepPreserves ==
    ASSUME IInv, TypeOK', TablesGrow, RowsOK', BidsOK', AtMostOneAcceptedBid',
           \A s \in Sessions : session'[s] = session[s] \/ HandlerOK(session[s])',
           \A t \in todo' : t \in todo \/ TaskOK(t)',
           LockFacts', OneVerification'
    PROVE  GoodStep
  <1> USE IInvByRow
  <1>1. HandlerFacts'
    <2> SUFFICES ASSUME NEW s \in Sessions, session'[s] = session[s]
                 PROVE  HandlerOK(session[s])'
      BY DEF HandlerFacts
    <2>1. session[s] \in Op /\ HandlerOK(session[s])
      BY DEF IInv, TypeOK, HandlerFacts
    <2>2. ASSUME NEW p, p = session[s] PROVE HandlerOK(p)'
      BY <2>1, <2>2, HandlerFrame DEF IInv
    <2> QED
      BY <2>2 DEF HandlerOK
  <1>2. TaskFacts'
    BY TaskFrame DEF IInv, TaskFacts, TypeOK
  <1> QED
    BY <1>1, <1>2, IInvByRow, PTL DEF GoodStep

\* The lock stays, and no handler starts verifying.
LEMMA LockFrame ==
    ASSUME TypeOK, LockFacts, OneVerification, pinLock' = pinLock, outlived' = outlived,
           \A s \in Sessions : session'[s].kind \in VerifyKinds =>
               session[s].kind \in VerifyKinds /\ session'[s].req = session[s].req
    PROVE  LockFacts' /\ OneVerification'
  <1>1. \A r \in Requests : Verifying(r)' \subseteq Verifying(r)
    BY DEF Verifying
  <1>2. ASSUME NEW r \in Requests
        PROVE  /\ Cardinality(Verifying(r)') \in Nat /\ Cardinality(Verifying(r)) \in Nat
               /\ Cardinality(Verifying(r)') <= Cardinality(Verifying(r)) /\ outlived[r] \in Nat
    BY <1>1, VerifyingShrinks, VerifyingCounted DEF TypeOK
  <1>3. LockFacts'
    BY <1>2 DEF LockFacts
  <1>4. OneVerification'
    BY <1>2 DEF OneVerification
  <1> QED
    BY <1>3, <1>4

\* No table changes.
LEMMA TablesKept ==
    ASSUME IInv, UNCHANGED requestVars
    PROVE  TablesGrow /\ RowsOK' /\ BidsOK' /\ AtMostOneAcceptedBid'
  BY IInvByRow DEF IInv, requestVars, TablesGrow, Keeps, KeepsBid, KeepsBatch, RowsOK, RowOK,
     BidsOK, AtMostOneAcceptedBid

\* One row is written.
LEMMA RowWritten ==
    ASSUME IInv, NEW r \in Requests, NEW row \in RequestRow, Keeps(req[r], row), RowOK(row),
           req' = [req EXCEPT ![r] = row], UNCHANGED <<bid, batch>>
    PROVE  /\ TablesGrow /\ RowsOK' /\ BidsOK' /\ AtMostOneAcceptedBid'
           /\ req' \in [Requests -> RequestRow]
  <1>1. TypeOK /\ RowsOK /\ BidsOK /\ AtMostOneAcceptedBid
    BY IInvByRow
  <1>2. TablesGrow
    BY <1>1 DEF TypeOK, TablesGrow, Keeps, KeepsBid, KeepsBatch
  <1>3. \A q \in Requests : req'[q] = IF q = r THEN row ELSE req[q]
    BY <1>1 DEF TypeOK
  <1>4. RowsOK'
    BY <1>1, <1>3 DEF RowsOK, RowOK
  <1>5. BidsOK' /\ AtMostOneAcceptedBid'
    BY <1>1 DEF BidsOK, AtMostOneAcceptedBid
  <1>6. req' \in [Requests -> RequestRow]
    BY <1>1 DEF TypeOK
  <1> QED
    BY <1>2, <1>4, <1>5, <1>6

\* A handler takes up op, and nothing else happens.
LEMMA SessionStep ==
    ASSUME IInv, NEW s \in Sessions, NEW op \in Op, HandlerOK(op),
           op.kind \in VerifyKinds =>
               session[s].kind \in VerifyKinds /\ op.req = session[s].req,
           session' = [session EXCEPT ![s] = op],
           UNCHANGED <<requestVars, workerVars, redisVars, moneyVars, crashes>>
    PROVE  GoodStep
  <1>1. TypeOK /\ LockFacts /\ OneVerification
    BY IInvByRow
  <1>2. TypeOK'
    BY <1>1 DEF TypeOK, requestVars, workerVars, redisVars, moneyVars
  <1>3. LockFacts' /\ OneVerification'
    BY <1>1, LockFrame DEF TypeOK, redisVars
  <1>4. HandlerOK(op)'
    BY <1>1, TablesKept, HandlerFrame
  <1>5. \A t \in Sessions : session'[t] = session[t] \/ HandlerOK(session[t])'
    BY <1>1, <1>4 DEF TypeOK, HandlerOK
  <1> QED
    BY <1>2, <1>3, <1>5, TablesKept, StepPreserves DEF workerVars

\* A handler writes one row and goes on with op.
LEMMA RowStep ==
    ASSUME IInv, NEW s \in Sessions, NEW op \in Op, HandlerOK(op),
           op.kind \in VerifyKinds =>
               session[s].kind \in VerifyKinds /\ op.req = session[s].req,
           NEW r \in Requests, NEW row \in RequestRow, Keeps(req[r], row), RowOK(row),
           req' = [req EXCEPT ![r] = row],
           session' = [session EXCEPT ![s] = op],
           UNCHANGED <<bid, batch, workerVars, redisVars, moneyVars, crashes>>
    PROVE  GoodStep
  <1>1. TypeOK /\ LockFacts /\ OneVerification
    BY IInvByRow
  <1>2. /\ TablesGrow /\ RowsOK' /\ BidsOK' /\ AtMostOneAcceptedBid'
        /\ req' \in [Requests -> RequestRow]
    BY RowWritten
  <1>3. TypeOK'
    BY <1>1, <1>2 DEF TypeOK, workerVars, redisVars, moneyVars
  <1>4. LockFacts' /\ OneVerification'
    BY <1>1, LockFrame DEF TypeOK, redisVars
  <1>5. HandlerOK(op)'
    BY <1>1, <1>2, HandlerFrame
  <1>6. \A t \in Sessions : session'[t] = session[t] \/ HandlerOK(session[t])'
    BY <1>1, <1>5 DEF TypeOK, HandlerOK
  <1> QED
    BY <1>2, <1>3, <1>4, <1>6, StepPreserves DEF workerVars

-----------------------------------------------------------------------------
(* The calls: each reads the tables and leaves a continuation. *)

\* The fields of a fresh continuation.
LEMMA CallFields ==
    ASSUME NEW k \in Kinds, NEW r \in Requests \cup {None}, NEW u \in Users \cup {None}
    PROVE  /\ Call(k, r, u) \in Op
           /\ Call(k, r, u).kind = k
           /\ Call(k, r, u).req = r
           /\ Call(k, r, u).user = u
           /\ Call(k, r, u).center = None
           /\ Call(k, r, u).bid = None
           /\ Call(k, r, u).batch = None
  BY DEF Call, Op

\* A session without a handler relies on nothing.
LEMMA IdleOK == Idle \in Op /\ HandlerOK(Idle) /\ Idle.kind \notin VerifyKinds
  BY CallFields DEF Idle, Kinds, HandlerOK, CollectorKinds, VerifyKinds

\* The value of a request, and so its guarantee, is a natural number.
LEMMA ValueIsNat ==
    ASSUME NEW row \in RequestRow, NEW n \in Nat
    PROVE  Value(row, n) \in Nat /\ RequiredEscrow(Value(row, n)) \in Nat
  <1>1. Rate(row.center) \in Nat
    BY ConfigurationOK DEF Rate
  <1>2. \A i, j \in Nat : i * j \in Nat
    OBVIOUS
  <1> QED
    BY <1>1, <1>2 DEF Value, RequiredEscrow

\* A call that leaves a well-founded continuation preserves the invariant.
LEMMA BeginPreserves ==
    ASSUME IInv, NEW s \in Sessions, NEW k, NEW op \in Op, HandlerOK(op),
           op.kind \notin VerifyKinds, Begin(s, k, op),
           UNCHANGED <<requestVars, workerVars, redisVars, moneyVars, crashes>>
    PROVE  GoodStep
  BY SessionStep DEF Begin

\* updateBatch reads a batch that exists and leaves it to its write.
LEMMA DispatchCallPreserves ==
    ASSUME IInv, NEW s \in Sessions, NEW c \in Collectors, NEW b \in Batches, NEW d \in Centers,
           DispatchBatch(s, c, b, d)
    PROVE  GoodStep
  <1>1. PICK z \in Op : z = Call("dispatch", None, c) /\ z.kind = "dispatch" /\ z.user = c
    BY CallFields DEF Kinds, VerifyKinds, Users
  <1>2. PICK op : op = [z EXCEPT !.batch = b, !.center = d]
    BY Zenon
  <1>3. Begin(s, "dispatch", op)
    BY <1>1, <1>2, Zenon DEF DispatchBatch
  <1>4. op \in Op /\ op.kind = "dispatch" /\ op.user = c /\ op.batch = b
    <2>1. op \in Op
      BY <1>2, Zenon DEF Op
    <2>2. op.kind = z.kind /\ op.user = z.user /\ op.batch = b
      BY <1>2, SMT DEF Op
    <2> QED
      BY <1>1, <2>1, <2>2, Zenon
  <1>5. HandlerOK(op) /\ op.kind \notin VerifyKinds
    BY <1>4 DEF DispatchBatch, HandlerOK, CollectorKinds, VerifyKinds
  <1> QED
    BY <1>3, <1>4, <1>5, BeginPreserves DEF DispatchBatch

\* Every endpoint's first step, which reads and checks, preserves the invariant.
LEMMA CallsPreserve ==
    ASSUME IInv, NEW s \in Sessions, CallOf(s)
    PROVE  GoodStep
  <1>0. TypeOK /\ RowsOK /\ BidsOK
    BY IInvByRow
  <1> USE <1>0, NoneIsNoId, CallFields DEF Users, Kinds, VerifyKinds
  <1>1. ASSUME NEW h \in Households, Create(s, h) PROVE GoodStep
    <2> DEFINE op == Call("create", None, h)
    <2>1. op \in Op /\ HandlerOK(op) /\ op.kind \notin VerifyKinds
      BY DEF Op, HandlerOK, CollectorKinds
    <2> QED
      BY <1>1, <2>1, BeginPreserves DEF Create
  <1>2. ASSUME NEW h \in Households, NEW r \in Requests, CancelByHousehold(s, h, r) PROVE GoodStep
    <2> DEFINE op == Call("cancel", r, h)
    <2>1. op \in Op /\ HandlerOK(op) /\ op.kind \notin VerifyKinds
      BY <1>2 DEF CancelByHousehold, Op, HandlerOK, CollectorKinds, Unassigned
    <2> QED
      BY <1>2, <2>1, BeginPreserves DEF CancelByHousehold
  <1>3. ASSUME NEW h \in Households, NEW r \in Requests, Edit(s, h, r) PROVE GoodStep
    <2>1. PICK i \in Items : Begin(s, "edit", [Call("edit", r, h) EXCEPT !.value = i])
      BY <1>3 DEF Edit
    <2> DEFINE op == [Call("edit", r, h) EXCEPT !.value = i]
    <2>2. op \in Op /\ HandlerOK(op) /\ op.kind \notin VerifyKinds
      BY <1>3, ConfigurationOK DEF Edit, Op, HandlerOK, CollectorKinds
    <2> QED
      BY <1>3, <2>1, <2>2, BeginPreserves DEF Edit
  <1>4. ASSUME NEW h \in Households, NEW r \in Requests, NEW b \in Bids, SelectBid(s, h, r, b)
        PROVE  GoodStep
    <2> DEFINE op == [Call("selectCheck", r, h) EXCEPT !.bid = b]
    <2>1. op \in Op /\ HandlerOK(op) /\ op.kind \notin VerifyKinds
      BY <1>4 DEF SelectBid, Op, HandlerOK, CollectorKinds
    <2> QED
      BY <1>4, <2>1, BeginPreserves DEF SelectBid
  <1>5. ASSUME NEW c \in Centers, NEW r \in Requests, SubmitBid(s, c, r) PROVE GoodStep
    <2> DEFINE own == {b \in Bids : bid[b].req = r /\ bid[b].center = c}
    <2>1. PICK b \in IF own = {} THEN {None} ELSE own :
             Begin(s, "bid", [Call("bid", r, c) EXCEPT !.bid = b])
      BY <1>5 DEF SubmitBid
    <2> DEFINE Chosen == b = None \/ (b \in Bids /\ bid[b].status # "NONE")
    <2>2. Chosen
      <3>1. CASE b = None
        BY <3>1
      <3>2. CASE b \in Bids /\ bid[b].center = c
        BY <3>2 DEF BidsOK, NoBid
      <3> QED
        BY <2>1, <3>1, <3>2, Zenon
    <2> DEFINE op == [Call("bid", r, c) EXCEPT !.bid = b]
    <2>3. op \in Op /\ HandlerOK(op) /\ op.kind \notin VerifyKinds
      BY <1>5, <2>2 DEF SubmitBid, Op, HandlerOK, CollectorKinds
    <2> QED
      BY <1>5, <2>1, <2>3, BeginPreserves DEF SubmitBid
  <1>6. ASSUME NEW c \in Centers, NEW r \in Requests, ClaimAutomatic(s, c, r) PROVE GoodStep
    <2> DEFINE op == Call("claim", r, c)
    <2>1. op \in Op /\ HandlerOK(op) /\ op.kind \notin VerifyKinds
      BY <1>6 DEF ClaimAutomatic, Op, HandlerOK, CollectorKinds
    <2> QED
      BY <1>6, <2>1, BeginPreserves DEF ClaimAutomatic
  <1>7. ASSUME NEW c \in Centers, NEW b \in Bids, WithdrawBid(s, c, b) PROVE GoodStep
    <2> DEFINE op == [Call("withdraw", None, c) EXCEPT !.bid = b]
    <2>1. op \in Op /\ HandlerOK(op) /\ op.kind \notin VerifyKinds
      BY <1>7 DEF WithdrawBid, Op, HandlerOK, CollectorKinds
    <2> QED
      BY <1>7, <2>1, BeginPreserves DEF WithdrawBid
  <1>8. ASSUME NEW c \in Collectors, NEW r \in Requests, Accept(s, c, r) PROVE GoodStep
    <2> DEFINE v == RequiredEscrow(Value(req[r], req[r].items))
    <2> DEFINE op == [Call("acceptCheck", r, c) EXCEPT !.value = v]
    <2>1. v \in Nat
      BY ValueIsNat DEF TypeOK, RequestRow
    <2> HIDE DEF v
    <2>2. op \in Op /\ HandlerOK(op) /\ op.kind \notin VerifyKinds
      BY <1>8, <2>1 DEF Accept, Assignable, Op, HandlerOK, CollectorKinds
    <2>3. Begin(s, "accept", op)
      BY <1>8 DEF Accept, v
    <2> QED
      BY <1>8, <2>2, <2>3, BeginPreserves DEF Accept
  <1>9. ASSUME NEW c \in Collectors, NEW r \in Requests, CancelByCollector(s, c, r) PROVE GoodStep
    <2> DEFINE op == Call("cancel", r, c)
    <2>1. op \in Op /\ HandlerOK(op) /\ op.kind \notin VerifyKinds
      BY <1>9 DEF CancelByCollector, RowsOK, RowOK, Op, HandlerOK, CollectorKinds
    <2> QED
      BY <1>9, <2>1, BeginPreserves DEF CancelByCollector
  <1>10. ASSUME NEW c \in Collectors, NEW r \in Requests, Abandon(s, c, r) PROVE GoodStep
    <2> DEFINE op == Call("abandon", r, c)
    <2>1. op \in Op /\ HandlerOK(op) /\ op.kind \notin VerifyKinds
      BY <1>10 DEF Abandon, Op, HandlerOK, CollectorKinds
    <2> QED
      BY <1>10, <2>1, BeginPreserves DEF Abandon
  <1>11. ASSUME NEW c \in Collectors, NEW r \in Requests, StartRoute(s, c, r) PROVE GoodStep
    <2> DEFINE op == Call("startRoute", r, c)
    <2>1. op \in Op /\ HandlerOK(op) /\ op.kind \notin VerifyKinds
      BY <1>11 DEF StartRoute, RowsOK, RowOK, InService, Op, HandlerOK, CollectorKinds
    <2> QED
      BY <1>11, <2>1, BeginPreserves DEF StartRoute
  <1>12. ASSUME NEW c \in Collectors, NEW r \in Requests, UpdateLocation(s, c, r) PROVE GoodStep
    <2> DEFINE op == Call("routeCache", r, c)
    <2>1. op \in Op /\ HandlerOK(op) /\ op.kind \notin VerifyKinds
      BY <1>12 DEF UpdateLocation, Op, HandlerOK, CollectorKinds
    <2> QED
      BY <1>12, <2>1, BeginPreserves DEF UpdateLocation
  <1>13. ASSUME NEW c \in Collectors, NEW r \in Requests, ReachDestination(s, c, r) PROVE GoodStep
    <2> DEFINE op == Call("reach", r, c)
    <2>1. op \in Op /\ HandlerOK(op) /\ op.kind \notin VerifyKinds
      BY <1>13 DEF ReachDestination, RowsOK, RowOK, InService, Op, HandlerOK, CollectorKinds
    <2> QED
      BY <1>13, <2>1, BeginPreserves DEF ReachDestination
  <1>14. ASSUME NEW c \in Collectors, NEW r \in Requests, Verify(s, c, r) PROVE GoodStep
    <2> DEFINE op == Call("verifyRead", r, c)
    <2>1. op \in Op /\ HandlerOK(op) /\ op.kind \in VerifyKinds /\ op.req = r
      BY <1>14 DEF Verify, Op, HandlerOK, CollectorKinds
    <2>2. session' = [session EXCEPT ![s] = op] /\ pinLock' = [pinLock EXCEPT ![r] = TRUE]
      BY <1>14 DEF Verify, Begin
    <2>3. TypeOK'
      BY <1>14, <2>1, <2>2 DEF Verify, TypeOK, requestVars, workerVars, moneyVars
    <2>4. LockFacts' /\ OneVerification'
      <3>1. ~pinLock[r] /\ pinLock' = [pinLock EXCEPT ![r] = TRUE] /\ outlived' = outlived
        BY <1>14 DEF Verify, LockIsFree
      <3>2. ASSUME NEW q \in Requests, q # r PROVE Verifying(q)' \subseteq Verifying(q)
        BY <2>1, <2>2, <3>2 DEF Verifying, TypeOK
      <3>3. Verifying(r)' \subseteq Verifying(r) \cup {s}
        BY <2>1, <2>2 DEF Verifying, TypeOK
      <3>4. /\ Cardinality(Verifying(r)') <= Cardinality(Verifying(r)) + 1
            /\ Cardinality(Verifying(r)') \in Nat /\ Cardinality(Verifying(r)) \in Nat
        BY <3>3, VerifyingGrows, VerifyingCounted
      <3>5. Cardinality(Verifying(r)') <= 1 + outlived[r]
        <4>1. Cardinality(Verifying(r)) <= outlived[r] /\ outlived[r] \in Nat
          BY <3>1, VerifyingCounted DEF IInv, TypeOK, LockFacts
        <4> QED
          BY <3>4, <4>1
      <3>6. LockFacts'
        BY <3>1, <3>2, <3>5, OneLockMoves DEF IInv
      <3> QED
        BY <2>3, <3>6, LocksBoundVerifications, PTL
    <2>5. TablesGrow /\ RowsOK' /\ BidsOK' /\ AtMostOneAcceptedBid'
      BY <1>14, TablesKept DEF Verify
    <2>6. HandlerOK(op)'
      BY <2>1, <2>5, HandlerFrame
    <2>7. \A t \in Sessions : session'[t] = session[t] \/ HandlerOK(session[t])'
      BY <2>2, <2>6 DEF TypeOK, HandlerOK
    <2> QED
      BY <1>14, <2>3, <2>4, <2>5, <2>7, StepPreserves DEF Verify, workerVars
  <1>15. ASSUME NEW c \in Collectors, NEW r \in Requests, ReportNoShow(s, c, r) PROVE GoodStep
    <2> DEFINE op == [Call("noShow", r, c) EXCEPT !.score = score[req[r].household]]
    <2>1. score[req[r].household] \in 2..10
      BY <1>15 DEF ReportNoShow, AtTheDoor, RowsOK, RowOK, TypeOK
    <2>2. op \in Op /\ HandlerOK(op) /\ op.kind \notin VerifyKinds
      BY <1>15, <2>1 DEF ReportNoShow, AtTheDoor, RowsOK, RowOK, InService, Op, HandlerOK,
                         CollectorKinds
    <2> QED
      BY <1>15, <2>2, BeginPreserves DEF ReportNoShow
  <1>16. ASSUME NEW c \in Collectors, NEW r \in Requests, RejectOnSite(s, c, r) PROVE GoodStep
    <2> DEFINE op == Call("reject", r, c)
    <2>1. op \in Op /\ HandlerOK(op) /\ op.kind \notin VerifyKinds
      BY <1>16 DEF RejectOnSite, AtTheDoor, RowsOK, RowOK, InService, Op, HandlerOK,
                   CollectorKinds
    <2> QED
      BY <1>16, <2>1, BeginPreserves DEF RejectOnSite
  <1>17. ASSUME NEW c \in Collectors, NEW b \in Batches, NEW d \in Centers,
                DispatchBatch(s, c, b, d)
         PROVE  GoodStep
    BY <1>17, DispatchCallPreserves
  <1> QED
    BY <1>1, <1>2, <1>3, <1>4, <1>5, <1>6, <1>7, <1>8, <1>9, <1>10, <1>11, <1>12, <1>13,
       <1>14, <1>15, <1>16, <1>17 DEF CallOf

-----------------------------------------------------------------------------
(* The writes of one row: each way of rewriting a row yields a good row that   *)
(* keeps what the others rely on.                                              *)

\* The values the rewritten columns take have the types of their columns.
LEMMA FieldValues ==
    /\ "PENDING" \in Status /\ "AUCTION_ACTIVE" \in Status /\ "AUCTION_ASSIGNED" \in Status
    /\ "ACCEPTED" \in Status /\ "EN_ROUTE" \in Status /\ "ARRIVED" \in Status
    /\ "COMPLETED" \in Status /\ "CANCELLED" \in Status /\ "UNATTENDED" \in Status
    /\ "REJECTED_ON_SITE" \in Status
    /\ 0 \in Nat /\ 0 \in 0..2 /\ TRUE \in BOOLEAN
  BY DEF Status

\* What the lemmas below show of a row that replaces another.
Replaces(new, old) == new \in RequestRow /\ Keeps(old, new) /\ RowOK(new)

\* updateStatus CANCELLED.
LEMMA CancelledReplaces ==
    ASSUME NEW old \in RequestRow, old.status # "NONE", RowOK(old), NEW new, new = Cancelled(old)
    PROVE  Replaces(new, old)
  <1>1. new \in RequestRow
    BY FieldValues, Zenon DEF Cancelled, RequestRow
  <1>2. /\ new.status = "CANCELLED" /\ new.escrow = 0 /\ new.household = old.household
        /\ new.center = old.center /\ new.batch = old.batch /\ new.noShowFee = old.noShowFee
        /\ new.enRouteAt = old.enRouteAt /\ new.arrivedAt = old.arrivedAt
    BY SMT DEF Cancelled, RequestRow
  <1> QED
    BY <1>1, <1>2 DEF Replaces, Keeps, RowOK, InService

\* editCollectionRequest.
LEMMA EditedReplaces ==
    ASSUME NEW old \in RequestRow, old.status # "NONE", RowOK(old), NEW n \in Nat,
           NEW new, new = [old EXCEPT !.items = n]
    PROVE  Replaces(new, old)
  <1>1. new \in RequestRow
    BY Zenon DEF RequestRow
  <1>2. /\ new.status = old.status /\ new.escrow = old.escrow /\ new.household = old.household
        /\ new.center = old.center /\ new.batch = old.batch /\ new.noShowFee = old.noShowFee
        /\ new.enRouteAt = old.enRouteAt /\ new.arrivedAt = old.arrivedAt
        /\ new.collector = old.collector
    BY SMT DEF RequestRow
  <1> QED
    BY <1>1, <1>2 DEF Replaces, Keeps, RowOK

\* updateStatus ACCEPTED, with the center read earlier still in the row.
LEMMA AcceptedReplaces ==
    ASSUME NEW old \in RequestRow, old.status # "NONE", old.center # None, RowOK(old),
           NEW c \in Collectors, NEW v \in Nat,
           NEW new, new = [old EXCEPT !.status = "ACCEPTED", !.collector = c, !.escrow = v,
                                      !.wait = 0]
    PROVE  Replaces(new, old)
  <1>1. new \in RequestRow
    BY FieldValues, Zenon DEF RequestRow
  <1>2. /\ new.status = "ACCEPTED" /\ new.collector = c /\ new.household = old.household
        /\ new.center = old.center /\ new.batch = old.batch /\ new.noShowFee = old.noShowFee
        /\ new.enRouteAt = old.enRouteAt /\ new.arrivedAt = old.arrivedAt
    BY SMT DEF RequestRow
  <1>3. c # None
    BY NoneIsNoId
  <1> QED
    BY <1>1, <1>2, <1>3 DEF Replaces, Keeps, RowOK

\* The inactivity scan's release.
LEMMA ReleasedReplaces ==
    ASSUME NEW old \in RequestRow, old.status # "NONE", RowOK(old), NEW new, new = Released(old)
    PROVE  Replaces(new, old)
  <1>1. new \in RequestRow
    BY FieldValues, Zenon DEF Released, RequestRow
  <1>2. /\ new.status = "PENDING" /\ new.escrow = 0 /\ new.household = old.household
        /\ new.center = old.center /\ new.batch = old.batch /\ new.noShowFee = old.noShowFee
        /\ new.enRouteAt = old.enRouteAt /\ new.arrivedAt = old.arrivedAt
    BY SMT DEF Released, RequestRow
  <1> QED
    BY <1>1, <1>2 DEF Replaces, Keeps, RowOK, InService

\* abandonCollectionRequest, which also clears the batch.
LEMMA UnbatchedReplaces ==
    ASSUME NEW old \in RequestRow, old.status = "PENDING", RowOK(old),
           NEW new, new = [old EXCEPT !.batch = None]
    PROVE  Replaces(new, old)
  <1>1. new \in RequestRow
    BY Zenon DEF RequestRow
  <1>2. /\ new.status = old.status /\ new.escrow = old.escrow /\ new.household = old.household
        /\ new.center = old.center /\ new.batch = None /\ new.noShowFee = old.noShowFee
        /\ new.enRouteAt = old.enRouteAt /\ new.arrivedAt = old.arrivedAt
        /\ new.collector = old.collector
    BY SMT DEF RequestRow
  <1> QED
    BY <1>1, <1>2 DEF Replaces, Keeps, RowOK

\* startRoute, even when the collector is gone by now.
LEMMA EnRouteReplaces ==
    ASSUME NEW old \in RequestRow, old.status # "NONE", old.center # None, RowOK(old),
           NEW new, new = [old EXCEPT !.status = "EN_ROUTE", !.enRouteAt = TRUE, !.wait = 0]
    PROVE  Replaces(new, old)
  <1>1. new \in RequestRow
    BY FieldValues, Zenon DEF RequestRow
  <1>2. /\ new.status = "EN_ROUTE" /\ new.escrow = old.escrow /\ new.household = old.household
        /\ new.center = old.center /\ new.batch = old.batch /\ new.noShowFee = old.noShowFee
        /\ new.enRouteAt /\ new.arrivedAt = old.arrivedAt /\ new.collector = old.collector
    BY SMT DEF RequestRow
  <1> QED
    BY <1>1, <1>2 DEF Replaces, Keeps, RowOK

\* reachDestination, on a row that was once set out for.
LEMMA ArrivedReplaces ==
    ASSUME NEW old \in RequestRow, old.status # "NONE", old.center # None, old.enRouteAt,
           RowOK(old),
           NEW new, new = [old EXCEPT !.status = "ARRIVED", !.arrivedAt = TRUE, !.wait = 0]
    PROVE  Replaces(new, old)
  <1>1. new \in RequestRow
    BY FieldValues, Zenon DEF RequestRow
  <1>2. /\ new.status = "ARRIVED" /\ new.escrow = old.escrow /\ new.household = old.household
        /\ new.center = old.center /\ new.batch = old.batch
        /\ new.enRouteAt /\ new.arrivedAt /\ new.collector = old.collector
    BY SMT DEF RequestRow
  <1> QED
    BY <1>1, <1>2 DEF Replaces, Keeps, RowOK

\* reportNoShow and the no-show scan, on a row that was once arrived at.
LEMMA UnattendedReplaces ==
    ASSUME NEW old \in RequestRow, old.status # "NONE", old.center # None, old.enRouteAt,
           old.arrivedAt, RowOK(old), NEW new, new = Unattended(old)
    PROVE  Replaces(new, old)
  <1>1. new \in RequestRow
    BY FieldValues, Zenon DEF Unattended, RequestRow
  <1>2. /\ new.status = "UNATTENDED" /\ new.escrow = 0 /\ new.household = old.household
        /\ new.center = old.center /\ new.batch = old.batch
        /\ new.enRouteAt /\ new.arrivedAt
    BY SMT DEF Unattended, RequestRow
  <1> QED
    BY <1>1, <1>2 DEF Replaces, Keeps, RowOK

\* rejectOnSite.
LEMMA RejectedReplaces ==
    ASSUME NEW old \in RequestRow, old.status # "NONE", old.center # None, old.enRouteAt,
           old.arrivedAt, RowOK(old),
           NEW new, new = [old EXCEPT !.status = "REJECTED_ON_SITE", !.escrow = 0, !.wait = 0]
    PROVE  Replaces(new, old)
  <1>1. new \in RequestRow
    BY FieldValues, Zenon DEF RequestRow
  <1>2. /\ new.status = "REJECTED_ON_SITE" /\ new.escrow = 0 /\ new.household = old.household
        /\ new.center = old.center /\ new.batch = old.batch
        /\ new.enRouteAt /\ new.arrivedAt
    BY SMT DEF RequestRow
  <1> QED
    BY <1>1, <1>2 DEF Replaces, Keeps, RowOK

\* claimAutomatic, whatever the status is by now.
LEMMA ClaimedReplaces ==
    ASSUME NEW old \in RequestRow, old.status # "NONE", RowOK(old),
           NEW c \in Centers, NEW w \in 0..2,
           NEW new, new = [old EXCEPT !.center = c, !.wait = w]
    PROVE  Replaces(new, old)
  <1>1. new \in RequestRow
    BY Zenon DEF RequestRow
  <1>2. /\ new.status = old.status /\ new.escrow = old.escrow /\ new.household = old.household
        /\ new.center = c /\ new.batch = old.batch /\ new.noShowFee = old.noShowFee
        /\ new.enRouteAt = old.enRouteAt /\ new.arrivedAt = old.arrivedAt
        /\ new.collector = old.collector
    BY SMT DEF RequestRow
  <1>3. c # None
    BY NoneIsNoId
  <1> QED
    BY <1>1, <1>2, <1>3 DEF Replaces, Keeps, RowOK

\* selectBid's write to the request.
LEMMA AssignedReplaces ==
    ASSUME NEW old \in RequestRow, old.status # "NONE", RowOK(old), NEW c \in Centers,
           NEW new, new = [old EXCEPT !.status = "AUCTION_ASSIGNED", !.center = c, !.wait = 0]
    PROVE  Replaces(new, old)
  <1>1. new \in RequestRow
    BY FieldValues, Zenon DEF RequestRow
  <1>2. /\ new.status = "AUCTION_ASSIGNED" /\ new.escrow = old.escrow
        /\ new.household = old.household /\ new.noShowFee = old.noShowFee
        /\ new.center = c /\ new.batch = old.batch
        /\ new.enRouteAt = old.enRouteAt /\ new.arrivedAt = old.arrivedAt
        /\ new.collector = old.collector
    BY SMT DEF RequestRow
  <1>3. c # None
    BY NoneIsNoId
  <1> QED
    BY <1>1, <1>2, <1>3 DEF Replaces, Keeps, RowOK

\* atomicCompleteRequest, with a batch that exists.
LEMMA CompletedReplaces ==
    ASSUME NEW old \in RequestRow, old.status \in InService, RowOK(old), NEW b \in Batches,
           batch[b].status # "NONE",
           NEW new, new = [old EXCEPT !.status = "COMPLETED", !.batch = b, !.wait = 0]
    PROVE  Replaces(new, old)
  <1>1. new \in RequestRow
    BY FieldValues, Zenon DEF RequestRow
  <1>2. /\ new.status = "COMPLETED" /\ new.escrow = old.escrow
        /\ new.household = old.household /\ new.noShowFee = old.noShowFee
        /\ new.center = old.center /\ new.batch = b
        /\ new.enRouteAt = old.enRouteAt /\ new.arrivedAt = old.arrivedAt
        /\ new.collector = old.collector
    BY SMT DEF RequestRow
  <1>3. b # None
    BY NoneIsNoId
  <1> QED
    BY <1>1, <1>2, <1>3 DEF Replaces, Keeps, RowOK, InService

\* The pending scan's cancellation, which keeps the guarantee.
LEMMA ExpiredReplaces ==
    ASSUME NEW old \in RequestRow, old.status # "NONE", RowOK(old),
           NEW new, new = [old EXCEPT !.status = "CANCELLED", !.wait = 0]
    PROVE  Replaces(new, old)
  <1>1. new \in RequestRow
    BY FieldValues, Zenon DEF RequestRow
  <1>2. /\ new.status = "CANCELLED" /\ new.escrow = old.escrow
        /\ new.household = old.household /\ new.noShowFee = old.noShowFee
        /\ new.center = old.center /\ new.batch = old.batch
        /\ new.enRouteAt = old.enRouteAt /\ new.arrivedAt = old.arrivedAt
        /\ new.collector = old.collector
    BY SMT DEF RequestRow
  <1> QED
    BY <1>1, <1>2 DEF Replaces, Keeps, RowOK, InService

\* The auction scan's fallback.
LEMMA FallenBackReplaces ==
    ASSUME NEW old \in RequestRow, old.status # "NONE", RowOK(old),
           NEW new, new = [old EXCEPT !.status = "PENDING", !.mode = "AUTOMATIC", !.wait = 0]
    PROVE  Replaces(new, old)
  <1>1. new \in RequestRow
    BY FieldValues, Zenon DEF RequestRow
  <1>2. /\ new.status = "PENDING" /\ new.escrow = old.escrow
        /\ new.household = old.household /\ new.noShowFee = old.noShowFee
        /\ new.center = old.center /\ new.batch = old.batch
        /\ new.enRouteAt = old.enRouteAt /\ new.arrivedAt = old.arrivedAt
        /\ new.collector = old.collector
    BY SMT DEF RequestRow
  <1> QED
    BY <1>1, <1>2 DEF Replaces, Keeps, RowOK, InService

\* The clock.
LEMMA AgedReplaces ==
    ASSUME NEW old \in RequestRow, old.status # "NONE", RowOK(old), NEW n \in 0..2,
           NEW new, new = [old EXCEPT !.age = n] \/ new = [old EXCEPT !.wait = n]
    PROVE  Replaces(new, old)
  <1>1. new \in RequestRow
    BY Zenon DEF RequestRow
  <1>2. /\ new.status = old.status /\ new.escrow = old.escrow
        /\ new.household = old.household /\ new.noShowFee = old.noShowFee
        /\ new.center = old.center /\ new.batch = old.batch
        /\ new.enRouteAt = old.enRouteAt /\ new.arrivedAt = old.arrivedAt
        /\ new.collector = old.collector
    BY SMT DEF RequestRow
  <1> QED
    BY <1>1, <1>2 DEF Replaces, Keeps, RowOK

\* create, on a row that does not exist yet.
LEMMA CreatedReplaces ==
    ASSUME NEW old \in RequestRow, old.status = "NONE", NEW m \in Modes, NEW h \in Households,
           NEW i \in Items, NEW d \in Donations, NEW new, new = Created(m, h, i, d)
    PROVE  Replaces(new, old)
  <1>1. new \in RequestRow
    BY ConfigurationOK DEF Created, RequestRow, Status
  <1>2. /\ new.status \in {"AUCTION_ACTIVE", "PENDING"} /\ new.household = h
        /\ new.escrow = 0 /\ new.batch = None /\ ~new.noShowFee
    BY DEF Created
  <1> QED
    BY <1>1, <1>2 DEF Replaces, Keeps, RowOK, InService

\* What a handler in flight can count on.
LEMMA InFlight ==
    ASSUME IInv, NEW s \in Sessions
    PROVE  /\ session[s] \in Op
           /\ HandlerOK(session[s])
           /\ \A r \in Requests : req[r] \in RequestRow /\ RowOK(req[r])
  BY IInvByRow DEF TypeOK, HandlerFacts, RowsOK

\* A handler writes one row and is done.
LEMMA WriteAndFinish ==
    ASSUME IInv, NEW s \in Sessions, NEW r \in Requests, NEW row, Replaces(row, req[r]),
           Update(r, row), Finish(s),
           UNCHANGED <<bid, batch, workerVars, redisVars, moneyVars, crashes>>
    PROVE  GoodStep
  BY RowStep, IdleOK DEF Replaces, Update, Finish

\* The handlers that write one row and are done.
LEMMA RowWritesPreserve ==
    ASSUME IInv, NEW s \in Sessions,
           \/ CreateInsert(s) \/ CancelWrite(s) \/ EditWrite(s) \/ ClaimWrite(s)
           \/ AcceptWrite(s) \/ AbandonWrite(s) \/ RejectWrite(s)
    PROVE  GoodStep
  <1> DEFINE r == session[s].req
  <1>0. /\ session[s] \in Op
        /\ HandlerOK(session[s])
        /\ \A q \in Requests : req[q] \in RequestRow /\ RowOK(req[q])
    BY InFlight
  <1>a. session[s].kind \in {"cancel", "edit", "claim", "accept", "abandon", "reject"}
            => r \in Requests /\ req[r].status # "NONE"
    BY <1>0 DEF HandlerOK
  <1>1. CASE CreateInsert(s)
    <2>1. session[s].user \in Households
      BY <1>0, <1>1 DEF CreateInsert, Running, HandlerOK
    <2>2. PICK q \in Requests, m \in Modes, i \in Items, d \in Donations :
             req[q].status = "NONE" /\ Update(q, Created(m, session[s].user, i, d))
      BY <1>1 DEF CreateInsert
    <2>3. Replaces(Created(m, session[s].user, i, d), req[q])
      BY <1>0, <2>1, <2>2, CreatedReplaces
    <2> QED
      BY <1>1, <2>2, <2>3, WriteAndFinish DEF CreateInsert
  <1>2. CASE CancelWrite(s)
    <2>1. r \in Requests /\ req[r].status # "NONE"
      BY <1>a, <1>2 DEF CancelWrite, Running
    <2>2. Replaces(Cancelled(req[r]), req[r])
      BY <1>0, <2>1, CancelledReplaces
    <2> QED
      BY <1>2, <2>1, <2>2, WriteAndFinish DEF CancelWrite
  <1>3. CASE EditWrite(s)
    <2>1. r \in Requests /\ req[r].status # "NONE" /\ session[s].value \in Nat
      BY <1>0, <1>a, <1>3 DEF EditWrite, Running, Op
    <2>2. CASE req[r].status = "PENDING" /\ req[r].household = session[s].user
      <3>1. Replaces([req[r] EXCEPT !.items = session[s].value], req[r])
        BY <1>0, <2>1, EditedReplaces
      <3>2. Update(r, [req[r] EXCEPT !.items = session[s].value])
        BY <1>3, <2>2 DEF EditWrite
      <3> QED
        BY <1>3, <2>1, <3>1, <3>2, WriteAndFinish DEF EditWrite
    <2>3. CASE ~(req[r].status = "PENDING" /\ req[r].household = session[s].user)
      BY <1>3, <2>3, SessionStep, IdleOK DEF EditWrite, Finish, requestVars
    <2> QED
      BY <2>2, <2>3
  <1>4. CASE ClaimWrite(s)
    <2> DEFINE w == IF req[r].status = "ARRIVED" THEN req[r].wait ELSE 0
    <2>1. r \in Requests /\ req[r].status # "NONE" /\ session[s].user \in Centers
      BY <1>0, <1>a, <1>4 DEF ClaimWrite, Running, HandlerOK
    <2>2. w \in 0..2
      BY <1>0, <2>1 DEF RequestRow
    <2>3. Update(r, [req[r] EXCEPT !.center = session[s].user, !.wait = w])
      BY <1>4, Zenon DEF ClaimWrite
    <2> HIDE DEF w
    <2>4. Replaces([req[r] EXCEPT !.center = session[s].user, !.wait = w], req[r])
      BY <1>0, <2>1, <2>2, ClaimedReplaces
    <2> QED
      BY <1>4, <2>1, <2>3, <2>4, WriteAndFinish DEF ClaimWrite
  <1>5. CASE AcceptWrite(s)
    <2> DEFINE row == [req[r] EXCEPT !.status = "ACCEPTED", !.collector = session[s].user,
                                     !.escrow = session[s].value, !.wait = 0]
    <2>1. /\ r \in Requests /\ req[r].status # "NONE" /\ req[r].center # None
          /\ session[s].user \in Collectors /\ session[s].value \in Nat
      BY <1>0, <1>a, <1>5 DEF AcceptWrite, Running, HandlerOK, CollectorKinds, Op
    <2>2. Replaces(row, req[r])
      BY <1>0, <2>1, AcceptedReplaces
    <2> QED
      BY <1>5, <2>1, <2>2, WriteAndFinish DEF AcceptWrite
  <1>6. CASE AbandonWrite(s)
    <2>1. r \in Requests /\ req[r].status # "NONE"
      BY <1>a, <1>6 DEF AbandonWrite, Running
    <2>2. PICK free : free = Released(req[r])
      BY Zenon
    <2>3. Replaces(free, req[r]) /\ free.status = "PENDING"
      BY <1>0, <2>1, <2>2, ReleasedReplaces DEF Released, RequestRow
    <2>4. PICK row : row = [free EXCEPT !.batch = None]
      BY Zenon
    <2>5. Replaces(row, free)
      BY <2>3, <2>4, UnbatchedReplaces DEF Replaces
    <2>6. Replaces(row, req[r])
      BY <2>3, <2>5 DEF Replaces, Keeps
    <2>7. Update(r, row)
      BY <1>6, <2>2, <2>4, Zenon DEF AbandonWrite
    <2> QED
      BY <1>6, <2>1, <2>6, <2>7, WriteAndFinish DEF AbandonWrite
  <1>7. CASE RejectWrite(s)
    <2> DEFINE row == [req[r] EXCEPT !.status = "REJECTED_ON_SITE", !.escrow = 0, !.wait = 0]
    <2>1. /\ r \in Requests /\ req[r].status # "NONE" /\ req[r].center # None
          /\ req[r].enRouteAt /\ req[r].arrivedAt
      BY <1>0, <1>a, <1>7 DEF RejectWrite, Running, HandlerOK
    <2>2. Replaces(row, req[r])
      BY <1>0, <2>1, RejectedReplaces
    <2> QED
      BY <1>7, <2>1, <2>2, WriteAndFinish DEF RejectWrite
  <1> QED
    BY <1>1, <1>2, <1>3, <1>4, <1>5, <1>6, <1>7

\* The handlers that write one row and go on, and those that only check again.
LEMMA RowWritesGoOn ==
    ASSUME IInv, NEW s \in Sessions,
           \/ StartRouteWrite(s) \/ ReachWrite(s) \/ NoShowWrite(s)
           \/ SelectCheck(s) \/ AcceptCheck(s)
    PROVE  GoodStep
  <1> DEFINE r == session[s].req
  <1>0. /\ session[s] \in Op
        /\ HandlerOK(session[s])
        /\ \A q \in Requests : req[q] \in RequestRow /\ RowOK(req[q])
    BY InFlight
  <1>a. session[s].kind \in {"startRoute", "reach", "noShow", "selectCheck", "acceptCheck"}
            => r \in Requests /\ req[r].status # "NONE"
    BY <1>0 DEF HandlerOK
  <1>1. CASE StartRouteWrite(s)
    <2>1. PICK row : row = [req[r] EXCEPT !.status = "EN_ROUTE", !.enRouteAt = TRUE, !.wait = 0]
      BY Zenon
    <2>2. r \in Requests /\ req[r].status # "NONE" /\ req[r].center # None
      BY <1>0, <1>a, <1>1 DEF StartRouteWrite, Running, HandlerOK
    <2>3. Replaces(row, req[r]) /\ Update(r, row)
      BY <1>0, <1>1, <2>1, <2>2, EnRouteReplaces DEF StartRouteWrite
    <2>4. CASE req[r].collector = None
      BY <1>1, <2>2, <2>3, <2>4, WriteAndFinish DEF StartRouteWrite
    <2>5. CASE req[r].collector # None
      <3>1. PICK op : op = Call("routeCache", r, req[r].collector)
        BY Zenon
      <3>2. req[r].collector \in Collectors
        BY <1>0, <2>2, <2>5 DEF RequestRow
      <3>3. op \in Op /\ op.kind = "routeCache" /\ op.req = r /\ op.user = req[r].collector
        BY <2>2, <3>1, <3>2, CallFields DEF Kinds, VerifyKinds, Users
      <3>4. HandlerOK(op) /\ op.kind \notin VerifyKinds
        BY <2>2, <3>2, <3>3 DEF HandlerOK, CollectorKinds, VerifyKinds
      <3>5. session' = [session EXCEPT ![s] = op]
        BY <1>1, <2>5, <3>1, Zenon DEF StartRouteWrite, GoOn
      <3> QED
        BY <1>1, <2>2, <2>3, <3>3, <3>4, <3>5, RowStep
           DEF StartRouteWrite, Replaces, Update
    <2> QED
      BY <2>4, <2>5
  <1>2. CASE ReachWrite(s)
    <2>1. PICK row : row = [req[r] EXCEPT !.status = "ARRIVED", !.arrivedAt = TRUE, !.wait = 0]
      BY Zenon
    <2>2. /\ r \in Requests /\ req[r].status # "NONE" /\ req[r].center # None
          /\ req[r].enRouteAt /\ session[s].user \in Collectors
      BY <1>0, <1>a, <1>2 DEF ReachWrite, Running, HandlerOK, CollectorKinds
    <2>3. Replaces(row, req[r]) /\ Update(r, row)
      BY <1>0, <1>2, <2>1, <2>2, ArrivedReplaces DEF ReachWrite
    <2>4. PICK op : op = [session[s] EXCEPT !.kind = "reachPurge"]
      BY Zenon
    <2>5. op \in Op /\ op.kind = "reachPurge" /\ op.req = r /\ op.user = session[s].user
      BY <1>0, <2>4 DEF Op, Kinds
    <2>6. HandlerOK(op) /\ op.kind \notin VerifyKinds
      BY <2>2, <2>5 DEF HandlerOK, CollectorKinds, VerifyKinds
    <2>7. session' = [session EXCEPT ![s] = op]
      BY <1>2, <2>4, Zenon DEF ReachWrite, GoOn
    <2> QED
      BY <1>2, <2>2, <2>3, <2>5, <2>6, <2>7, RowStep DEF ReachWrite, Replaces, Update
  <1>3. CASE NoShowWrite(s)
    <2>1. PICK row : row = Unattended(req[r])
      BY Zenon
    <2>2. /\ r \in Requests /\ req[r].status # "NONE" /\ req[r].center # None
          /\ req[r].enRouteAt /\ req[r].arrivedAt /\ session[s].user \in Collectors
          /\ session[s].score \in 2..10
      BY <1>0, <1>a, <1>3 DEF NoShowWrite, Running, HandlerOK, CollectorKinds
    <2>3. Replaces(row, req[r]) /\ Update(r, row)
      BY <1>0, <1>3, <2>1, <2>2, UnattendedReplaces DEF NoShowWrite
    <2>4. PICK op : op = [session[s] EXCEPT !.kind = "noShowEffects"]
      BY Zenon
    <2>5. /\ op \in Op /\ op.kind = "noShowEffects" /\ op.req = r
          /\ op.user = session[s].user /\ op.score = session[s].score
      BY <1>0, <2>4 DEF Op, Kinds
    <2>6. HandlerOK(op) /\ op.kind \notin VerifyKinds
      BY <2>2, <2>5 DEF HandlerOK, CollectorKinds, VerifyKinds
    <2>7. session' = [session EXCEPT ![s] = op]
      BY <1>3, <2>4, Zenon DEF NoShowWrite, GoOn
    <2> QED
      BY <1>3, <2>2, <2>3, <2>5, <2>6, <2>7, RowStep DEF NoShowWrite, Replaces, Update
  <1>4. CASE SelectCheck(s)
    <2>1. PICK op : op = [session[s] EXCEPT !.kind = "select"]
      BY Zenon
    <2>2. op \in Op /\ op.kind = "select" /\ op.req = r /\ op.bid = session[s].bid
      BY <1>0, <2>1 DEF Op, Kinds
    <2>3. HandlerOK(op) /\ op.kind \notin VerifyKinds
      BY <1>0, <1>4, <2>2 DEF SelectCheck, Running, HandlerOK, CollectorKinds, VerifyKinds
    <2>4. session' = [session EXCEPT ![s] = op] \/ session' = [session EXCEPT ![s] = Idle]
      BY <1>4, <2>1, Zenon DEF SelectCheck, GoOn, Finish
    <2> QED
      BY <1>4, <2>2, <2>3, <2>4, IdleOK, SessionStep DEF SelectCheck
  <1>5. CASE AcceptCheck(s)
    <2>1. PICK op : op = [session[s] EXCEPT !.kind = "accept"]
      BY Zenon
    <2>2. op \in Op /\ op.kind = "accept" /\ op.req = r /\ op.user = session[s].user
      BY <1>0, <2>1 DEF Op, Kinds
    <2>3. HandlerOK(op) /\ op.kind \notin VerifyKinds
      BY <1>0, <1>5, <2>2 DEF AcceptCheck, Running, HandlerOK, CollectorKinds, VerifyKinds
    <2>4. session' = [session EXCEPT ![s] = op] \/ session' = [session EXCEPT ![s] = Idle]
      BY <1>5, <2>1, Zenon DEF AcceptCheck, GoOn, Finish
    <2> QED
      BY <1>5, <2>2, <2>3, <2>4, IdleOK, SessionStep DEF AcceptCheck
  <1> QED
    BY <1>1, <1>2, <1>3, <1>4, <1>5

-----------------------------------------------------------------------------
(* The other writes: bids, batches, Redis keys, balances and scores. *)

\* A handler goes on with op after a step that is otherwise in order.
LEMMA TableStep ==
    ASSUME IInv, NEW s \in Sessions, NEW op \in Op, HandlerOK(op)',
           op.kind \in VerifyKinds =>
               session[s].kind \in VerifyKinds /\ op.req = session[s].req,
           session' = [session EXCEPT ![s] = op],
           TypeOK', TablesGrow, RowsOK', BidsOK', AtMostOneAcceptedBid',
           todo' = todo, pinLock' = pinLock, outlived' = outlived
    PROVE  GoodStep
  <1>1. TypeOK /\ LockFacts /\ OneVerification
    BY IInvByRow
  <1>2. LockFacts' /\ OneVerification'
    BY <1>1, LockFrame DEF TypeOK
  <1>3. \A t \in Sessions : session'[t] = session[t] \/ HandlerOK(session[t])'
    BY <1>1 DEF TypeOK, HandlerOK
  <1> QED
    BY <1>2, <1>3, StepPreserves

\* A session without a handler relies on nothing after the step either.
LEMMA IdleStaysOK == HandlerOK(Idle)'
  BY CallFields DEF Idle, Kinds, HandlerOK, CollectorKinds, VerifyKinds

\* submitBid, withdrawBid and selectBid write bids: a bid keeps its request and
\* its center, and selecting one rejects all others of the request.
LEMMA BidWritesPreserve ==
    ASSUME IInv, NEW s \in Sessions,
           SelectWrite(s) \/ SubmitBidWrite(s) \/ WithdrawBidWrite(s)
    PROVE  GoodStep
  <1> DEFINE r == session[s].req
             x == session[s].bid
  <1>0. /\ session[s] \in Op
        /\ HandlerOK(session[s])
        /\ \A q \in Requests : req[q] \in RequestRow /\ RowOK(req[q])
    BY InFlight
  <1>a. TypeOK /\ RowsOK /\ BidsOK /\ AtMostOneAcceptedBid
    BY IInvByRow
  <1>b. Idle \in Op /\ Idle.kind \notin VerifyKinds /\ HandlerOK(Idle)'
    BY IdleOK, IdleStaysOK
  <1>1. CASE SelectWrite(s)
    <2>1. /\ r \in Requests /\ req[r].status # "NONE"
          /\ x \in Bids /\ bid[x].status # "NONE" /\ bid[x].req = r
      BY <1>0, <1>1 DEF SelectWrite, Running, HandlerOK
    <2>2. bid[x].center \in Centers
      BY <1>a, <2>1 DEF BidsOK
    <2>3. PICK row : row = [req[r] EXCEPT !.status = "AUCTION_ASSIGNED",
                                          !.center = bid[x].center, !.wait = 0]
      BY Zenon
    <2>4. Replaces(row, req[r]) /\ req' = [req EXCEPT ![r] = row]
      BY <1>0, <1>1, <2>1, <2>2, <2>3, AssignedReplaces DEF SelectWrite, Update
    <2>5. \A q \in Requests : req'[q] = IF q = r THEN row ELSE req[q]
      BY <1>a, <2>4 DEF TypeOK
    <2>6. bid' = [b \in Bids |-> IF b = x THEN [bid[b] EXCEPT !.status = "ACCEPTED"]
                                 ELSE IF bid[b].req = r THEN [bid[b] EXCEPT !.status = "REJECTED"]
                                 ELSE bid[b]]
      BY <1>1 DEF SelectWrite, Selected
    <2>7. \A b \in Bids :
             /\ bid'[b] \in BidRow
             /\ bid'[b].req = bid[b].req /\ bid'[b].center = bid[b].center
             /\ bid'[b].status = IF b = x THEN "ACCEPTED" ELSE IF bid[b].req = r THEN "REJECTED"
                                 ELSE bid[b].status
      BY <1>a, <2>6 DEF TypeOK, BidRow, BidStatus
    <2>8. TypeOK'
      BY <1>1, <1>a, <1>b, <2>1, <2>4, <2>6, <2>7
         DEF SelectWrite, Finish, TypeOK, Replaces, workerVars, redisVars, moneyVars
    <2>9. TablesGrow
      BY <1>1, <2>4, <2>5, <2>6, <2>7 DEF SelectWrite, TablesGrow, Keeps, KeepsBid, KeepsBatch,
                                          Replaces
    <2>10. RowsOK'
      BY <1>1, <1>a, <2>4, <2>5 DEF SelectWrite, RowsOK, RowOK, Replaces
    <2>11. \A b \in Bids : bid[b].status = "NONE" => bid'[b] = NoBid
      <3> SUFFICES ASSUME NEW b \in Bids, bid[b].status = "NONE" PROVE bid'[b] = NoBid
        OBVIOUS
      <3>1. bid[b] = NoBid /\ b # x
        BY <1>a, <2>1 DEF BidsOK
      <3>2. bid[b].req = None /\ r # None
        BY <2>1, <3>1, NoneIsNoId DEF NoBid
      <3> QED
        BY <2>6, <3>1, <3>2
    <2>12. BidsOK' /\ AtMostOneAcceptedBid'
      BY <1>a, <2>1, <2>7, <2>11 DEF BidsOK, AtMostOneAcceptedBid
    <2> QED
      BY <1>1, <1>b, <2>8, <2>9, <2>10, <2>12, TableStep
         DEF SelectWrite, Finish, workerVars, redisVars
  <1>2. CASE SubmitBidWrite(s)
    <2>1. r \in Requests /\ session[s].user \in Centers
      BY <1>0, <1>2 DEF SubmitBidWrite, Running, HandlerOK
    <2>2. PICK b \in Bids, row \in BidRow :
             /\ bid' = [bid EXCEPT ![b] = row]
             /\ row.status = "PENDING" /\ row.center \in Centers
             /\ KeepsBid(bid[b], row)
      <3>1. CASE x = None
        <4>1. PICK b \in Bids :
                 /\ bid[b].status = "NONE"
                 /\ bid' = [bid EXCEPT ![b] = [status |-> "PENDING", req |-> r,
                                               center |-> session[s].user]]
          BY <1>2, <3>1 DEF SubmitBidWrite
        <4> DEFINE row == [status |-> "PENDING", req |-> r, center |-> session[s].user]
        <4>2. row \in BidRow
          BY <2>1 DEF BidRow, BidStatus
        <4> QED
          BY <2>1, <4>1, <4>2 DEF KeepsBid
      <3>2. CASE x # None
        <4>1. x \in Bids /\ bid[x].status # "NONE" /\ bid[x] \in BidRow
          BY <1>0, <1>2, <1>a, <3>2 DEF SubmitBidWrite, Running, HandlerOK, Op, TypeOK
        <4>2. PICK row : row = [bid[x] EXCEPT !.status = "PENDING"]
          BY Zenon
        <4>3. /\ row \in BidRow /\ row.status = "PENDING"
              /\ row.req = bid[x].req /\ row.center = bid[x].center
          BY <4>1, <4>2 DEF BidRow, BidStatus
        <4>4. bid' = [bid EXCEPT ![x] = row]
          BY <1>2, <3>2, <4>2 DEF SubmitBidWrite
        <4>5. row.center \in Centers
          BY <1>a, <4>1, <4>3 DEF BidsOK
        <4> QED
          BY <4>1, <4>3, <4>4, <4>5 DEF KeepsBid
      <3> QED
        BY <3>1, <3>2
    <2>3. \A y \in Bids : bid'[y] = IF y = b THEN row ELSE bid[y]
      BY <1>a, <2>2 DEF TypeOK
    <2>4. TypeOK'
      BY <1>2, <1>a, <1>b, <2>2
         DEF SubmitBidWrite, Finish, TypeOK, workerVars, redisVars, moneyVars
    <2>5. TablesGrow
      BY <1>2, <2>2, <2>3 DEF SubmitBidWrite, TablesGrow, Keeps, KeepsBid, KeepsBatch
    <2>6. RowsOK' /\ BidsOK' /\ AtMostOneAcceptedBid'
      BY <1>2, <1>a, <2>2, <2>3
         DEF SubmitBidWrite, RowsOK, RowOK, BidsOK, AtMostOneAcceptedBid
    <2> QED
      BY <1>2, <1>b, <2>4, <2>5, <2>6, TableStep
         DEF SubmitBidWrite, Finish, workerVars, redisVars
  <1>3. CASE WithdrawBidWrite(s)
    <2>1. x \in Bids /\ bid[x].status # "NONE" /\ bid[x] \in BidRow
      BY <1>0, <1>3, <1>a DEF WithdrawBidWrite, Running, HandlerOK, TypeOK
    <2>2. PICK row : row = [bid[x] EXCEPT !.status = "WITHDRAWN"]
      BY Zenon
    <2>3. /\ row \in BidRow /\ row.status = "WITHDRAWN"
          /\ row.req = bid[x].req /\ row.center = bid[x].center
      BY <2>1, <2>2 DEF BidRow, BidStatus
    <2>4. bid' = [bid EXCEPT ![x] = row]
      BY <1>3, <2>2 DEF WithdrawBidWrite
    <2>5. \A y \in Bids : bid'[y] = IF y = x THEN row ELSE bid[y]
      BY <1>a, <2>4 DEF TypeOK
    <2>6. TypeOK'
      BY <1>3, <1>a, <1>b, <2>3, <2>4
         DEF WithdrawBidWrite, Finish, TypeOK, workerVars, redisVars, moneyVars
    <2>7. TablesGrow
      BY <1>3, <2>3, <2>5 DEF WithdrawBidWrite, TablesGrow, Keeps, KeepsBid, KeepsBatch
    <2>8. RowsOK' /\ BidsOK' /\ AtMostOneAcceptedBid'
      BY <1>3, <1>a, <2>1, <2>3, <2>5
         DEF WithdrawBidWrite, RowsOK, RowOK, BidsOK, AtMostOneAcceptedBid
    <2> QED
      BY <1>3, <1>b, <2>6, <2>7, <2>8, TableStep
         DEF WithdrawBidWrite, Finish, workerVars, redisVars
  <1> QED
    BY <1>1, <1>2, <1>3

\* updateBatch writes a batch, which goes on existing.
LEMMA DispatchWritePreserves ==
    ASSUME IInv, NEW s \in Sessions, DispatchWrite(s)
    PROVE  GoodStep
  <1> DEFINE b == session[s].batch
  <1>0. session[s] \in Op /\ HandlerOK(session[s])
    BY InFlight
  <1>a. TypeOK /\ RowsOK /\ BidsOK /\ AtMostOneAcceptedBid
    BY IInvByRow
  <1>b. Idle \in Op /\ Idle.kind \notin VerifyKinds /\ HandlerOK(Idle)'
    BY IdleOK, IdleStaysOK
  <1>1. b \in Batches /\ batch[b] \in BatchRow /\ session[s].center \in Centers \cup {None}
    BY <1>0, <1>a DEF DispatchWrite, Running, HandlerOK, TypeOK, Op
  <1>2. PICK row : row = [batch[b] EXCEPT !.status = "IN_TRANSIT", !.center = session[s].center]
    BY Zenon
  <1>3. row \in BatchRow
    <2>1. "IN_TRANSIT" \in {"NONE", "OPEN", "IN_TRANSIT"}
      OBVIOUS
    <2> QED
      BY <1>1, <1>2, <2>1, Zenon DEF BatchRow
  <1>4. row.status = "IN_TRANSIT"
    BY <1>1, <1>2, SMT DEF BatchRow
  <1>5. batch' = [batch EXCEPT ![b] = row]
    BY <1>2, Zenon DEF DispatchWrite
  <1>6. \A y \in Batches : batch'[y] = IF y = b THEN row ELSE batch[y]
    BY <1>a, <1>5 DEF TypeOK
  <1>7. TypeOK'
    BY <1>a, <1>b, <1>3, <1>5 DEF DispatchWrite, Finish, TypeOK, workerVars, redisVars, moneyVars
  <1>8. TablesGrow
    BY <1>4, <1>6 DEF DispatchWrite, TablesGrow, Keeps, KeepsBid, KeepsBatch
  <1>9. RowsOK' /\ BidsOK' /\ AtMostOneAcceptedBid'
    BY <1>a, <1>4, <1>6 DEF DispatchWrite, TypeOK, RequestRow, RowsOK, RowOK, BidsOK,
                            AtMostOneAcceptedBid
  <1> QED
    BY <1>b, <1>7, <1>8, <1>9, TableStep DEF DispatchWrite, Finish, workerVars, redisVars

\* The penalty of a no-show stays between 1 and 5 stars.
LEMMA PenalisedInRange == \A n \in 2..10 : Penalised(n) \in 2..10
  BY DEF Penalised

\* The ghost counters stay in their range.
LEMMA SaturateInRange == \A n \in Nat : Saturate(n) \in 0..2
  BY DEF Saturate

\* The steps that write route keys, scores and balances only.
LEMMA KeyAndScoreWritesPreserve ==
    ASSUME IInv, NEW s \in Sessions, RouteCacheSet(s) \/ ReachPurge(s) \/ NoShowEffects(s)
    PROVE  GoodStep
  <1> DEFINE r == session[s].req
             c == session[s].user
  <1>0. session[s] \in Op /\ HandlerOK(session[s])
    BY InFlight
  <1>a. TypeOK
    BY IInvByRow
  <1>b. Idle \in Op /\ Idle.kind \notin VerifyKinds /\ HandlerOK(Idle)'
    BY IdleOK, IdleStaysOK
  <1>1. CASE RouteCacheSet(s)
    <2>1. r \in Requests /\ c \in Collectors
      BY <1>0, <1>1 DEF RouteCacheSet, Running, HandlerOK, CollectorKinds
    <2>2. TypeOK'
      BY <1>1, <1>a, <1>b, <2>1
         DEF RouteCacheSet, Finish, TypeOK, requestVars, workerVars, moneyVars
    <2> QED
      BY <1>1, <1>b, <2>2, TablesKept, TableStep DEF RouteCacheSet, Finish, workerVars
  <1>2. CASE ReachPurge(s)
    <2>1. r \in Requests
      BY <1>0, <1>2 DEF ReachPurge, Running, HandlerOK
    <2>2. TypeOK'
      BY <1>2, <1>a, <1>b, <2>1
         DEF ReachPurge, Finish, TypeOK, requestVars, workerVars, moneyVars
    <2> QED
      BY <1>2, <1>b, <2>2, TablesKept, TableStep DEF ReachPurge, Finish, workerVars
  <1>3. CASE NoShowEffects(s)
    <2>1. r \in Requests /\ c \in Collectors /\ session[s].score \in 2..10
      BY <1>0, <1>3 DEF NoShowEffects, Running, HandlerOK, CollectorKinds
    <2>2. score' \in [Households -> 2..10]
      BY <1>3, <1>a, <2>1, PenalisedInRange DEF NoShowEffects, TypeOK
    <2>3. balance' \in [Collectors -> 0..MaxBalance]
      <3>1. balance[c] + Compensation <= MaxBalance => balance[c] + Compensation \in 0..MaxBalance
        BY <1>a, <2>1, ConfigurationOK DEF TypeOK, Compensation
      <3> QED
        BY <1>3, <1>a, <3>1 DEF NoShowEffects, TypeOK
    <2>4. compensated' \in [Requests -> 0..2]
      <3>1. Saturate(compensated[r] + 1) \in 0..2
        BY <1>a, <2>1, SaturateInRange DEF TypeOK
      <3> QED
        BY <1>3, <1>a, <3>1 DEF NoShowEffects, TypeOK
    <2>5. TypeOK'
      BY <1>3, <1>a, <1>b, <2>2, <2>3, <2>4
         DEF NoShowEffects, Finish, TypeOK, requestVars, workerVars, redisVars
    <2> QED
      BY <1>3, <1>b, <2>5, TablesKept, TableStep DEF NoShowEffects, Finish, workerVars, redisVars
  <1> QED
    BY <1>1, <1>2, <1>3

-----------------------------------------------------------------------------
(* verifyPin. *)

\* A verification ends, and with it goes the lock, whoever holds it by now.
LEMMA ReleaseStep ==
    ASSUME IInv, NEW s \in Sessions, session[s].kind \in VerifyKinds, ReleaseAndFinish(s),
           attempts' \in [Requests -> 0..MaxAttempts],
           routeMeta' \in [Requests -> Collectors \cup {None}],
           UNCHANGED <<requestVars, workerVars, outlived, moneyVars, crashes>>
    PROVE  GoodStep
  <1>0. session[s] \in Op /\ HandlerOK(session[s])
    BY InFlight
  <1>a. TypeOK /\ LockFacts /\ OneVerification
    BY IInvByRow
  <1>b. Idle \in Op /\ Idle.kind \notin VerifyKinds /\ HandlerOK(Idle)'
    BY IdleOK, IdleStaysOK
  <1>1. session[s].req \in Requests
    BY <1>0 DEF HandlerOK, VerifyKinds
  <1>2. TypeOK'
    BY <1>a, <1>b, <1>1 DEF ReleaseAndFinish, Finish, TypeOK, requestVars, workerVars, moneyVars
  <1>3. LockFacts' /\ OneVerification'
    <2>0. PICK r \in Requests : r = session[s].req
      BY <1>1, Zenon
    <2>1. /\ pinLock' = [pinLock EXCEPT ![r] = FALSE] /\ outlived' = outlived
          /\ session' = [session EXCEPT ![s] = Idle]
      BY <2>0 DEF ReleaseAndFinish, Finish
    <2>2. ASSUME NEW q \in Requests PROVE Verifying(q)' \subseteq Verifying(q)
      BY <1>a, <1>b, <2>1 DEF Verifying, TypeOK
    <2>3. s \in Verifying(r) /\ Verifying(r)' \subseteq Verifying(r) \ {s}
      <3>1. session'[s] = Idle
        BY <1>a, <2>1 DEF TypeOK
      <3> QED
        BY <1>b, <2>0, <2>2, <3>1 DEF Verifying
    <2>4. /\ Cardinality(Verifying(r)') <= Cardinality(Verifying(r)) - 1
          /\ Cardinality(Verifying(r)') \in Nat /\ Cardinality(Verifying(r)) \in Nat
      BY <2>3, VerifyingEnds, VerifyingCounted
    <2>5. Cardinality(Verifying(r)') <= 0 + outlived[r]
      <3>1. Cardinality(Verifying(r)) <= 1 + outlived[r] /\ outlived[r] \in Nat
        BY <1>a DEF OneVerification, TypeOK
      <3> QED
        BY <2>4, <3>1
    <2>6. LockFacts'
      BY <1>a, <2>1, <2>2, <2>5, OneLockMoves
    <2> QED
      BY <1>2, <2>6, LocksBoundVerifications, PTL
  <1>4. \A t \in Sessions : session'[t] = session[t] \/ HandlerOK(session[t])'
    BY <1>a, <1>b DEF ReleaseAndFinish, Finish, TypeOK, HandlerOK
  <1> QED
    BY <1>2, <1>3, <1>4, TablesKept, StepPreserves DEF workerVars

\* The ways a verification ends: refused, wrong PIN, bad weights, done, thrown.
LEMMA VerifyEndsPreserve ==
    ASSUME IInv, NEW s \in Sessions,
           \/ VerifyRefused(s) \/ VerifyWrongPin(s) \/ VerifyBadWeights(s)
           \/ VerifyDone(s) \/ VerifyThrows(s)
    PROVE  GoodStep
  <1> DEFINE r == session[s].req
  <1>0. session[s] \in Op /\ HandlerOK(session[s])
    BY InFlight
  <1>a. TypeOK
    BY IInvByRow
  <1>b. session[s].kind \in VerifyKinds
    BY DEF VerifyRefused, VerifyWrongPin, VerifyBadWeights, VerifyDone, VerifyThrows, Running,
           VerifyKinds
  <1>c. r \in Requests
    BY <1>0, <1>b DEF HandlerOK, VerifyKinds
  <1>1. CASE VerifyRefused(s)
    BY <1>1, <1>a, <1>b, ReleaseStep DEF VerifyRefused, TypeOK
  <1>2. CASE VerifyWrongPin(s)
    <2>1. attempts[r] + 1 \in 0..MaxAttempts
      BY <1>2, <1>a, <1>c, ConfigurationOK DEF VerifyWrongPin, MayVerify, TypeOK
    <2>2. attempts' \in [Requests -> 0..MaxAttempts]
      BY <1>2, <1>a, <2>1 DEF VerifyWrongPin, TypeOK
    <2> QED
      BY <1>2, <1>a, <1>b, <2>2, ReleaseStep DEF VerifyWrongPin, TypeOK
  <1>3. CASE VerifyBadWeights(s)
    <2>1. 0 \in 0..MaxAttempts
      BY ConfigurationOK
    <2>2. attempts' \in [Requests -> 0..MaxAttempts]
      BY <1>3, <1>a, <2>1 DEF VerifyBadWeights, TypeOK
    <2> QED
      BY <1>3, <1>a, <1>b, <2>2, ReleaseStep DEF VerifyBadWeights, TypeOK
  <1>4. CASE VerifyDone(s)
    <2>1. routeMeta' \in [Requests -> Collectors \cup {None}]
      BY <1>4, <1>a DEF VerifyDone, TypeOK
    <2> QED
      BY <1>4, <1>a, <1>b, <2>1, ReleaseStep DEF VerifyDone, TypeOK
  <1>5. CASE VerifyThrows(s)
    BY <1>5, <1>a, <1>b, ReleaseStep DEF VerifyThrows, TypeOK
  <1> QED
    BY <1>1, <1>2, <1>3, <1>4, <1>5

\* A payment the collector can afford leaves a balance in range.
LEMMA ChargedInRange ==
    ASSUME NEW b \in 0..MaxBalance, NEW v \in Nat, NEW sent \in 0..1, NEW fee \in 0..1,
           b >= sent * HouseholdAmount(v) + fee * TreasuryAmount(v)
    PROVE  b - sent * HouseholdAmount(v) - fee * TreasuryAmount(v) \in 0..MaxBalance
  <1> USE ConfigurationOK DEF HouseholdAmount, TreasuryAmount
  <1>1. CASE sent = 0 /\ fee = 0
    BY <1>1
  <1>2. CASE sent = 1 /\ fee = 0
    BY <1>2
  <1>3. CASE sent = 0 /\ fee = 1
    BY <1>3
  <1>4. CASE sent = 1 /\ fee = 1
    BY <1>4
  <1> QED
    BY <1>1, <1>2, <1>3, <1>4

\* The steps of a verification on its way: chain, payment, batch, completion.
LEMMA VerifyStepsPreserve ==
    ASSUME IInv, NEW s \in Sessions,
           \/ VerifyPassed(s) \/ VerifyPay(s) \/ VerifyFind(s) \/ VerifyCreate(s)
           \/ VerifyComplete(s)
    PROVE  GoodStep
  <1> DEFINE r == session[s].req
             c == session[s].user
  <1>0. /\ session[s] \in Op
        /\ HandlerOK(session[s])
        /\ \A q \in Requests : req[q] \in RequestRow /\ RowOK(req[q])
    BY InFlight
  <1>a. TypeOK /\ RowsOK /\ BidsOK /\ AtMostOneAcceptedBid
    BY IInvByRow
  <1>b. session[s].kind \in VerifyKinds
    BY DEF VerifyPassed, VerifyPay, VerifyFind, VerifyCreate, VerifyComplete, Running,
           VerifyKinds
  <1>c. r \in Requests /\ req[r].status # "NONE" /\ c \in Collectors
    BY <1>0, <1>b DEF HandlerOK, CollectorKinds, VerifyKinds
  <1>1. CASE VerifyPassed(s)
    <2>1. PICK i \in Items :
             session' = [session EXCEPT ![s] =
                            [session[s] EXCEPT !.kind = "verifyPay", !.center = req[r].center,
                                               !.batch = req[r].batch,
                                               !.value = Value(req[r], i)]]
      BY <1>1 DEF VerifyPassed, GoOn
    <2>2. PICK op : op = [session[s] EXCEPT !.kind = "verifyPay", !.center = req[r].center,
                                            !.batch = req[r].batch, !.value = Value(req[r], i)]
      BY Zenon
    <2>3. session' = [session EXCEPT ![s] = op]
      BY <2>1, <2>2, Zenon
    <2>4. req[r].center \in Centers
      BY <1>0, <1>1, <1>c DEF VerifyPassed, MayVerify, RowOK, RequestRow
    <2>5. /\ "verifyPay" \in Kinds /\ Value(req[r], i) \in Nat
          /\ req[r].batch \in Batches \cup {None}
          /\ req[r].batch # None => batch[req[r].batch].status # "NONE"
      BY <1>0, <1>c, ConfigurationOK, ValueIsNat DEF Kinds, VerifyKinds, RequestRow, RowOK
    <2>6. op \in Op
      BY <1>0, <2>2, <2>4, <2>5, Zenon DEF Op
    <2>7. /\ op.kind = "verifyPay" /\ op.req = r /\ op.user = c /\ op.center = req[r].center
          /\ op.batch = req[r].batch
      BY <1>0, <2>2, SMT DEF Op
    <2>8. TablesGrow /\ RowsOK' /\ BidsOK' /\ AtMostOneAcceptedBid'
      BY <1>1, TablesKept DEF VerifyPassed
    <2>9. HandlerOK(op)'
      <3>1. HandlerOK(op)
        BY <1>c, <2>4, <2>5, <2>7 DEF HandlerOK, CollectorKinds, VerifyKinds
      <3> QED
        BY <1>a, <2>6, <2>8, <3>1, HandlerFrame
    <2>10. TypeOK'
      <3>1. 0 \in 0..MaxAttempts
        BY ConfigurationOK
      <3> QED
        BY <1>1, <1>a, <2>3, <2>6, <3>1
           DEF VerifyPassed, TypeOK, requestVars, workerVars, moneyVars
    <2> QED
      BY <1>1, <1>b, <2>3, <2>6, <2>7, <2>8, <2>9, <2>10, TableStep DEF VerifyPassed, workerVars
  <1>2. CASE VerifyPay(s)
    <2>1. PICK k : k = IF session[s].batch = None THEN "verifyFind" ELSE "verifyComplete"
      BY Zenon
    <2>2. PICK op : op = [session[s] EXCEPT !.kind = k]
      BY Zenon
    <2>3. session' = [session EXCEPT ![s] = op]
      BY <1>2, <2>1, <2>2, Zenon DEF VerifyPay, GoOn
    <2>4. k \in Kinds
      BY <2>1 DEF Kinds, VerifyKinds
    <2>5. /\ op \in Op /\ op.kind = k /\ op.req = r /\ op.user = c
          /\ op.center = session[s].center /\ op.batch = session[s].batch
      BY <1>0, <2>2, <2>4, SMT DEF Op
    <2>6. HandlerOK(op)
      BY <1>0, <1>2, <1>c, <2>1, <2>5 DEF VerifyPay, Running, HandlerOK, CollectorKinds,
                                          VerifyKinds, Op
    <2>7. TablesGrow /\ RowsOK' /\ BidsOK' /\ AtMostOneAcceptedBid'
      BY <1>2, TablesKept DEF VerifyPay
    <2>8. HandlerOK(op)'
      BY <1>a, <2>5, <2>6, <2>7, HandlerFrame
    <2>9. PICK sent \in 0..1, minted \in 0..1, fee \in 0..1 :
             /\ balance[c] >= sent * HouseholdAmount(session[s].value)
                                  + fee * TreasuryAmount(session[s].value)
             /\ balance' = [balance EXCEPT ![c] =
                               @ - sent * HouseholdAmount(session[s].value)
                                 - fee * TreasuryAmount(session[s].value)]
             /\ credited' = [credited EXCEPT ![r] = Saturate(@ + sent + minted)]
      BY <1>2, Zenon DEF VerifyPay
    <2>10. balance' \in [Collectors -> 0..MaxBalance]
      <3>1. balance[c] \in 0..MaxBalance /\ session[s].value \in Nat
        BY <1>0, <1>a, <1>c DEF TypeOK, Op
      <3>2. balance[c] - sent * HouseholdAmount(session[s].value)
                - fee * TreasuryAmount(session[s].value) \in 0..MaxBalance
        BY <2>9, <3>1, ChargedInRange
      <3> QED
        BY <1>a, <2>9, <3>2, Zenon DEF TypeOK
    <2>11. credited' \in [Requests -> 0..2]
      <3>1. Saturate(credited[r] + sent + minted) \in 0..2
        BY <1>a, <1>c, SaturateInRange DEF TypeOK
      <3> QED
        BY <1>a, <2>9, <3>1 DEF TypeOK
    <2>12. TypeOK'
      BY <1>2, <1>a, <2>3, <2>5, <2>10, <2>11
         DEF VerifyPay, TypeOK, requestVars, workerVars, redisVars
    <2>13. op.kind \in VerifyKinds /\ todo' = todo /\ pinLock' = pinLock
          /\ outlived' = outlived
      BY <1>2, <2>1, <2>5 DEF VerifyPay, VerifyKinds, workerVars, redisVars
    <2> QED
      BY <1>b, <2>3, <2>5, <2>7, <2>8, <2>12, <2>13, TableStep
  <1>3. CASE VerifyFind(s)
    <2>1. session[s].center \in Centers /\ session[s].center # None
      BY <1>0, <1>3, NoneIsNoId DEF VerifyFind, Running, HandlerOK
    <2> DEFINE open == {b \in Batches : /\ batch[b].status = "OPEN"
                                        /\ batch[b].collector = session[s].user
                                        /\ batch[b].center = session[s].center}
    <2>2. CASE open # {}
      <3>1. PICK b \in open :
               session' = [session EXCEPT ![s] = [session[s] EXCEPT !.kind = "verifyComplete",
                                                                    !.batch = b]]
        BY <1>3, <2>2 DEF VerifyFind, GoOn
      <3>2. b \in Batches /\ batch[b].status # "NONE" /\ "verifyComplete" \in Kinds
        BY <3>1 DEF Kinds, VerifyKinds
      <3>3. PICK op : op = [session[s] EXCEPT !.kind = "verifyComplete", !.batch = b]
        BY Zenon
      <3>4. op \in Op
        BY <1>0, <3>2, <3>3, Zenon DEF Op
      <3>5. op.kind = "verifyComplete" /\ op.req = r /\ op.user = c /\ op.batch = b
        BY <1>0, <3>3, SMT DEF Op
      <3>6. HandlerOK(op)
        BY <1>c, <3>2, <3>5 DEF HandlerOK, CollectorKinds, VerifyKinds
      <3>7. session' = [session EXCEPT ![s] = op]
        BY <3>1, <3>3, Zenon
      <3> QED
        BY <1>3, <1>b, <3>4, <3>5, <3>6, <3>7, SessionStep DEF VerifyFind
    <2>3. CASE open = {}
      <3>1. PICK op : op = [session[s] EXCEPT !.kind = "verifyCreate"]
        BY Zenon
      <3>2. op \in Op /\ op.kind = "verifyCreate" /\ op.req = r /\ op.user = c
               /\ op.center = session[s].center
        BY <1>0, <3>1 DEF Op, Kinds, VerifyKinds
      <3>3. HandlerOK(op)
        BY <1>c, <2>1, <3>2 DEF HandlerOK, CollectorKinds, VerifyKinds
      <3>4. session' = [session EXCEPT ![s] = op]
        BY <1>3, <2>1, <2>3, <3>1 DEF VerifyFind, WithoutOpenBatch, GoOn
      <3> QED
        BY <1>3, <1>b, <3>2, <3>3, <3>4, SessionStep DEF VerifyFind
    <2> QED
      BY <2>2, <2>3
  <1>4. CASE VerifyCreate(s)
    <2>1. session[s].center \in Centers
      BY <1>0, <1>4 DEF VerifyCreate, Running, HandlerOK
    <2>2. PICK b \in Batches :
             /\ batch[b].status = "NONE"
             /\ batch' = [batch EXCEPT ![b] = [status |-> "OPEN", collector |-> c,
                                               center |-> session[s].center]]
             /\ session' = [session EXCEPT ![s] = [session[s] EXCEPT !.kind = "verifyComplete",
                                                                     !.batch = b]]
      BY <1>4 DEF VerifyCreate, GoOn
    <2>3. PICK row : row = [status |-> "OPEN", collector |-> c, center |-> session[s].center]
      BY Zenon
    <2>4. row \in BatchRow /\ row.status = "OPEN"
      BY <1>c, <2>1, <2>3 DEF BatchRow
    <2>5. PICK op : op = [session[s] EXCEPT !.kind = "verifyComplete", !.batch = b]
      BY Zenon
    <2>6. batch' = [batch EXCEPT ![b] = row] /\ session' = [session EXCEPT ![s] = op]
      BY <2>2, <2>3, <2>5, Zenon
    <2>7. op \in Op
      <3>1. "verifyComplete" \in Kinds
        BY DEF Kinds, VerifyKinds
      <3> QED
        BY <1>0, <2>5, <3>1, Zenon DEF Op
    <2>8. op.kind = "verifyComplete" /\ op.req = r /\ op.user = c /\ op.batch = b
      BY <1>0, <2>5, SMT DEF Op
    <2>9. \A y \in Batches : batch'[y] = IF y = b THEN row ELSE batch[y]
      BY <1>a, <2>6 DEF TypeOK
    <2>10. HandlerOK(op)'
      BY <1>4, <1>c, <2>4, <2>8, <2>9
         DEF VerifyCreate, HandlerOK, CollectorKinds, VerifyKinds
    <2>11. TypeOK'
      BY <1>4, <1>a, <2>4, <2>6, <2>7
         DEF VerifyCreate, TypeOK, workerVars, redisVars, moneyVars
    <2>12. TablesGrow
      BY <1>4, <2>4, <2>9 DEF VerifyCreate, TablesGrow, Keeps, KeepsBid, KeepsBatch
    <2>13. RowsOK' /\ BidsOK' /\ AtMostOneAcceptedBid'
      <3>1. \A q \in Requests : req[q] \in RequestRow /\ req'[q] = req[q] /\ RowOK(req[q])
        BY <1>0, <1>4 DEF VerifyCreate
      <3>2. RowsOK'
        BY <1>a, <2>12, <3>1, RowFrame DEF RowsOK, RowOK
      <3> QED
        BY <1>4, <1>a, <3>2 DEF VerifyCreate, BidsOK, AtMostOneAcceptedBid
    <2> QED
      BY <1>4, <1>b, <2>6, <2>7, <2>8, <2>10, <2>11, <2>12, <2>13, TableStep
         DEF VerifyCreate, workerVars, redisVars
  <1>5. CASE VerifyComplete(s)
    <2>1. session[s].batch \in Batches /\ batch[session[s].batch].status # "NONE"
      BY <1>0, <1>5, NoneIsNoId DEF VerifyComplete, Running, HandlerOK
    <2>2. CASE CompletionColumns /\ req[r].status \in InService
      <3>1. PICK row : row = [req[r] EXCEPT !.status = "COMPLETED", !.batch = session[s].batch,
                                            !.wait = 0]
        BY Zenon
      <3>2. Replaces(row, req[r]) /\ req' = [req EXCEPT ![r] = row]
        BY <1>0, <1>5, <1>c, <2>1, <2>2, <3>1, CompletedReplaces DEF VerifyComplete, Update
      <3>3. PICK op : op = [session[s] EXCEPT !.kind = "verifyDone"]
        BY Zenon
      <3>4. op \in Op /\ op.kind = "verifyDone" /\ op.req = r /\ op.user = c
        BY <1>0, <3>3 DEF Op, Kinds, VerifyKinds
      <3>5. HandlerOK(op)
        BY <1>c, <3>4 DEF HandlerOK, CollectorKinds, VerifyKinds
      <3>6. session' = [session EXCEPT ![s] = op]
        BY <1>5, <2>2, <3>3 DEF VerifyComplete, GoOn
      <3>7. UNCHANGED <<bid, batch, workerVars, redisVars, moneyVars, crashes>>
        BY <1>5, <2>2 DEF VerifyComplete, redisVars
      <3> QED
        BY <1>b, <1>c, <3>2, <3>4, <3>5, <3>6, <3>7, RowStep DEF Replaces
    <2>3. CASE ~(CompletionColumns /\ req[r].status \in InService)
      <3>1. ReleaseAndFinish(s) /\ UNCHANGED <<requestVars, workerVars, outlived, moneyVars, crashes>>
        BY <1>5, <2>3 DEF VerifyComplete, requestVars
      <3>2. /\ attempts' \in [Requests -> 0..MaxAttempts]
            /\ routeMeta' \in [Requests -> Collectors \cup {None}]
        BY <1>5, <1>a DEF VerifyComplete, TypeOK
      <3> QED
        BY <1>b, <3>1, <3>2, ReleaseStep
    <2> QED
      BY <2>2, <2>3
  <1> QED
    BY <1>1, <1>2, <1>3, <1>4, <1>5

\* Every later step of an endpoint preserves the invariant.
LEMMA ContinuePreserves ==
    ASSUME IInv, NEW s \in Sessions, Continue(s)
    PROVE  GoodStep
  BY RowWritesPreserve, RowWritesGoOn, BidWritesPreserve, DispatchWritePreserves,
     KeyAndScoreWritesPreserve, VerifyEndsPreserve, VerifyStepsPreserve DEF Continue

-----------------------------------------------------------------------------
(* The timeout worker. *)

\* One row is written, outside of any handler.
LEMMA WorkerWrite ==
    ASSUME IInv, NEW r \in Requests, NEW row, Replaces(row, req[r]), Update(r, row),
           todo' \subseteq Task, \A t \in todo' : t \in todo \/ TaskOK(t),
           queried' = queried,
           UNCHANGED <<bid, batch, session, redisVars, moneyVars, crashes>>
    PROVE  GoodStep
  <1>1. TypeOK /\ LockFacts /\ OneVerification
    BY IInvByRow
  <1>2. /\ TablesGrow /\ RowsOK' /\ BidsOK' /\ AtMostOneAcceptedBid'
        /\ req' \in [Requests -> RequestRow]
    BY RowWritten DEF Replaces, Update
  <1>3. TypeOK'
    BY <1>1, <1>2 DEF TypeOK, redisVars, moneyVars
  <1>4. LockFacts' /\ OneVerification'
    BY <1>1, LockFrame DEF redisVars
  <1>5. \A t \in todo' : t \in todo \/ TaskOK(t)'
    BY <1>1, <1>2, TaskFrame
  <1>6. \A s \in Sessions : session'[s] = session[s]
    OBVIOUS
  <1> QED
    BY <1>2, <1>3, <1>4, <1>5, <1>6, StepPreserves

\* Every write of the worker's scans preserves the invariant.
LEMMA TaskStepsPreserve ==
    ASSUME IInv, ProcessTask
    PROVE  GoodStep
  <1>0. TypeOK /\ RowsOK /\ BidsOK /\ TaskFacts /\ AtMostOneAcceptedBid /\ LockFacts
            /\ OneVerification
    BY IInvByRow
  <1>1. PICK task \in todo :
           \/ ExpirePending(task)   \/ ExpireBids(task)      \/ FallBackToAutomatic(task)
           \/ ReleaseInactive(task) \/ CloseUnattended(task) \/ PenaliseHousehold(task)
    BY DEF ProcessTask
  <1> DEFINE r == task.req
  <1>2. /\ task \in Task /\ TaskOK(task) /\ r \in Requests
        /\ req[r] \in RequestRow /\ RowOK(req[r]) /\ req[r].status # "NONE"
    BY <1>0, <1>1 DEF TypeOK, TaskFacts, TaskOK, Task, RowsOK
  <1>3. todo \ {task} \subseteq Task
    BY <1>0 DEF TypeOK
  <1>4. CASE ExpirePending(task)
    <2>1. Replaces([req[r] EXCEPT !.status = "CANCELLED", !.wait = 0], req[r])
      BY <1>2, ExpiredReplaces
    <2> QED
      BY <1>2, <1>3, <1>4, <2>1, WorkerWrite DEF ExpirePending, Done
  <1>5. CASE FallBackToAutomatic(task)
    <2>1. Replaces([req[r] EXCEPT !.status = "PENDING", !.mode = "AUTOMATIC", !.wait = 0], req[r])
      BY <1>2, FallenBackReplaces
    <2> QED
      BY <1>2, <1>3, <1>5, <2>1, WorkerWrite DEF FallBackToAutomatic, Done
  <1>6. CASE ReleaseInactive(task)
    <2>1. Replaces(Released(req[r]), req[r])
      BY <1>2, ReleasedReplaces
    <2> QED
      BY <1>2, <1>3, <1>6, <2>1, WorkerWrite DEF ReleaseInactive, Done
  <1>7. CASE CloseUnattended(task)
    <2>1. Replaces(Unattended(req[r]), req[r])
      BY <1>2, <1>7, UnattendedReplaces DEF CloseUnattended, TaskOK
    <2>2. PICK new : new = [task EXCEPT !.scan = "arrivedScore"]
      BY Zenon
    <2>3. new \in Task /\ new.req = r /\ new.score = task.score /\ new.scan = "arrivedScore"
      BY <1>2, <2>2 DEF Task
    <2>4. TaskOK(new)
      BY <1>2, <2>3 DEF TaskOK
    <2>5. todo' = (todo \ {task}) \cup {new}
      BY <1>7, <2>2 DEF CloseUnattended, Then
    <2>6. todo' \subseteq Task /\ \A t \in todo' : t \in todo \/ TaskOK(t)
      BY <1>3, <2>3, <2>4, <2>5
    <2> QED
      BY <1>2, <1>7, <2>1, <2>6, WorkerWrite DEF CloseUnattended
  <1>8. CASE ExpireBids(task)
    <2>1. bid' = [b \in Bids |-> IF bid[b].req = r /\ bid[b].status = "PENDING"
                                 THEN [bid[b] EXCEPT !.status = "EXPIRED"] ELSE bid[b]]
      BY <1>8 DEF ExpireBids
    <2>2. \A b \in Bids :
             /\ bid'[b] \in BidRow
             /\ bid'[b].req = bid[b].req /\ bid'[b].center = bid[b].center
             /\ bid'[b].status \in {bid[b].status, "EXPIRED"}
             /\ bid[b].status = "NONE" => bid'[b] = bid[b]
      BY <1>0, <2>1 DEF TypeOK, BidRow, BidStatus
    <2>3. PICK new : new = [task EXCEPT !.scan = "auctionRow"]
      BY Zenon
    <2>4. new \in Task /\ new.req = r /\ new.score = task.score /\ new.scan = "auctionRow"
      BY <1>2, <2>3 DEF Task
    <2>5. TaskOK(new)
      BY <1>2, <2>4 DEF TaskOK
    <2>6. todo' = (todo \ {task}) \cup {new}
      BY <1>8, <2>3 DEF ExpireBids, Then
    <2>7. TypeOK'
      <3>1. bid' \in [Bids -> BidRow]
        BY <2>1, <2>2
      <3>2. todo' \subseteq Task
        BY <1>3, <2>4, <2>6
      <3> QED
        BY <1>0, <1>8, <3>1, <3>2 DEF ExpireBids, TypeOK, redisVars, moneyVars
    <2>8. TablesGrow
      BY <1>8, <2>2 DEF ExpireBids, TablesGrow, Keeps, KeepsBid, KeepsBatch
    <2>9. RowsOK' /\ BidsOK' /\ AtMostOneAcceptedBid'
      BY <1>0, <1>8, <2>2 DEF ExpireBids, RowsOK, RowOK, BidsOK, AtMostOneAcceptedBid
    <2>10. LockFacts' /\ OneVerification'
      BY <1>0, <1>8, LockFrame DEF ExpireBids, redisVars
    <2>11. \A t \in todo' : t \in todo \/ TaskOK(t)'
      BY <1>0, <2>4, <2>5, <2>6, <2>8, TaskFrame
    <2> QED
      BY <1>8, <2>7, <2>8, <2>9, <2>10, <2>11, StepPreserves DEF ExpireBids
  <1>9. CASE PenaliseHousehold(task)
    <2>1. Penalised(task.score) \in 2..10
      BY <1>2, PenalisedInRange DEF TaskOK
    <2>2. score' \in [Households -> 2..10]
      BY <1>0, <1>9, <2>1 DEF PenaliseHousehold, TypeOK
    <2>3. TypeOK'
      BY <1>0, <1>3, <1>9, <2>2 DEF PenaliseHousehold, Done, TypeOK, requestVars, redisVars
    <2>4. LockFacts' /\ OneVerification'
      BY <1>0, <1>9, LockFrame DEF PenaliseHousehold, redisVars
    <2> QED
      BY <1>9, <2>3, <2>4, TablesKept, StepPreserves DEF PenaliseHousehold, Done
  <1> QED
    BY <1>1, <1>4, <1>5, <1>6, <1>7, <1>8, <1>9

\* The worker's own steps, the clock and the crashes.
LEMMA OtherStepsPreserve ==
    ASSUME IInv,
           \/ Tick \/ WorkerCrashes
           \/ \E k \in Scans : Query(k)
           \/ \E r \in Requests : Passing(r)
           \/ \E s \in Sessions : HandlerCrashes(s)
    PROVE  GoodStep
  <1>0. TypeOK /\ RowsOK /\ TaskFacts /\ LockFacts /\ OneVerification
    BY IInvByRow
  <1>1. CASE Tick
    <2>1. TypeOK'
      BY <1>0, <1>1 DEF Tick, TypeOK, requestVars, redisVars, moneyVars
    <2>2. LockFacts' /\ OneVerification'
      BY <1>0, <1>1, LockFrame DEF Tick, redisVars
    <2> QED
      BY <1>1, <2>1, <2>2, TablesKept, StepPreserves DEF Tick
  <1>2. CASE WorkerCrashes
    <2>1. TypeOK'
      BY <1>0, <1>2, ConfigurationOK DEF WorkerCrashes, TypeOK, requestVars, redisVars, moneyVars
    <2>2. LockFacts' /\ OneVerification'
      BY <1>0, <1>2, LockFrame DEF WorkerCrashes, redisVars
    <2> QED
      BY <1>2, <2>1, <2>2, TablesKept, StepPreserves DEF WorkerCrashes
  <1>3. ASSUME NEW k \in Scans, Query(k) PROVE GoodStep
    <2>1. ASSUME NEW q \in Requests, Due(k, q),
                 NEW t, t = [scan |-> k, req |-> q, score |-> score[req[q].household]]
          PROVE  t \in Task /\ TaskOK(t)
      <3>1. req[q].status # "NONE" /\ (k = "arrived" => req[q].status = "ARRIVED")
        BY <2>1 DEF Due, PendingDue, AuctionDue, InactiveDue, ArrivedDue
      <3>2. score[req[q].household] \in 2..10
        BY <1>0, <3>1 DEF RowsOK, RowOK, TypeOK
      <3>3. t \in Task
        BY <2>1, <3>2, ConfigurationOK DEF Task
      <3> QED
        BY <1>0, <2>1, <3>1, <3>2, <3>3 DEF TaskOK, RowsOK, RowOK, InService
    <2>2. \A t \in todo' : t \in todo \/ (t \in Task /\ TaskOK(t))
      BY <1>3, <2>1 DEF Query
    <2>3. TypeOK'
      BY <1>0, <1>3, <2>2 DEF Query, TypeOK, requestVars, redisVars, moneyVars
    <2>4. LockFacts' /\ OneVerification'
      BY <1>0, <1>3, LockFrame DEF Query, redisVars
    <2>5. TablesGrow /\ RowsOK' /\ BidsOK' /\ AtMostOneAcceptedBid'
      BY <1>3, TablesKept DEF Query
    <2>6. \A t \in todo' : t \in todo \/ TaskOK(t)'
      BY <1>0, <2>2, <2>5, TaskFrame
    <2> QED
      BY <1>3, <2>3, <2>4, <2>5, <2>6, StepPreserves DEF Query
  <1>4. ASSUME NEW r \in Requests, Passing(r) PROVE GoodStep
    <2>0. req[r] \in RequestRow /\ RowOK(req[r]) /\ todo \subseteq Task
      BY <1>0 DEF TypeOK, RowsOK
    <2>1. CASE QuarterHourPasses(r)
      <3>1. req[r].age + 1 \in 0..2 /\ req[r].status # "NONE"
        BY <2>0, <2>1 DEF QuarterHourPasses, RequestRow
      <3>2. Replaces([req[r] EXCEPT !.age = req[r].age + 1], req[r])
        BY <2>0, <3>1, AgedReplaces
      <3> QED
        BY <2>0, <2>1, <3>2, WorkerWrite DEF QuarterHourPasses, workerVars
    <2>2. CASE FiveMinutesPass(r)
      <3>1. req[r].wait + 1 \in 0..2 /\ req[r].status # "NONE"
        BY <2>0, <2>2 DEF FiveMinutesPass, RequestRow
      <3>2. Replaces([req[r] EXCEPT !.wait = req[r].wait + 1], req[r])
        BY <2>0, <3>1, AgedReplaces
      <3> QED
        BY <2>0, <2>2, <3>2, WorkerWrite DEF FiveMinutesPass, workerVars
    <2>3. CASE LockExpires(r)
      <3>0. /\ pinLock[r] /\ pinLock' = [pinLock EXCEPT ![r] = FALSE]
            /\ \/ Verifying(r) = {} /\ outlived' = outlived
               \/ /\ outlived[r] < MaxOutlived
                  /\ outlived' = [outlived EXCEPT ![r] = outlived[r] + 1]
            /\ UNCHANGED session
        BY <2>3 DEF LockExpires
      <3>1. TypeOK'
        <4>1. outlived' \in [Requests -> 0..MaxOutlived]
          BY <1>0, <3>0, ConfigurationOK DEF TypeOK
        <4> QED
          BY <1>0, <2>3, <3>0, <4>1 DEF LockExpires, TypeOK, requestVars, workerVars, moneyVars
      <3>2. LockFacts' /\ OneVerification'
        <4>1. \A q \in Requests : Verifying(q)' = Verifying(q)
          BY <3>0 DEF Verifying
        <4>2. Verifying(r) = {} => Cardinality(Verifying(r)) = 0
          BY FS_EmptySet
        <4>3. LockFacts'
          BY <1>0, <3>0, <4>1, <4>2, VerifyingCounted DEF TypeOK, LockFacts
        <4> QED
          BY <3>1, <4>3, LocksBoundVerifications, PTL
      <3> QED
        BY <2>3, <3>1, <3>2, TablesKept, StepPreserves DEF LockExpires, workerVars
    <2>4. CASE AttemptsExpire(r)
      <3>1. 0 \in 0..MaxAttempts
        BY ConfigurationOK
      <3>2. TypeOK'
        BY <1>0, <2>4, <3>1 DEF AttemptsExpire, TypeOK, requestVars, workerVars, moneyVars
      <3>3. LockFacts' /\ OneVerification'
        BY <1>0, <2>4, LockFrame DEF AttemptsExpire
      <3> QED
        BY <2>4, <3>2, <3>3, TablesKept, StepPreserves DEF AttemptsExpire, workerVars
    <2>5. CASE RouteMetaExpires(r)
      <3>1. TypeOK'
        BY <1>0, <2>5 DEF RouteMetaExpires, TypeOK, requestVars, workerVars, moneyVars
      <3>2. LockFacts' /\ OneVerification'
        BY <1>0, <2>5, LockFrame DEF RouteMetaExpires
      <3> QED
        BY <2>5, <3>1, <3>2, TablesKept, StepPreserves DEF RouteMetaExpires, workerVars
    <2> QED
      BY <1>4, <2>1, <2>2, <2>3, <2>4, <2>5 DEF Passing
  <1>5. ASSUME NEW s \in Sessions, HandlerCrashes(s) PROVE GoodStep
    <2>1. TypeOK'
      BY <1>0, <1>5, IdleOK, ConfigurationOK
         DEF HandlerCrashes, Finish, TypeOK, requestVars, workerVars, redisVars, moneyVars
    <2> QED
      BY <1>5, <2>1, IdleOK, IdleStaysOK, TablesKept, TableStep
         DEF HandlerCrashes, Finish, workerVars, redisVars
  <1> QED
    BY <1>1, <1>2, <1>3, <1>4, <1>5

\* A stuttering step preserves the invariant.
LEMMA StutterPreserves ==
    ASSUME IInv, UNCHANGED vars
    PROVE  GoodStep
  <1>0. TypeOK /\ LockFacts /\ OneVerification
    BY IInvByRow
  <1>1. TypeOK'
    BY <1>0 DEF TypeOK, vars
  <1>2. LockFacts' /\ OneVerification'
    BY <1>0, LockFrame DEF vars
  <1>3. TablesGrow /\ RowsOK' /\ BidsOK' /\ AtMostOneAcceptedBid'
    BY TablesKept DEF vars, requestVars
  <1> QED
    BY <1>1, <1>2, <1>3, StepPreserves DEF vars

-----------------------------------------------------------------------------
(* The theorems. *)

\* Every step preserves the invariant and lets the tables grow.
LEMMA EveryStepIsGood == IInv /\ [Next]_vars => GoodStep
  BY CallsPreserve, ContinuePreserves, TaskStepsPreserve, OtherStepsPreserve,
     StutterPreserves DEF Next

\* IInv is an inductive invariant of the endpoints, the worker, the clock and
\* the crashes, for any number of users, rows and handlers in flight.
THEOREM Inductive == Spec => []IInv
  <1>1. IInv /\ [Next]_vars => IInv'
    BY EveryStepIsGood DEF GoodStep
  <1> QED
    BY <1>1, InitIInv, PTL DEF Spec

\* Every row, key, score and continuation keeps its type: reputation stays
\* between 1 and 5 stars, balances and PIN attempts within their bounds.
THEOREM TypeCorrect == Spec => []TypeOK
  BY Inductive, PTL DEF IInv

\* updateStatus ACCEPTED and the writes after it never leave a request in
\* service, or closed after a visit, without a center.
THEOREM ServiceHasCenter == Spec => []CenterAssigned
  BY Inductive, PTL DEF IInv

\* Accepts, abandons, cancellations and the inactivity scan never leave a
\* guarantee, or an ACCEPTED request, without a collector.
THEOREM HoldsAreOwned == Spec => []HoldHasOwner
  BY Inductive, PTL DEF IInv

\* reportNoShow, rejectOnSite and the no-show scan close a request only after a
\* collector set out and arrived.
THEOREM FinesFollowVisits == Spec => []VisitRecorded
  BY Inductive, PTL DEF IInv

\* verifyPin completes a request only into a batch that exists.
THEOREM CompletionsAreBatched == Spec => []CompletedInBatch
  BY Inductive, PTL DEF IInv

\* selectBid leaves one accepted bid, whatever bids come in or are selected
\* at the same time.
THEOREM OneWinner == Spec => []AtMostOneAcceptedBid
  BY Inductive, PTL DEF IInv

\* The lock of verifyPin admits one handler per request at a time, and for each
\* time it ran out under its holder one more and no others, although finally
\* deletes it whoever holds it.
THEOREM LockExcludes == Spec => []OneVerification
  BY Inductive, PTL DEF IInv

\* No step of any handler or scan takes back what another may have read: rows,
\* bids and batches stay, a row keeps a center and the stamps of its visit.
THEOREM NothingIsTakenBack == Spec => RecordsKept
  <1>1. IInv /\ [Next]_vars => [TablesGrow]_vars
    BY EveryStepIsGood DEF GoodStep
  <1> QED
    BY <1>1, Inductive, PTL DEF Spec, RecordsKept

=============================================================================
