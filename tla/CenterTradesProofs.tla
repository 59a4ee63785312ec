------------------------- MODULE CenterTradesProofs -------------------------
(* Proofs about the collection centers: the stock, the batches that are     *)
(* weighed in and the material that is traded out (CenterTrades).           *)
EXTENDS CenterTrades, FiniteSums

-----------------------------------------------------------------------------
(* What a handler in flight carries, by the step it is about to take.       *)

Kinds == {"idle", "IN", "OUT", "dispatch", "reroute", "receive", "addJob", "approve", "dispute",
          "resolve", "fiat", "consolidate", "accept", "acceptCommit", "acceptRead", "acceptSums",
          "acceptUnlocked", "deliver", "certify", "direct", "sell"}
AcceptKinds == {"accept", "acceptCommit", "acceptRead", "acceptSums", "acceptUnlocked"}
USE DEF AcceptKinds
\* The row as acceptTransfer read it without a lock.
RowSeen == [kg: Int, outs: Nat]
SessionRow == [kind: Kinds, id: Batches \cup Orders \cup Lots \cup {None},
               center: Centers \cup {None}, kg: Nat,
               seen: Int \cup {None} \cup BOOLEAN \cup (SUBSET Batches) \cup RowSeen]

RequestOK(p) ==
    /\ p.kind \in {"dispatch", "reroute", "receive", "addJob", "approve", "dispute", "resolve",
                   "fiat"} => p.id \in Batches
    /\ p.kind \in AcceptKinds \cup {"deliver", "certify"} => p.id \in Orders
    /\ p.kind = "sell" => p.id \in Lots \cup {None}
    /\ p.kind \in {"IN", "OUT", "dispatch", "reroute", "receive", "addJob", "consolidate",
                   "direct", "sell"} \cup AcceptKinds => p.center \in Centers
    /\ p.kind \in {"IN", "OUT", "direct", "sell"} \cup AcceptKinds => p.kg \in Weights
    /\ p.kind \in {"IN", "OUT"} => p.seen \in Int \cup {None}
    /\ p.kind = "consolidate" => p.seen \in SUBSET Batches
    /\ p.kind \in {"acceptSums", "acceptUnlocked"} => p.seen \in RowSeen

SessionsOK == session \in [Sessions -> SessionRow] /\ \A s \in Sessions : RequestOK(session[s])

\* A job in the queue knows its center and has an attempt left.
JobsOK ==
    \A b \in Batches :
        /\ job[b].state # "none" => job[b].center \in Centers
        /\ job[b].state \in {"waiting", "active", "stored"} => job[b].attempts < MaxAttempts

OrdersOK == \A o \in Orders : order[o].status # "NONE" => order[o].center \in Centers

Typed == TypeOK /\ SessionsOK /\ JobsOK /\ OrdersOK

\* The rows of TypeOK, by table.
InventoryTyped ==
    /\ stock \in [Centers -> Int \cup {None}]
    /\ ins \in [Centers -> Nat] /\ outs \in [Centers -> Nat]
    /\ overrun \subseteq Centers /\ crashes \in 0..MaxCrashes
BatchRow == [status: Status, center: Centers, kg: Nat, lot: Lots \cup {None}, fiat: BOOLEAN]
BatchesTyped ==
    /\ batch \in [Batches -> BatchRow]
    /\ lot \in [Lots -> [status: LotStatus, center: Centers \cup {None}, total: Nat]]
JobRow == [state: JobState, center: Centers \cup {None}, kg: Nat,
           attempts: 0..MaxAttempts, stalls: 0..MaxStalls]
JobsTyped ==
    /\ job \in [Batches -> JobRow]
    /\ approved \subseteq Batches /\ booked \in [Batches -> Seq(Nat)]
    /\ JobsOK
OrdersTyped ==
    /\ order \in [Orders -> [status: OrderStatus, center: Centers \cup {None}]]
    /\ dispatched \in [Orders -> Nat] /\ certified \in [Orders -> Nat]
    /\ OrdersOK

LEMMA TypedByTable ==
    Typed <=> InventoryTyped /\ SessionsOK /\ BatchesTyped /\ JobsTyped /\ OrdersTyped
  BY DEF Typed, TypeOK, InventoryTyped, SessionsOK, BatchesTyped, BatchRow, JobsTyped, JobRow,
         OrdersTyped

LEMMA TypedAfter ==
    Typed' <=> InventoryTyped' /\ SessionsOK' /\ BatchesTyped' /\ JobsTyped' /\ OrdersTyped'
  BY TypedByTable, PTL

\* Weights are positive.
LEMMA WeightsPositive == \A w \in Weights : w \in Nat /\ w > 0
  BY InventoryOK DEF InventoryOK

-----------------------------------------------------------------------------
(* The weight of a lot is a sum of weights.                                 *)

LEMMA TotalWeightNat ==
    ASSUME BatchesTyped, NEW bs \in SUBSET Batches
    PROVE  TotalWeight(bs) \in Nat
  <1> DEFINE kg == [b \in Batches |-> batch[b].kg]
             ByRow(it) == it = [s \in SUBSET bs |->
               IF s = {} THEN 0 ELSE batch[Pick(s)].kg + it[s \ {Pick(s)}]]
             BySum(it) == it = [s \in SUBSET bs |->
               IF s = {} THEN 0 ELSE kg[Pick(s)] + it[s \ {Pick(s)}]]
  <1>1. TotalWeight(bs) = (CHOOSE it : ByRow(it))[bs]
    BY DEF TotalWeight, MapThenSumSet, MapThenFoldSet, Pick
  <1>2. Sum(kg, bs) = (CHOOSE it : BySum(it))[bs]
    BY DEF Sum, MapThenSumSet, MapThenFoldSet, Pick
  <1>3. \A it : ByRow(it) <=> BySum(it)
    <2>1. \A s \in SUBSET bs : s # {} => kg[Pick(s)] = batch[Pick(s)].kg
      BY PickIn
    <2> QED BY <2>1
  <1>4. IsFiniteSet(bs) /\ \A b \in bs : kg[b] \in Nat
    BY BatchesOK, FS_Subset DEF BatchesOK, BatchesTyped, BatchRow
  <1> HIDE DEF ByRow, BySum, kg
  <1>5. (CHOOSE it : ByRow(it)) = (CHOOSE it : BySum(it))
    BY <1>3
  <1> QED
    BY <1>1, <1>2, <1>4, <1>5, SumNat

-----------------------------------------------------------------------------
(* Types.                                                                   *)

LEMMA InitTyped == Init => Typed
  <1> SUFFICES ASSUME Init PROVE Typed
    OBVIOUS
  <1> USE InventoryOK, BatchesOK, TradesOK DEF InventoryOK, BatchesOK, TradesOK, Init,
          InventoryInit, BatchesInit
  <1>1. InventoryTyped
    BY DEF InventoryTyped, Kg
  <1>2. SessionsOK
    BY DEF SessionsOK, SessionRow, RequestOK, Idle, Kinds
  <1>3. BatchesTyped
    BY DEF BatchesTyped, BatchRow, Status, NoLot, LotStatus
  <1>4. JobsTyped
    BY DEF JobsTyped, JobRow, JobState, NoJob, JobsOK
  <1>5. OrdersTyped
    BY DEF OrdersTyped, NoOrder, OrderStatus, OrdersOK
  <1> QED
    BY <1>1, <1>2, <1>3, <1>4, <1>5, TypedByTable

\* One handler goes on to a step it has all it needs for.
LEMMA SessionSet ==
    ASSUME SessionsOK, NEW s \in Sessions, NEW p \in SessionRow, RequestOK(p),
           session' = [session EXCEPT ![s] = p]
    PROVE  SessionsOK'
  BY DEF SessionsOK, RequestOK

LEMMA SessionEnds ==
    ASSUME SessionsOK, NEW s \in Sessions, Finish(s)
    PROVE  SessionsOK'
  <1>1. Idle \in SessionRow /\ RequestOK(Idle)
    BY DEF Idle, SessionRow, RequestOK, Kinds
  <1> QED
    BY <1>1, SessionSet DEF Finish

LEMMA SessionGoesOn ==
    ASSUME SessionsOK, NEW s \in Sessions, NEW k \in Kinds, GoOn(s, k),
           RequestOK([session[s] EXCEPT !.kind = k])
    PROVE  SessionsOK'
  <1>1. [session[s] EXCEPT !.kind = k] \in SessionRow
    BY DEF SessionsOK, SessionRow
  <1>2. session' = [session EXCEPT ![s] = [session[s] EXCEPT !.kind = k]]
    BY DEF GoOn
  <1> QED
    BY <1>1, <1>2, SessionSet

\* The movements booked by hand keep the types.
LEMMA InventoryKeepsTypes ==
    ASSUME Typed, InventoryNext, UNCHANGED <<batchVars, tradeVars>>
    PROVE  Typed'
  <1> USE TypedByTable, TypedAfter
  <1> USE DEF batchVars, tradeVars
  <1>1. BatchesTyped' /\ JobsTyped' /\ OrdersTyped'
    BY DEF BatchesTyped, JobsTyped, JobsOK, OrdersTyped, OrdersOK
  <1>2. InventoryTyped' /\ SessionsOK'
    <2>1. ASSUME NEW s \in Sessions, NEW c \in Centers, NEW type \in {"IN", "OUT"},
                 NEW w \in Weights, ReadForMovement(s, c, type, w)
          PROVE  InventoryTyped' /\ SessionsOK'
      <3>1. Step(type, None, c, w, stock[c]) \in SessionRow
            /\ RequestOK(Step(type, None, c, w, stock[c]))
        BY WeightsPositive DEF Step, SessionRow, RequestOK, Kinds, InventoryTyped
      <3>2. SessionsOK'
        BY <2>1, <3>1, SessionSet DEF ReadForMovement, Begin
      <3> QED BY <2>1, <3>2 DEF ReadForMovement, bookVars, InventoryTyped
    <2>2. ASSUME NEW s \in Sessions, WriteMovement(s) PROVE InventoryTyped' /\ SessionsOK'
      <3>1. SessionsOK'
        BY <2>2, SessionEnds DEF WriteMovement
      <3>2. /\ session[s].center \in Centers /\ session[s].kg \in Nat
            /\ Kg(session[s].seen) \in Int
        BY <2>2 DEF WriteMovement, SessionsOK, RequestOK, SessionRow, Kg
      <3> QED BY <2>2, <3>1, <3>2 DEF WriteMovement, bookVars, InventoryTyped, At
    <2>3. ASSUME NEW s \in Sessions, HandlerStops(s) PROVE InventoryTyped' /\ SessionsOK'
      BY <2>3, SessionEnds, InventoryOK
         DEF HandlerStops, bookVars, InventoryTyped, InventoryOK
    <2> QED BY <2>1, <2>2, <2>3 DEF InventoryNext
  <1> QED
    BY <1>1, <1>2

\* A batch is written by its id.
LEMMA BatchWritten ==
    ASSUME BatchesTyped, NEW b \in Batches, NEW status \in Status, NEW center \in Centers,
           NEW w \in Nat, Write(b, status, center, w), UNCHANGED lot
    PROVE  BatchesTyped'
  BY DEF BatchesTyped, BatchRow, Write

\* A job is written.
LEMMA JobWritten ==
    ASSUME JobsTyped, NEW b \in Batches, NEW row \in JobRow, job' = [job EXCEPT ![b] = row],
           row.state # "none" => row.center \in Centers,
           row.state \in {"waiting", "active", "stored"} => row.attempts < MaxAttempts,
           approved' \subseteq Batches, booked' \in [Batches -> Seq(Nat)]
    PROVE  JobsTyped'
  <1>1. job' \in [Batches -> JobRow] /\ job'[b] = row /\ \A d \in Batches : d # b => job'[d] = job[d]
    BY DEF JobsTyped
  <1>2. JobsOK'
    BY <1>1 DEF JobsTyped, JobsOK
  <1> QED
    BY <1>1, <1>2 DEF JobsTyped

\* A read of a batch's endpoint leaves everything but the session alone.
LEMMA BatchReadsKeepTypes ==
    ASSUME Typed, UNCHANGED <<batchVars>>, NEW s \in Sessions, NEW p, NEW call,
           Begin(s, call, p), p \in SessionRow, RequestOK(p)
    PROVE  SessionsOK' /\ BatchesTyped' /\ JobsTyped'
  <1>1. SessionsOK'
    BY SessionSet DEF Begin, Typed
  <1> QED
    BY <1>1, TypedByTable DEF batchVars, BatchesTyped, JobsTyped, JobsOK

\* The endpoints' reads.
EndpointReads(s) ==
    \/ \E b \in Batches, c \in Centers : ReadForDispatch(s, b, c) \/ ReadForReroute(s, b, c)
    \/ \E b \in Batches, w \in Weights :
          \/ \E waste \in BOOLEAN : ReadForReceive(s, b, w, waste)
          \/ ReadForResolution(s, b, w)
    \/ \E b \in Batches :
          ReadForApproval(s, b) \/ ReadForDispute(s, b) \/ ReadForCash(s, b)
             \/ ReadForResolution(s, b, batch[b].kg)
    \/ \E c \in Centers, bs \in SUBSET Batches : ReadForLot(s, c, bs)

LEMMA EndpointReadsKeepTypes ==
    ASSUME Typed, NEW s \in Sessions, EndpointReads(s)
    PROVE  SessionsOK' /\ BatchesTyped' /\ JobsTyped'
  <1> USE TypedByTable, BatchReadsKeepTypes, WeightsPositive
  <1> USE DEF Step, SessionRow, RequestOK, Kinds
  <1>1. ASSUME NEW b \in Batches, NEW c \in Centers,
               ReadForDispatch(s, b, c) \/ ReadForReroute(s, b, c)
        PROVE  SessionsOK' /\ BatchesTyped' /\ JobsTyped'
    <2>1. CASE ReadForDispatch(s, b, c)
      <3> DEFINE p == Step("dispatch", b, c, 0, None)
      <3>1. p \in SessionRow /\ RequestOK(p)
        OBVIOUS
      <3> QED BY <2>1, <3>1 DEF ReadForDispatch
    <2>2. CASE ReadForReroute(s, b, c)
      <3> DEFINE p == Step("reroute", b, c, 0, None)
      <3>1. p \in SessionRow /\ RequestOK(p)
        OBVIOUS
      <3> QED BY <2>2, <3>1 DEF ReadForReroute
    <2> QED BY <1>1, <2>1, <2>2
  <1>2. ASSUME NEW b \in Batches, NEW w \in Weights, NEW waste \in BOOLEAN,
               ReadForReceive(s, b, w, waste)
        PROVE  SessionsOK' /\ BatchesTyped' /\ JobsTyped'
    <2> DEFINE p == Step("receive", b, batch[b].center, w, waste)
    <2>1. p \in SessionRow /\ RequestOK(p)
      BY DEF BatchesTyped, BatchRow
    <2> QED BY <1>2, <2>1 DEF ReadForReceive
  <1>3. ASSUME NEW b \in Batches, NEW w \in Nat, ReadForResolution(s, b, w)
        PROVE  SessionsOK' /\ BatchesTyped' /\ JobsTyped'
    <2> DEFINE p == Step("resolve", b, None, w, None)
    <2>1. p \in SessionRow /\ RequestOK(p)
      OBVIOUS
    <2> QED BY <1>3, <2>1 DEF ReadForResolution
  <1>4. ASSUME NEW b \in Batches, ReadForApproval(s, b)
        PROVE  SessionsOK' /\ BatchesTyped' /\ JobsTyped'
    <2> DEFINE p == Step("approve", b, None, 0, None)
    <2>1. p \in SessionRow /\ RequestOK(p)
      OBVIOUS
    <2> QED BY <1>4, <2>1 DEF ReadForApproval
  <1>5. ASSUME NEW b \in Batches, ReadForDispute(s, b)
        PROVE  SessionsOK' /\ BatchesTyped' /\ JobsTyped'
    <2> DEFINE p == Step("dispute", b, None, 0, None)
    <2>1. p \in SessionRow /\ RequestOK(p)
      OBVIOUS
    <2> QED BY <1>5, <2>1 DEF ReadForDispute
  <1>6. ASSUME NEW b \in Batches, ReadForCash(s, b)
        PROVE  SessionsOK' /\ BatchesTyped' /\ JobsTyped'
    <2> DEFINE p == Step("fiat", b, batch[b].center, 0, None)
    <2>1. p \in SessionRow /\ RequestOK(p)
      BY DEF BatchesTyped, BatchRow
    <2> QED BY <1>6, <2>1 DEF ReadForCash
  <1>7. ASSUME NEW c \in Centers, NEW bs \in SUBSET Batches, ReadForLot(s, c, bs)
        PROVE  SessionsOK' /\ BatchesTyped' /\ JobsTyped'
    <2> DEFINE p == Step("consolidate", None, c, TotalWeight(bs), bs)
    <2>1. p \in SessionRow /\ RequestOK(p)
      BY TotalWeightNat
    <2> QED BY <1>7, <2>1 DEF ReadForLot
  <1>8. \A b \in Batches : batch[b].kg \in Nat
    BY DEF BatchesTyped, BatchRow
  <1> QED
    BY <1>1, <1>2, <1>3, <1>4, <1>5, <1>6, <1>7, <1>8 DEF EndpointReads

\* The endpoints' writes.
EndpointWrites(s) ==
    \/ WriteDispatch(s) \/ WriteReroute(s) \/ WriteReceive(s) \/ AddJob(s)
    \/ WriteApproval(s) \/ WriteDispute(s) \/ WriteResolution(s) \/ WriteCash(s)
    \/ \E l \in Lots : WriteLot(s, l)

LEMMA EndpointWritesKeepTypes ==
    ASSUME Typed, NEW s \in Sessions, EndpointWrites(s)
    PROVE  SessionsOK' /\ BatchesTyped' /\ JobsTyped'
  <1> USE TypedByTable
  <1>1. session[s] \in SessionRow /\ RequestOK(session[s])
    BY DEF SessionsOK
  <1>2. \A b \in Batches : batch[b].center \in Centers /\ batch[b].kg \in Nat
    BY DEF BatchesTyped, BatchRow
  <1>3. UNCHANGED <<job, approved, booked>> => JobsTyped'
    BY DEF JobsTyped, JobsOK
  <1>4. ASSUME NEW status \in {"dispatch", "reroute"}, At(s, status),
               Write(session[s].id, IF status = "dispatch" THEN "IN_TRANSIT" ELSE "REROUTED",
                     session[s].center, batch[session[s].id].kg),
               Finish(s), UNCHANGED <<lot, job, approved, booked>>
        PROVE  SessionsOK' /\ BatchesTyped' /\ JobsTyped'
    <2>1. session[s].id \in Batches /\ session[s].center \in Centers
      BY <1>1, <1>4 DEF RequestOK, At
    <2> QED BY <1>2, <1>3, <1>4, <2>1, SessionEnds, BatchWritten DEF Status
  <1>5. CASE WriteDispatch(s)
    BY <1>4, <1>5 DEF WriteDispatch
  <1>6. CASE WriteReroute(s)
    BY <1>4, <1>6 DEF WriteReroute
  <1>7. CASE WriteReceive(s)
    <2> DEFINE b == session[s].id
               w == session[s].kg
               c == batch[b].center
    <2>1. b \in Batches /\ c \in Centers /\ w \in Nat
      BY <1>1, <1>2, <1>7 DEF WriteReceive, RequestOK, At, SessionRow
    <2>2. CASE Tolerated(b, w)
      <3>1. PICK status \in {"PARTIALLY_ACCEPTED", "PROCESSING"} : Write(b, status, c, w)
        BY <1>7, <2>2 DEF WriteReceive
      <3>2. BatchesTyped'
        BY <1>7, <2>1, <3>1, BatchWritten DEF WriteReceive, Status
      <3>3. GoOn(s, "addJob") /\ RequestOK([session[s] EXCEPT !.kind = "addJob"])
        BY <1>1, <1>7, <2>2 DEF WriteReceive, RequestOK, SessionRow, At
      <3>4. SessionsOK'
        BY <3>3, SessionGoesOn DEF Kinds
      <3> QED BY <1>3, <1>7, <3>2, <3>4 DEF WriteReceive
    <2>3. CASE ~Tolerated(b, w)
      BY <1>3, <1>7, <2>1, <2>3, SessionEnds, BatchWritten DEF WriteReceive, Status
    <2> QED BY <2>2, <2>3
  <1>8. CASE AddJob(s)
    <2>1. session[s].id \in Batches /\ session[s].center \in Centers /\ session[s].kg \in Nat
      BY <1>1, <1>8 DEF AddJob, RequestOK, At, SessionRow
    <2>2. BatchesTyped'
      BY <1>8 DEF AddJob, BatchesTyped
    <2> DEFINE row == [NoJob EXCEPT !.state = "waiting", !.center = session[s].center,
                                    !.kg = session[s].kg]
    <2>3. NoJob \in JobRow /\ NoJob.attempts = 0
      BY BatchesOK DEF JobRow, JobState, NoJob, BatchesOK
    <2>4. row \in JobRow /\ row.state = "waiting" /\ row.center \in Centers
          /\ row.attempts < MaxAttempts
      <3>1. row \in JobRow
        BY <2>1, <2>3 DEF JobRow, JobState
      <3>2. row.state = "waiting" /\ row.center = session[s].center /\ row.attempts = NoJob.attempts
        BY <2>3 DEF JobRow
      <3> QED BY <2>1, <2>3, <3>1, <3>2, BatchesOK DEF BatchesOK
    <2>5. job' = [job EXCEPT ![session[s].id] = row] \/ job' = job
      BY <1>8 DEF AddJob, Enqueue
    <2>6. UNCHANGED <<approved, booked>>
      BY <1>8 DEF AddJob
    <2> HIDE DEF row
    <2>7. JobsTyped'
      <3>1. CASE job' = [job EXCEPT ![session[s].id] = row]
        BY <2>1, <2>4, <2>6, <3>1, JobWritten DEF JobsTyped
      <3>2. CASE job' = job
        BY <1>3, <2>6, <3>2
      <3> QED BY <2>5, <3>1, <3>2
    <2> QED BY <1>8, <2>2, <2>7, SessionEnds DEF AddJob
  <1>9. CASE WriteApproval(s)
    <2> DEFINE b == session[s].id
               p == Step("addJob", b, batch[b].center, batch[b].kg, None)
    <2>1. b \in Batches
      BY <1>1, <1>9 DEF WriteApproval, RequestOK, At
    <2>2. p \in SessionRow /\ RequestOK(p)
      BY <1>2, <2>1 DEF Step, SessionRow, RequestOK, Kinds
    <2>3. SessionsOK'
      BY <1>9, <2>2, SessionSet DEF WriteApproval
    <2>4. BatchesTyped'
      BY <1>2, <1>9, <2>1, BatchWritten DEF WriteApproval, Status
    <2>5. JobsTyped'
      BY <1>9, <2>1 DEF WriteApproval, JobsTyped, JobsOK
    <2> QED BY <2>3, <2>4, <2>5
  <1>10. CASE WriteDispute(s)
    <2>1. session[s].id \in Batches
      BY <1>1, <1>10 DEF WriteDispute, RequestOK, At
    <2> QED BY <1>2, <1>3, <1>10, <2>1, SessionEnds, BatchWritten DEF WriteDispute, Status
  <1>11. CASE WriteResolution(s)
    <2>1. session[s].id \in Batches /\ session[s].kg \in Nat
      BY <1>1, <1>11 DEF WriteResolution, RequestOK, At, SessionRow
    <2> QED BY <1>2, <1>3, <1>11, <2>1, SessionEnds, BatchWritten DEF WriteResolution, Status
  <1>12. CASE WriteCash(s)
    <2>1. session[s].id \in Batches
      BY <1>1, <1>12 DEF WriteCash, RequestOK, At
    <2>2. BatchesTyped'
      BY <1>12, <2>1 DEF WriteCash, BatchesTyped, BatchRow
    <2> QED BY <1>3, <1>12, <2>2, SessionEnds DEF WriteCash
  <1>13. ASSUME NEW l \in Lots, WriteLot(s, l)
         PROVE  SessionsOK' /\ BatchesTyped' /\ JobsTyped'
    <2>1. session[s].center \in Centers /\ session[s].kg \in Nat
      BY <1>1, <1>13 DEF WriteLot, RequestOK, At, SessionRow
    <2>2. batch' \in [Batches -> BatchRow]
      BY <1>13 DEF WriteLot, BatchesTyped, BatchRow, Status
    <2>3. BatchesTyped'
      BY <1>13, <2>1, <2>2 DEF WriteLot, BatchesTyped, LotStatus, BatchRow
    <2> QED BY <1>3, <1>13, <2>3, SessionEnds DEF WriteLot
  <1> QED
    BY <1>5, <1>6, <1>7, <1>8, <1>9, <1>10, <1>11, <1>12, <1>13 DEF EndpointWrites

\* The job keeps the types.
LEMMA JobsKeepTypes ==
    ASSUME Typed, NEW b \in Batches, Worker(b) \/ WorkerDies(b)
    PROVE  InventoryTyped' /\ SessionsOK' /\ BatchesTyped' /\ JobsTyped'
  <1> USE TypedByTable
  <1> USE DEF inventoryVars, bookVars
  <1>1. /\ job[b] \in JobRow /\ batch[b] \in BatchRow /\ booked[b] \in Seq(Nat)
        /\ MaxAttempts \in Nat \ {0} /\ MaxStalls \in Nat
    BY BatchesOK DEF JobsTyped, BatchesTyped, BatchesOK
  <1>2. ASSUME UNCHANGED <<batch, lot, approved, booked, inventoryVars>>,
               NEW row \in JobRow, job' = [job EXCEPT ![b] = row],
               row.state # "none" => row.center \in Centers,
               row.state \in {"waiting", "active", "stored"} => row.attempts < MaxAttempts
        PROVE  InventoryTyped' /\ SessionsOK' /\ BatchesTyped' /\ JobsTyped'
    BY <1>2 DEF InventoryTyped, SessionsOK, BatchesTyped, JobsTyped, JobsOK
  <1>3. CASE TakeJob(b)
    <2>1. PICK c \in {job[b].center, batch[b].center} :
             job' = [job EXCEPT ![b].state = "active", ![b].center = c]
      BY <1>3 DEF TakeJob
    <2> DEFINE row == [job[b] EXCEPT !.state = "active", !.center = c]
    <2>2. c \in Centers /\ job[b].attempts < MaxAttempts
      BY <1>1, <1>3 DEF TakeJob, JobsTyped, JobsOK, BatchRow
    <2>3. row \in JobRow /\ job' = [job EXCEPT ![b] = row]
      BY <1>1, <2>1, <2>2 DEF JobRow, JobState
    <2> QED BY <1>2, <1>3, <2>2, <2>3, <1>1 DEF TakeJob, JobRow
  <1>4. CASE StoreBatch(b)
    <2>1. job[b].center \in Centers /\ job[b].kg \in Nat /\ job[b].attempts < MaxAttempts
      BY <1>1, <1>4 DEF StoreBatch, JobsTyped, JobsOK, JobRow
    <2>2. InventoryTyped'
      BY <1>4, <2>1 DEF StoreBatch, Book, JobWeight, Kg, InventoryTyped
    <2>3. BatchesTyped'
      BY <1>4 DEF StoreBatch, BatchesTyped, BatchRow, Status
    <2> DEFINE row == [job[b] EXCEPT !.state = "stored"]
    <2>4. JobsTyped'
      <3>1. row \in JobRow /\ row.state = "stored" /\ row.center = job[b].center
            /\ row.attempts = job[b].attempts
        BY <1>1 DEF JobRow, JobState
      <3>2. job' = [job EXCEPT ![b] = row]
        BY <1>4 DEF StoreBatch, Move
      <3>3. booked' \in [Batches -> Seq(Nat)]
        BY <1>1, <1>4, <2>1 DEF StoreBatch, JobWeight, JobsTyped
      <3>4. approved' \subseteq Batches
        BY <1>4 DEF StoreBatch, JobsTyped
      <3> HIDE DEF row
      <3> QED BY <2>1, <3>1, <3>2, <3>3, <3>4, JobWritten
    <2> QED BY <1>4, <2>2, <2>3, <2>4 DEF StoreBatch, SessionsOK
  <1>5. CASE AttemptFails(b)
    <2> DEFINE n == job[b].attempts + 1
               row == [job[b] EXCEPT !.attempts = n,
                                     !.state = IF Exhausted(n) THEN "failed" ELSE "waiting"]
    <2>1. job[b].attempts \in Nat /\ job[b].attempts < MaxAttempts /\ job[b].center \in Centers
      BY <1>1, <1>5 DEF AttemptFails, JobsTyped, JobsOK, JobRow
    <2>2. row \in JobRow /\ job' = [job EXCEPT ![b] = row]
      <3>1. n \in 0..MaxAttempts
        BY <1>1, <2>1
      <3>2. row \in JobRow
        BY <1>1, <3>1 DEF JobRow, JobState
      <3>3. job' = [job EXCEPT ![b] = row]
        BY <1>5 DEF AttemptFails
      <3> QED BY <3>2, <3>3
    <2>3. row.state = "waiting" => row.attempts < MaxAttempts
      BY <1>1, <2>1 DEF Exhausted, JobRow
    <2>4. row.center \in Centers /\ row.state \in {"waiting", "failed"}
      BY <1>1, <2>1 DEF JobRow
    <2> HIDE DEF row
    <2> QED BY <1>2, <1>5, <2>2, <2>3, <2>4 DEF AttemptFails
  <1>6. CASE AckJob(b)
    <2> DEFINE row == [job[b] EXCEPT !.state = "done"]
    <2>1. row \in JobRow /\ job' = [job EXCEPT ![b] = row] /\ row.center \in Centers
          /\ row.state = "done"
      BY <1>1, <1>6 DEF AckJob, Move, JobRow, JobState, JobsTyped, JobsOK
    <2> HIDE DEF row
    <2> QED BY <1>2, <1>6, <2>1 DEF AckJob
  <1>7. CASE WorkerDies(b)
    <2> DEFINE row == IF job[b].stalls < MaxStalls
                      THEN [job[b] EXCEPT !.stalls = @ + 1, !.state = "waiting"]
                      ELSE [job[b] EXCEPT !.state = "failed"]
    <2>1. job[b].center \in Centers /\ job[b].attempts < MaxAttempts
      BY <1>1, <1>7 DEF WorkerDies, JobsTyped, JobsOK
    <2>2. row \in JobRow /\ row.center = job[b].center /\ row.attempts = job[b].attempts
      <3>1. job[b].stalls < MaxStalls => job[b].stalls + 1 \in 0..MaxStalls
        BY <1>1 DEF JobRow
      <3> QED BY <1>1, <3>1 DEF JobRow, JobState
    <2>3. job' = [job EXCEPT ![b] = row]
      BY <1>7 DEF WorkerDies, AfterStall
    <2> HIDE DEF row
    <2> QED BY <1>2, <1>7, <2>1, <2>2, <2>3 DEF WorkerDies
  <1> QED
    BY <1>3, <1>4, <1>5, <1>6, <1>7 DEF Worker

\* Purchase orders, direct dispatches and sales keep the types.
LEMMA TradesKeepTypes ==
    ASSUME Typed, TradesNext
    PROVE  Typed'
  <1> USE TypedByTable, TypedAfter, WeightsPositive
  <1> USE DEF bookVars, tradeVars, batchVars, inventoryVars
  <1>1. ASSUME UNCHANGED <<bookVars, overrun, crashes, batchVars, tradeVars>>,
               NEW s \in Sessions, NEW p \in SessionRow, RequestOK(p),
               session' = [session EXCEPT ![s] = p]
        PROVE  Typed'
    <2>1. SessionsOK'
      BY <1>1, SessionSet
    <2> QED BY <1>1, <2>1 DEF InventoryTyped, BatchesTyped, JobsTyped, JobsOK, OrdersTyped, OrdersOK
  <1>2. ASSUME UNCHANGED <<batch, job, approved, booked>>
        PROVE  JobsTyped' /\ (lot' = lot => BatchesTyped')
    BY <1>2 DEF BatchesTyped, JobsTyped, JobsOK
  <1>3. ASSUME NEW o \in Orders, NEW c \in Centers, NEW w \in Nat, Leaves(o, c, w),
               UNCHANGED <<overrun, crashes, certified>>
        PROVE  InventoryTyped' /\ OrdersTyped'
    <2>1. InventoryTyped'
      BY <1>3 DEF Leaves, Book, Kg, InventoryTyped
    <2>2. OrdersTyped'
      BY <1>3 DEF Leaves, OrdersTyped, OrdersOK, OrderStatus
    <2> QED BY <2>1, <2>2
  <1>4. ASSUME NEW o \in Orders, NEW c \in Centers, RequestOrder(o, c) PROVE Typed'
    <2>1. OrdersTyped'
      BY <1>4 DEF RequestOrder, OrdersTyped, OrdersOK, OrderStatus
    <2> QED BY <1>2, <1>4, <2>1 DEF RequestOrder, InventoryTyped, SessionsOK
  <1>5. ASSUME NEW s \in Sessions, NEW o \in Orders, NEW w \in Weights, ReadForAccept(s, o, w)
        PROVE  Typed'
    <2> DEFINE p == Step("accept", o, order[o].center, w, None)
    <2>1. p \in SessionRow /\ RequestOK(p)
      BY <1>5 DEF ReadForAccept, OrdersTyped, OrdersOK, Step, SessionRow, RequestOK, Kinds
    <2> QED BY <1>1, <1>5, <2>1 DEF ReadForAccept, Begin
  <1>6. ASSUME NEW s \in Sessions, AcceptLock(s) PROVE Typed'
    <2>1. SessionsOK'
      <3>1. ASSUME NEW k \in {"acceptCommit", "acceptRead"}, GoOn(s, k) PROVE SessionsOK'
        <4>1. RequestOK([session[s] EXCEPT !.kind = k])
          BY <1>6 DEF AcceptLock, SessionsOK, SessionRow, RequestOK, At
        <4> QED BY <3>1, <4>1, SessionGoesOn DEF Kinds
      <3>2. CASE Finish(s)
        BY <3>2, SessionEnds
      <3> QED BY <1>6, <3>1, <3>2 DEF AcceptLock
    <2> QED BY <1>2, <1>6, <2>1 DEF AcceptLock, InventoryTyped, OrdersTyped, OrdersOK
  <1>7. ASSUME NEW s \in Sessions, AcceptCommit(s) PROVE Typed'
    <2>1. session[s].id \in Orders /\ session[s].center \in Centers /\ session[s].kg \in Nat
      BY <1>7 DEF AcceptCommit, SessionsOK, RequestOK, At
    <2> QED BY <1>2, <1>3, <1>7, <2>1, SessionEnds DEF AcceptCommit
  <1>8. ASSUME NEW s \in Sessions, NEW o \in Orders, ReadForDelivery(s, o) PROVE Typed'
    <2> DEFINE p == Step("deliver", o, order[o].center, 0, None)
    <2>1. p \in SessionRow /\ RequestOK(p)
      BY DEF OrdersTyped, Step, SessionRow, RequestOK, Kinds
    <2> QED BY <1>1, <1>8, <2>1 DEF ReadForDelivery, Begin
  <1>9. ASSUME NEW s \in Sessions, ClaimDelivery(s) PROVE Typed'
    <2>1. session[s].id \in Orders
      BY <1>9 DEF ClaimDelivery, SessionsOK, RequestOK, At
    <2>2. CASE StillAccepted(session[s].id)
      <3>1. OrdersTyped'
        BY <1>9, <2>1, <2>2 DEF ClaimDelivery, OrdersTyped, OrdersOK, OrderStatus, StillAccepted
      <3>2. RequestOK([session[s] EXCEPT !.kind = "certify"])
        BY <1>9, <2>1 DEF SessionsOK, SessionRow, RequestOK
      <3>3. SessionsOK'
        BY <1>9, <2>2, <3>2, SessionGoesOn DEF ClaimDelivery, Kinds
      <3> QED BY <1>2, <1>9, <3>1, <3>3 DEF ClaimDelivery, InventoryTyped
    <2>3. CASE ~StillAccepted(session[s].id)
      BY <1>2, <1>9, <2>3, SessionEnds
         DEF ClaimDelivery, InventoryTyped, OrdersTyped, OrdersOK
    <2> QED BY <2>2, <2>3
  <1>10. ASSUME NEW s \in Sessions, Certify(s) PROVE Typed'
    <2>1. session[s].id \in Orders
      BY <1>10 DEF Certify, SessionsOK, RequestOK, At
    <2>2. OrdersTyped'
      BY <1>10, <2>1 DEF Certify, OrdersTyped, OrdersOK
    <2> QED BY <1>2, <1>10, <2>2, SessionEnds DEF Certify, InventoryTyped
  <1>11. ASSUME NEW s \in Sessions, NEW o \in Orders, WriteDirect(s, o) PROVE Typed'
    <2>1. session[s].center \in Centers /\ session[s].kg \in Nat
      BY <1>11 DEF WriteDirect, SessionsOK, RequestOK, At
    <2> QED BY <1>2, <1>3, <1>11, <2>1, SessionEnds DEF WriteDirect
  <1>12. ASSUME NEW s \in Sessions, NEW c \in Centers, NEW w \in Weights, ReadForDirect(s, c, w)
         PROVE  Typed'
    <2> DEFINE p == Step("direct", None, c, w, None)
    <2>1. p \in SessionRow /\ RequestOK(p)
      BY DEF Step, SessionRow, RequestOK, Kinds
    <2> QED BY <1>1, <1>12, <2>1 DEF ReadForDirect, Begin
  <1>13. ASSUME NEW s \in Sessions, NEW c \in Centers, NEW w \in Weights,
                NEW l \in Lots \cup {None}, ReadForSale(s, c, w, l)
         PROVE  Typed'
    <2> DEFINE p == Step("sell", l, c, w, None)
    <2>1. p \in SessionRow /\ RequestOK(p)
      BY DEF Step, SessionRow, RequestOK, Kinds
    <2> QED BY <1>1, <1>13, <2>1 DEF ReadForSale, Begin
  <1>14. ASSUME NEW s \in Sessions, WriteSale(s) PROVE Typed'
    <2>1. session[s].center \in Centers /\ session[s].kg \in Nat
      BY <1>14 DEF WriteSale, SessionsOK, RequestOK, At
    <2>2. InventoryTyped'
      BY <1>14, <2>1 DEF WriteSale, Book, Kg, InventoryTyped
    <2>3. BatchesTyped'
      BY <1>14 DEF WriteSale, BatchesTyped, LotStatus
    <2> QED BY <1>2, <1>14, <2>2, <2>3, SessionEnds DEF WriteSale, OrdersTyped, OrdersOK
  <1>15. ASSUME NEW s \in Sessions, AcceptRead(s) \/ AcceptSums(s) PROVE Typed'
    <2>1. /\ session[s] \in SessionRow /\ RequestOK(session[s])
          /\ session[s].center \in Centers
      BY <1>15 DEF AcceptRead, AcceptSums, SessionsOK, RequestOK, At
    <2>2. SessionsOK'
      <3>1. ASSUME AcceptRead(s), Enough(session[s].center, session[s].kg) PROVE SessionsOK'
        <4> DEFINE seen == [kg |-> stock[session[s].center], outs |-> outs[session[s].center]]
                   p == [session[s] EXCEPT !.kind = "acceptSums", !.seen = seen]
        <4>1. seen \in RowSeen
          BY <2>1, <3>1 DEF Enough, InventoryTyped, RowSeen
        <4>2. p \in SessionRow /\ p.kind = "acceptSums" /\ p.seen = seen /\ p.id = session[s].id
              /\ p.center = session[s].center /\ p.kg = session[s].kg
          <5> HIDE DEF seen
          <5>1. /\ "acceptSums" \in Kinds
                /\ seen \in Int \cup {None} \cup BOOLEAN \cup (SUBSET Batches) \cup RowSeen
            BY <4>1, Zenon DEF Kinds
          <5>2. session[s] \in SessionRow
            BY <2>1
          <5> QED BY <5>1, <5>2, Zenon DEF SessionRow
        <4>4. RequestOK(p)
          <5> HIDE DEF seen, p
          <5> QED BY <2>1, <3>1, <4>1, <4>2 DEF AcceptRead, At, RequestOK
        <4>3. session' = [session EXCEPT ![s] = p]
          BY <3>1 DEF AcceptRead
        <4> QED BY <4>2, <4>3, <4>4, SessionSet
      <3>2. CASE AcceptSums(s) /\ GoOn(s, "acceptUnlocked")
        <4>1. RequestOK([session[s] EXCEPT !.kind = "acceptUnlocked"])
          BY <2>1, <3>2 DEF AcceptSums, SessionRow, RequestOK, At
        <4> QED BY <3>2, <4>1, SessionGoesOn DEF Kinds
      <3>3. CASE Finish(s)
        BY <3>3, SessionEnds
      <3> QED BY <1>15, <3>1, <3>2, <3>3 DEF AcceptRead, AcceptSums
    <2> QED BY <1>2, <1>15, <2>2 DEF AcceptRead, AcceptSums, InventoryTyped, OrdersTyped, OrdersOK
  <1>16. ASSUME NEW s \in Sessions, AcceptUnlocked(s) PROVE Typed'
    <2>1. session[s].id \in Orders /\ session[s].center \in Centers /\ session[s].kg \in Nat
      BY <1>16 DEF AcceptUnlocked, SessionsOK, RequestOK, At
    <2> QED BY <1>2, <1>3, <1>16, <2>1, SessionEnds DEF AcceptUnlocked
  <1> QED
    BY <1>4, <1>5, <1>6, <1>7, <1>8, <1>9, <1>10, <1>11, <1>12, <1>13, <1>14, <1>15, <1>16
       DEF TradesNext

\* Every step keeps the types.
LEMMA NextTyped == Typed /\ [Next]_vars => Typed'
  <1> SUFFICES ASSUME Typed, [Next]_vars PROVE Typed'
    OBVIOUS
  <1> USE TypedByTable, TypedAfter
  <1>1. CASE InventoryNext /\ UNCHANGED <<batchVars, tradeVars>>
    BY <1>1, InventoryKeepsTypes
  <1>2. ASSUME Endpoint, UNCHANGED tradeVars PROVE Typed'
    <2>1. InventoryTyped' /\ OrdersTyped'
      BY <1>2 DEF Endpoint, bookVars, tradeVars, InventoryTyped, OrdersTyped, OrdersOK
    <2>2. \E s \in Sessions : EndpointReads(s) \/ EndpointWrites(s)
      BY <1>2 DEF Endpoint, EndpointReads, EndpointWrites
    <2> QED BY <2>1, <2>2, EndpointReadsKeepTypes, EndpointWritesKeepTypes
  <1>3. ASSUME NEW b \in Batches, Worker(b) \/ WorkerDies(b), UNCHANGED tradeVars PROVE Typed'
    <2>1. OrdersTyped'
      BY <1>3 DEF tradeVars, OrdersTyped, OrdersOK
    <2> QED BY <1>3, <2>1, JobsKeepTypes
  <1>4. CASE TradesNext
    BY <1>4, TradesKeepTypes
  <1>5. CASE UNCHANGED vars
    BY <1>5 DEF vars, inventoryVars, bookVars, batchVars, tradeVars, InventoryTyped, SessionsOK,
                BatchesTyped, JobsTyped, JobsOK, OrdersTyped, OrdersOK
  <1> QED
    BY <1>1, <1>2, <1>3, <1>4, <1>5 DEF Next, BatchesNext

\* Rows, sessions, jobs and orders keep their types, however the endpoints of the
\* centers and the jobs of blockchain-queue interleave.
THEOREM CentersTypeOK == Spec => []TypeOK
  <1>1. Spec => []Typed
    BY InitTyped, NextTyped, PTL DEF Spec
  <1>2. Typed => TypeOK
    BY DEF Typed
  <1> QED
    BY <1>1, <1>2, PTL

-----------------------------------------------------------------------------
(* The inductive invariant.                                                 *)

\* A weight that may be booked in for a batch.
WeightOK(b, w) == Tolerated(b, w) \/ b \in approved

\* What a handler is about to queue and what a job carries may be booked in.
WeightsOK ==
    /\ \A s \in Sessions : At(s, "addJob") => WeightOK(session[s].id, session[s].kg)
    /\ \A b \in Batches : job[b].state # "none" => WeightOK(b, job[b].kg)
    /\ ToleratedOrApproved

\* A job books in once per worker it was given to, and not before it is taken.
BookingsOK ==
    \A b \in Batches :
        /\ job[b].state = "none" => booked[b] = <<>>
        /\ job[b].state \in {"waiting", "active"} => Len(booked[b]) <= job[b].stalls
        /\ Len(booked[b]) <= 1 + job[b].stalls

\* The two checks of acceptTransfer hold for as long as its lock is held, and the
\* lock has one holder.
Covered(c, w) == KeepsMass(c, w) /\ Enough(c, w)
LocksOK ==
    /\ \A s, t \in Sessions :
          At(s, "acceptCommit") /\ At(t, "acceptCommit") /\ session[s].center = session[t].center
             => s = t
    /\ \A s \in Sessions :
          At(s, "acceptCommit") => Covered(session[s].center, session[s].kg)

\* Without the lock they hold unless an exit was booked since the row was read, or a
\* movement by hand wrote over a row that had changed.
Misread(c, n) == c \in overrun \/ outs[c] > n
RowHolds(c, w, n) == Misread(c, n) \/ (outs[c] = n /\ Enough(c, w))
SumsHold(c, w, n) == Misread(c, n) \/ MassBalance(c, w)
Unguarded(s) ==
    LET c == session[s].center
        w == session[s].kg
        n == session[s].seen.outs
    IN  /\ At(s, "acceptSums") \/ At(s, "acceptUnlocked") => RowHolds(c, w, n)
        /\ At(s, "acceptUnlocked") => SumsHold(c, w, n)
UnguardedOK == \A s \in Sessions : Unguarded(s)

\* Handlers that have claimed the delivery of an order and not certified it yet.
Certifying(o) == {s \in Sessions : At(s, "certify") /\ session[s].id = o}

\* Every certificate, and every one that is still to be written or claimed, has a
\* dispatch of its own.
CertificatesOK ==
    \A o \in Orders :
        /\ IsFiniteSet(Certifying(o))
        /\ certified[o] + Cardinality(Certifying(o))
              + (IF order[o].status = "ACCEPTED" THEN 1 ELSE 0) <= dispatched[o]

CentersInv == /\ Typed /\ StockIsKardex /\ WeightsOK /\ BookingsOK /\ LocksOK /\ UnguardedOK
              /\ CertificatesOK

LEMMA InitCentersInv == Init => CentersInv
  <1> SUFFICES ASSUME Init PROVE CentersInv
    OBVIOUS
  <1> USE DEF Init, InventoryInit, BatchesInit
  <1>1. Typed
    BY InitTyped
  <1>2. StockIsKardex
    BY InventoryOK DEF InventoryOK, StockIsKardex, Kg
  <1>3. \A s \in Sessions : session[s].kind = "idle"
    BY DEF Idle
  <1>4. \A b \in Batches : job[b].state = "none" /\ job[b].stalls = 0 /\ booked[b] = <<>>
    BY DEF NoJob
  <1>5. WeightsOK
    BY <1>3, <1>4 DEF WeightsOK, ToleratedOrApproved, At
  <1>6. BookingsOK
    BY <1>4 DEF BookingsOK
  <1>7. LocksOK /\ UnguardedOK
    BY <1>3 DEF LocksOK, UnguardedOK, Unguarded, At
  <1>8. CertificatesOK
    <2>1. \A o \in Orders : Certifying(o) = {}
      BY <1>3 DEF Certifying, At
    <2>2. IsFiniteSet({}) /\ Cardinality({}) = 0
      BY FS_EmptySet
    <2>3. \A o \in Orders : certified[o] = 0 /\ dispatched[o] = 0 /\ order[o].status # "ACCEPTED"
      BY DEF NoOrder
    <2>4. ASSUME NEW o \in Orders
          PROVE  /\ IsFiniteSet(Certifying(o))
                 /\ certified[o] + Cardinality(Certifying(o))
                       + (IF order[o].status = "ACCEPTED" THEN 1 ELSE 0) <= dispatched[o]
      <3>1. Certifying(o) = {} /\ certified[o] = 0 /\ dispatched[o] = 0
            /\ order[o].status # "ACCEPTED"
        BY <2>1, <2>3
      <3> QED BY <2>2, <3>1
    <2> QED BY <2>4 DEF CertificatesOK
  <1> QED
    BY <1>1, <1>2, <1>5, <1>6, <1>7, <1>8 DEF CentersInv

-----------------------------------------------------------------------------
(* Most steps touch nothing of it.                                          *)

Decisive == {"addJob", "acceptCommit", "acceptSums", "acceptUnlocked", "certify"}
QuietStep ==
    /\ UNCHANGED <<stock, ins, outs, overrun, job, approved, booked, order, dispatched, certified>>
    /\ \A s \in Sessions : session'[s] = session[s] \/ session'[s].kind \notin Decisive

\* The steps of a handler that do.
DecisiveStep(s) ==
    \/ WriteMovement(s) /\ UNCHANGED <<batchVars, tradeVars>>
    \/ (WriteReceive(s) \/ AddJob(s) \/ WriteApproval(s))
          /\ UNCHANGED <<bookVars, overrun, crashes, tradeVars>>
    \/ AcceptLock(s) \/ AcceptCommit(s) \/ ClaimDelivery(s) \/ Certify(s) \/ WriteSale(s)
    \/ AcceptRead(s) \/ AcceptSums(s) \/ AcceptUnlocked(s)
    \/ \E o \in Orders : WriteDirect(s, o)

LEMMA QuietOrDecisive ==
    ASSUME Typed, [Next]_vars
    PROVE  \/ QuietStep
           \/ \E s \in Sessions : DecisiveStep(s)
           \/ \E b \in Batches : (Worker(b) \/ WorkerDies(b)) /\ UNCHANGED tradeVars
           \/ \E o \in Orders, c \in Centers : RequestOrder(o, c)
  <1> USE DEF batchVars, bookVars, tradeVars, inventoryVars
  <1>1. ASSUME NEW s \in Sessions, NEW p, p.kind \notin Decisive,
               session' = [session EXCEPT ![s] = p]
        PROVE  \A t \in Sessions : session'[t] = session[t] \/ session'[t].kind \notin Decisive
    BY <1>1 DEF Typed, SessionsOK
  <1>2. \A s \in Sessions : Finish(s)
          => \A t \in Sessions : session'[t] = session[t] \/ session'[t].kind \notin Decisive
    BY <1>1 DEF Finish, Idle, Decisive
  <1>3. ASSUME NEW s \in Sessions, NEW p, NEW call, Begin(s, call, p), p.kind \notin Decisive
        PROVE  \A t \in Sessions : session'[t] = session[t] \/ session'[t].kind \notin Decisive
    BY <1>1, <1>3 DEF Begin
  <1>4. ASSUME InventoryNext, UNCHANGED <<batchVars, tradeVars>>
        PROVE  QuietStep \/ \E s \in Sessions : DecisiveStep(s)
    <2>1. ASSUME NEW s \in Sessions, NEW c \in Centers, NEW type \in {"IN", "OUT"},
                 NEW w \in Weights, ReadForMovement(s, c, type, w)
          PROVE  QuietStep
      BY <1>3, <1>4, <2>1 DEF ReadForMovement, Step, Decisive, QuietStep
    <2>2. ASSUME NEW s \in Sessions, HandlerStops(s) PROVE QuietStep
      BY <1>2, <1>4, <2>2 DEF HandlerStops, QuietStep
    <2> QED BY <1>4, <2>1, <2>2 DEF InventoryNext, DecisiveStep
  <1>5. ASSUME NEW s \in Sessions, EndpointReads(s), UNCHANGED <<bookVars, overrun, crashes, tradeVars>>
        PROVE  QuietStep
    <2>1. UNCHANGED batchVars
      BY <1>5 DEF EndpointReads, ReadForDispatch, ReadForReroute, ReadForReceive,
                  ReadForResolution, ReadForApproval, ReadForDispute, ReadForCash, ReadForLot
    <2>2. ASSUME NEW call, NEW k, NEW id, NEW c, NEW w, NEW seen, k \notin Decisive,
                 Begin(s, call, Step(k, id, c, w, seen))
          PROVE  QuietStep
      BY <1>3, <1>5, <2>1, <2>2 DEF QuietStep, Step
    <2>3. ASSUME NEW b \in Batches, NEW c \in Centers,
                 ReadForDispatch(s, b, c) \/ ReadForReroute(s, b, c)
          PROVE  QuietStep
      BY <2>2, <2>3 DEF ReadForDispatch, ReadForReroute, Decisive
    <2>4. ASSUME NEW b \in Batches, NEW w, NEW waste,
                 ReadForReceive(s, b, w, waste) \/ ReadForResolution(s, b, w)
          PROVE  QuietStep
      BY <2>2, <2>4 DEF ReadForReceive, ReadForResolution, Decisive
    <2>5. ASSUME NEW b \in Batches, ReadForApproval(s, b) \/ ReadForDispute(s, b) \/ ReadForCash(s, b)
          PROVE  QuietStep
      BY <2>2, <2>5 DEF ReadForApproval, ReadForDispute, ReadForCash, Decisive
    <2>6. ASSUME NEW c \in Centers, NEW bs \in SUBSET Batches, ReadForLot(s, c, bs)
          PROVE  QuietStep
      BY <2>2, <2>6 DEF ReadForLot, Decisive
    <2> QED BY <1>5, <2>3, <2>4, <2>5, <2>6 DEF EndpointReads
  <1>6. ASSUME NEW s \in Sessions, EndpointWrites(s), UNCHANGED <<bookVars, overrun, crashes, tradeVars>>
        PROVE  QuietStep \/ DecisiveStep(s)
    <2>1. \/ WriteReceive(s) \/ AddJob(s) \/ WriteApproval(s)
          \/ Finish(s) /\ UNCHANGED <<job, approved, booked>>
      BY <1>6 DEF EndpointWrites, WriteDispatch, WriteReroute, WriteDispute, WriteResolution,
                  WriteCash, WriteLot
    <2> QED BY <1>2, <1>6, <2>1 DEF QuietStep, DecisiveStep
  <1>7. ASSUME Endpoint, UNCHANGED tradeVars
        PROVE  QuietStep \/ \E s \in Sessions : DecisiveStep(s)
    <2>1. PICK s \in Sessions : EndpointReads(s) \/ EndpointWrites(s)
      BY <1>7 DEF Endpoint, EndpointReads, EndpointWrites
    <2>2. UNCHANGED <<bookVars, overrun, crashes>>
      BY <1>7 DEF Endpoint
    <2> QED BY <1>5, <1>6, <1>7, <2>1, <2>2
  <1>8. ASSUME TradesNext
        PROVE  \/ QuietStep \/ \E s \in Sessions : DecisiveStep(s)
               \/ \E o \in Orders, c \in Centers : RequestOrder(o, c)
    <2>1. ASSUME NEW s \in Sessions, NEW c \in Centers, NEW w \in Weights,
                 ReadForDirect(s, c, w) \/ \E l \in Lots \cup {None} : ReadForSale(s, c, w, l)
          PROVE  QuietStep
      BY <1>3, <2>1 DEF ReadForDirect, ReadForSale, Step, Decisive, QuietStep
    <2>2. ASSUME NEW s \in Sessions, NEW o \in Orders, NEW w \in Weights,
                 ReadForAccept(s, o, w) \/ ReadForDelivery(s, o)
          PROVE  QuietStep
      BY <1>3, <2>2 DEF ReadForAccept, ReadForDelivery, Step, Decisive, QuietStep
    <2>3. ASSUME NEW s \in Sessions, NEW o \in Orders, ReadForDelivery(s, o)
          PROVE  QuietStep
      BY <1>3, <2>3 DEF ReadForDelivery, Step, Decisive, QuietStep
    <2> QED BY <1>8, <2>1, <2>2, <2>3 DEF TradesNext, DecisiveStep
  <1>9. CASE UNCHANGED vars
    BY <1>9 DEF vars, QuietStep
  <1> QED
    BY <1>4, <1>7, <1>8, <1>9 DEF Next, BatchesNext

LEMMA QuietKeepsInv ==
    ASSUME CentersInv, QuietStep, Typed'
    PROVE  CentersInv'
  <1> USE DEF CentersInv, QuietStep, Decisive
  <1>1. StockIsKardex'
    BY DEF StockIsKardex
  <1>2. \A s \in Sessions : \A k \in Decisive : At(s, k)' => session'[s] = session[s] /\ At(s, k)
    BY DEF At
  <1>3. WeightsOK'
    BY <1>2 DEF WeightsOK, WeightOK, ToleratedOrApproved
  <1>4. BookingsOK'
    BY DEF BookingsOK
  <1>5. LocksOK' /\ UnguardedOK'
    BY <1>2 DEF LocksOK, Covered, KeepsMass, UnguardedOK, Unguarded, RowHolds, SumsHold,
                Misread, MassBalance, Enough
  <1>6. CertificatesOK'
    <2> SUFFICES ASSUME NEW o \in Orders
                 PROVE  /\ IsFiniteSet(Certifying(o)')
                        /\ certified[o] + Cardinality(Certifying(o)')
                              + (IF order[o].status = "ACCEPTED" THEN 1 ELSE 0) <= dispatched[o]
      BY DEF CertificatesOK
    <2>1. Certifying(o)' \subseteq Certifying(o)
      BY <1>2 DEF Certifying
    <2>2. IsFiniteSet(Certifying(o)) /\ Cardinality(Certifying(o)) \in Nat
      BY FS_CardinalityType DEF CertificatesOK
    <2>3. IsFiniteSet(Certifying(o)') /\ Cardinality(Certifying(o)') <= Cardinality(Certifying(o))
          /\ Cardinality(Certifying(o)') \in Nat
      BY <2>1, <2>2, FS_Subset, FS_CardinalityType
    <2> QED BY <2>2, <2>3 DEF CertificatesOK, Typed, TypeOK
  <1> QED
    BY <1>1, <1>3, <1>4, <1>5, <1>6

\* The steps of acceptTransfer before its writes.
LEMMA AcceptSteps ==
    ASSUME Typed, NEW s \in Sessions, AcceptLock(s) \/ AcceptRead(s) \/ AcceptSums(s)
    PROVE  /\ \A t \in Sessions : t # s => session'[t] = session[t]
           /\ session'[s].kind \in {"idle", "acceptCommit", "acceptRead", "acceptSums", "acceptUnlocked"}
           /\ session'[s].kind = "acceptCommit" => AcceptLock(s) /\ GoOn(s, "acceptCommit")
           /\ session'[s].kind = "acceptSums" => AcceptRead(s)
           /\ session'[s].kind = "acceptUnlocked" => AcceptSums(s)
           /\ session'[s].kind # "idle" =>
                 session'[s].center = session[s].center /\ session'[s].kg = session[s].kg
           /\ session'[s].kind = "acceptUnlocked" => session'[s].seen = session[s].seen
  <1>1. session \in [Sessions -> SessionRow] /\ session[s] \in SessionRow
    BY DEF Typed, SessionsOK
  <1>2. CASE AcceptLock(s)
    <2>1. Finish(s) \/ GoOn(s, "acceptCommit") \/ GoOn(s, "acceptRead")
      BY <1>2 DEF AcceptLock
    <2> QED BY <1>1, <1>2, <2>1 DEF Finish, Idle, GoOn, SessionRow
  <1>3. CASE AcceptRead(s)
    BY <1>1, <1>3 DEF AcceptRead, Finish, Idle, SessionRow
  <1>4. CASE AcceptSums(s)
    <2>1. Finish(s) \/ GoOn(s, "acceptUnlocked")
      BY <1>4 DEF AcceptSums
    <2> QED BY <1>1, <1>4, <2>1 DEF Finish, Idle, GoOn, SessionRow
  <1> QED
    BY <1>2, <1>3, <1>4

-----------------------------------------------------------------------------
(* The stock is what the Kardex says.                                       *)

LEMMA BookKeepsKardex ==
    ASSUME InventoryTyped, StockIsKardex, NEW c \in Centers, NEW in \in Nat, NEW out \in Nat,
           Book(c, in, out), overrun' = overrun
    PROVE  StockIsKardex'
  <1> SUFFICES ASSUME NEW d \in Centers, d \notin overrun
               PROVE  Kg(stock'[d]) = ins'[d] - outs'[d]
    BY DEF StockIsKardex
  <1>1. /\ stock[d] \in Int \cup {None} /\ ins[d] \in Nat /\ outs[d] \in Nat
        /\ Kg(stock[d]) = ins[d] - outs[d]
    BY DEF InventoryTyped, StockIsKardex
  <1>2. CASE d = c
    <2>1. stock'[d] = Kg(stock[d]) + in - out /\ ins'[d] = ins[d] + in /\ outs'[d] = outs[d] + out
      BY <1>2 DEF Book, InventoryTyped
    <2>2. stock'[d] \in Int
      BY <1>1, <2>1
    <2> QED BY <1>1, <2>1, <2>2, InventoryOK DEF Kg, InventoryOK
  <1>3. CASE d # c
    BY <1>1, <1>3 DEF Book, InventoryTyped
  <1> QED
    BY <1>2, <1>3

LEMMA MovementKeepsKardex ==
    ASSUME Typed, StockIsKardex, NEW s \in Sessions, WriteMovement(s)
    PROVE  StockIsKardex'
  <1> DEFINE c == session[s].center
             w == session[s].kg
             in == IF At(s, "IN") THEN w ELSE 0
             out == IF At(s, "OUT") THEN w ELSE 0
  <1>1. c \in Centers /\ w \in Nat /\ session[s].seen \in Int \cup {None}
    BY DEF WriteMovement, Typed, SessionsOK, RequestOK, SessionRow
  <1>2. in \in Nat /\ out \in Nat
    BY <1>1
  <1>3. CASE UNCHANGED <<bookVars, overrun>>
    BY <1>3 DEF bookVars, StockIsKardex
  <1>4. CASE ~ UNCHANGED <<bookVars, overrun>>
    <2>1. /\ stock' = [stock EXCEPT ![c] = Kg(session[s].seen) + in - out]
          /\ ins' = [ins EXCEPT ![c] = @ + in]
          /\ outs' = [outs EXCEPT ![c] = @ + out]
          /\ overrun' = IF stock[c] = session[s].seen THEN overrun ELSE overrun \cup {c}
      BY <1>4 DEF WriteMovement
    <2> HIDE DEF c, in, out
    <2>2. CASE stock[c] = session[s].seen
      BY <1>1, <1>2, <2>1, <2>2, BookKeepsKardex, TypedByTable DEF Book
    <2>3. CASE stock[c] # session[s].seen
      BY <1>1, <2>1, <2>3, TypedByTable DEF StockIsKardex, InventoryTyped
    <2> QED BY <2>2, <2>3
  <1> QED
    BY <1>3, <1>4

LEMMA StepKeepsKardex ==
    ASSUME CentersInv, NEW s \in Sessions, DecisiveStep(s)
    PROVE  StockIsKardex'
  <1> USE DEF CentersInv, bookVars
  <1>1. UNCHANGED <<stock, ins, outs, overrun>> => StockIsKardex'
    BY DEF StockIsKardex
  <1>2. CASE WriteMovement(s)
    BY <1>2, MovementKeepsKardex
  <1>3. ASSUME \/ AcceptCommit(s) \/ AcceptUnlocked(s) \/ WriteSale(s)
               \/ \E o \in Orders : WriteDirect(s, o)
        PROVE  StockIsKardex'
    <2>1. session[s].center \in Centers /\ session[s].kg \in Nat
      BY <1>3, WeightsPositive
         DEF AcceptCommit, AcceptUnlocked, WriteSale, WriteDirect, At, Typed, SessionsOK, RequestOK
    <2>2. \/ UNCHANGED <<stock, ins, outs, overrun>>
          \/ Book(session[s].center, 0, session[s].kg) /\ UNCHANGED overrun
      BY <1>3 DEF AcceptCommit, AcceptUnlocked, WriteSale, WriteDirect, Leaves
    <2> QED BY <1>1, <2>1, <2>2, BookKeepsKardex, TypedByTable
  <1> QED
    BY <1>1, <1>2, <1>3
       DEF DecisiveStep, AcceptLock, AcceptRead, AcceptSums, ClaimDelivery, Certify

-----------------------------------------------------------------------------
(* What is booked in was within the tolerance, or approved.                 *)

LEMMA StepKeepsWeights ==
    ASSUME CentersInv, NEW s \in Sessions, DecisiveStep(s)
    PROVE  WeightsOK'
  <1> USE DEF CentersInv, batchVars
  <1>1. approved \subseteq approved'
    BY DEF DecisiveStep, WriteMovement, WriteReceive, AddJob, WriteApproval, AcceptLock,
           AcceptRead, AcceptSums, AcceptUnlocked, AcceptCommit, ClaimDelivery, Certify, WriteSale,
           WriteDirect
  <1>2. \A b, w : WeightOK(b, w) => WeightOK(b, w)'
    BY <1>1 DEF WeightOK, Tolerated
  <1>3. ToleratedOrApproved /\ booked' = booked => ToleratedOrApproved'
    BY <1>2 DEF ToleratedOrApproved, WeightOK
  <1>4. booked' = booked
    BY DEF DecisiveStep, WriteMovement, WriteReceive, AddJob, WriteApproval, AcceptLock,
           AcceptRead, AcceptSums, AcceptUnlocked, AcceptCommit, ClaimDelivery, Certify, WriteSale,
           WriteDirect
  <1>5. session \in [Sessions -> SessionRow] /\ session[s] \in SessionRow
    BY DEF Typed, SessionsOK
  <1>6. CASE AddJob(s)
    <2>1. WeightOK(session[s].id, session[s].kg)
      BY <1>6 DEF AddJob, WeightsOK
    <2>2. \A b \in Batches : \/ job'[b] = job[b]
                             \/ b = session[s].id /\ job'[b].kg = session[s].kg
      <3>1. DOMAIN NoJob = {"state", "center", "kg", "attempts", "stalls"}
        BY DEF NoJob
      <3>2. [NoJob EXCEPT !.state = "waiting", !.center = session[s].center,
                          !.kg = session[s].kg].kg = session[s].kg
        BY <3>1
      <3> QED BY <1>6, <3>2 DEF AddJob, Enqueue, Typed, TypeOK
    <2>3. \A t \in Sessions : At(t, "addJob")' => session'[t] = session[t] /\ At(t, "addJob")
      BY <1>5, <1>6 DEF AddJob, Finish, Idle, At
    <2> QED BY <1>2, <1>3, <1>4, <2>1, <2>2, <2>3 DEF WeightsOK
  <1>7. CASE WriteReceive(s) \/ WriteApproval(s)
    <2>1. \A t \in Sessions :
             At(t, "addJob")' => \/ session'[t] = session[t] /\ At(t, "addJob")
                                 \/ t = s /\ WeightOK(session[s].id, session[s].kg)'
      <3>1. CASE WriteApproval(s)
        <4>1. session'[s].id \in approved'
          BY <1>5, <3>1 DEF WriteApproval, Step
        <4> QED BY <1>5, <3>1, <4>1 DEF WriteApproval, WeightOK, At
      <3>2. CASE WriteReceive(s) /\ Tolerated(session[s].id, session[s].kg)
        <4>1. session'[s].id = session[s].id /\ session'[s].kg = session[s].kg
          BY <1>5, <3>2 DEF WriteReceive, GoOn, SessionRow
        <4>2. \A t \in Sessions : t # s => session'[t] = session[t]
          BY <1>5, <3>2 DEF WriteReceive, GoOn
        <4> QED BY <1>2, <3>2, <4>1, <4>2 DEF WeightOK, At
      <3>3. CASE WriteReceive(s) /\ ~Tolerated(session[s].id, session[s].kg)
        BY <1>5, <3>3 DEF WriteReceive, Finish, Idle, At
      <3> QED BY <1>7, <3>1, <3>2, <3>3
    <2>2. job' = job
      BY <1>7 DEF WriteReceive, WriteApproval
    <2> QED BY <1>2, <1>3, <1>4, <2>1, <2>2 DEF WeightsOK
  <1>8. CASE ~AddJob(s) /\ ~WriteReceive(s) /\ ~WriteApproval(s)
    <2>1. job' = job
      BY <1>8 DEF DecisiveStep, WriteMovement, AcceptLock, AcceptRead, AcceptSums, AcceptUnlocked,
                  AcceptCommit, ClaimDelivery, Certify, WriteSale, WriteDirect
    <2>2. \/ Finish(s) \/ GoOn(s, "certify")
          \/ AcceptLock(s) \/ AcceptRead(s) \/ AcceptSums(s)
      BY <1>8 DEF DecisiveStep, WriteMovement, AcceptUnlocked, AcceptCommit, ClaimDelivery, Certify,
                  WriteSale, WriteDirect
    <2>3. \A t \in Sessions : At(t, "addJob")' => session'[t] = session[t] /\ At(t, "addJob")
      BY <1>5, <2>2, AcceptSteps DEF Finish, GoOn, Idle, At, SessionRow
    <2> QED BY <1>2, <1>3, <1>4, <2>1, <2>3 DEF WeightsOK
  <1> QED
    BY <1>6, <1>7, <1>8

LEMMA JobKeepsWeights ==
    ASSUME CentersInv, NEW b \in Batches, Worker(b) \/ WorkerDies(b)
    PROVE  WeightsOK'
  <1> USE DEF CentersInv, inventoryVars
  <1>1. session' = session /\ approved' = approved
    BY DEF Worker, TakeJob, StoreBatch, AttemptFails, AckJob, WorkerDies
  <1>2. \A d, w : WeightOK(d, w)' <=> WeightOK(d, w)
    BY <1>1 DEF WeightOK, Tolerated
  <1>3. /\ job \in [Batches -> JobRow] /\ job[b] \in JobRow /\ job[b].state # "none"
        /\ booked \in [Batches -> Seq(Nat)]
    BY TypedByTable DEF JobsTyped, Worker, TakeJob, StoreBatch, AttemptFails, AckJob, WorkerDies
  <1>4. \A d \in Batches : job'[d] = job[d] \/ (d = b /\ job'[d].kg = job[d].kg)
    <2>1. CASE TakeJob(b)
      BY <1>3, <2>1 DEF TakeJob, JobRow
    <2>2. CASE StoreBatch(b) \/ AckJob(b)
      BY <1>3, <2>2 DEF StoreBatch, AckJob, Move, JobRow
    <2>3. CASE AttemptFails(b)
      BY <1>3, <2>3 DEF AttemptFails, JobRow
    <2>4. CASE WorkerDies(b)
      BY <1>3, <2>4 DEF WorkerDies, AfterStall, JobRow
    <2> QED BY <2>1, <2>2, <2>3, <2>4 DEF Worker
  <1>5. ToleratedOrApproved'
    <2> SUFFICES ASSUME NEW d \in Batches, NEW i \in DOMAIN booked'[d]
                 PROVE  WeightOK(d, booked'[d][i])
      BY <1>1 DEF ToleratedOrApproved, WeightOK
    <2>1. CASE booked'[d] = booked[d]
      BY <2>1 DEF WeightsOK, ToleratedOrApproved, WeightOK
    <2>2. CASE booked'[d] # booked[d]
      <3>1. d = b /\ booked'[d] = Append(booked[d], job[d].kg)
        BY <1>3, <2>2
           DEF Worker, TakeJob, StoreBatch, AttemptFails, AckJob, WorkerDies, JobWeight
      <3>2. booked[d] \in Seq(Nat) /\ job[d].kg \in Nat
        BY <1>3, <3>1 DEF JobRow
      <3>3. CASE i \in DOMAIN booked[d]
        BY <3>1, <3>2, <3>3 DEF WeightsOK, ToleratedOrApproved, WeightOK
      <3>4. CASE i \notin DOMAIN booked[d]
        <4>1. booked'[d][i] = job[d].kg
          BY <3>1, <3>2, <3>4
        <4> QED BY <1>3, <3>1, <4>1 DEF WeightsOK
      <3> QED BY <3>3, <3>4
    <2> QED BY <2>1, <2>2
  <1>6. \A d \in Batches : job'[d].state # "none" => job[d].state # "none"
    BY <1>3, <1>4
  <1> QED
    BY <1>1, <1>2, <1>4, <1>5, <1>6 DEF WeightsOK, At

-----------------------------------------------------------------------------
(* A batch is booked in once per worker.                                    *)

LEMMA StepKeepsBookings ==
    ASSUME CentersInv, NEW s \in Sessions, DecisiveStep(s)
    PROVE  BookingsOK'
  <1> USE DEF CentersInv, batchVars
  <1>1. booked' = booked
    BY DEF DecisiveStep, WriteMovement, WriteReceive, AddJob, WriteApproval, AcceptLock,
           AcceptRead, AcceptSums, AcceptUnlocked, AcceptCommit, ClaimDelivery, Certify, WriteSale,
           WriteDirect
  <1>2. CASE AddJob(s)
    <2> DEFINE row == [NoJob EXCEPT !.state = "waiting", !.center = session[s].center,
                                    !.kg = session[s].kg]
    <2>1. job' = IF job[session[s].id].state = "none" THEN [job EXCEPT ![session[s].id] = row]
                 ELSE job
      BY <1>2 DEF AddJob, Enqueue
    <2>2. row.state = "waiting" /\ row.stalls = 0
      BY DEF NoJob
    <2> HIDE DEF row
    <2>3. \A b \in Batches : job[b] \in JobRow
      BY TypedByTable DEF JobsTyped
    <2>4. \A b \in Batches : \/ job'[b] = job[b]
                             \/ job'[b] = row /\ booked[b] = <<>>
      BY <2>1, TypedByTable DEF JobsTyped, BookingsOK
    <2> QED BY <1>1, <2>2, <2>3, <2>4 DEF BookingsOK, JobRow
  <1>3. CASE ~AddJob(s)
    <2>1. job' = job
      BY <1>3 DEF DecisiveStep, WriteMovement, WriteReceive, WriteApproval, AcceptLock, AcceptRead,
                  AcceptSums, AcceptUnlocked, AcceptCommit, ClaimDelivery, Certify, WriteSale,
                  WriteDirect
    <2> QED BY <1>1, <2>1 DEF BookingsOK
  <1> QED
    BY <1>2, <1>3

LEMMA JobKeepsBookings ==
    ASSUME CentersInv, NEW b \in Batches, Worker(b) \/ WorkerDies(b)
    PROVE  BookingsOK'
  <1> USE DEF CentersInv
  <1>1. /\ job \in [Batches -> JobRow] /\ job[b] \in JobRow
        /\ booked \in [Batches -> Seq(Nat)] /\ booked[b] \in Seq(Nat)
        /\ Len(booked[b]) \in Nat /\ job[b].stalls \in Nat
    BY TypedByTable DEF JobsTyped, JobRow
  <1>2. ASSUME NEW state, NEW stalls \in Nat, job'[b].state = state, job'[b].stalls = stalls,
               \A d \in Batches : d # b => job'[d] = job[d] /\ booked'[d] = booked[d],
               state # "none", Len(booked'[b]) <= 1 + stalls,
               state \in {"waiting", "active"} => Len(booked'[b]) <= stalls
        PROVE  BookingsOK'
    BY <1>2 DEF BookingsOK
  <1>3. CASE TakeJob(b)
    <2>1. job'[b].state = "active" /\ job'[b].stalls = job[b].stalls /\ booked' = booked
          /\ \A d \in Batches : d # b => job'[d] = job[d]
      BY <1>1, <1>3 DEF TakeJob, JobRow
    <2> QED BY <1>1, <1>2, <1>3, <2>1 DEF TakeJob, BookingsOK
  <1>4. CASE StoreBatch(b)
    <2>1. job'[b].state = "stored" /\ job'[b].stalls = job[b].stalls
          /\ \A d \in Batches : d # b => job'[d] = job[d] /\ booked'[d] = booked[d]
      BY <1>1, <1>4 DEF StoreBatch, Move, JobRow
    <2>2. booked'[b] = Append(booked[b], job[b].kg) /\ job[b].kg \in Nat
      BY <1>1, <1>4 DEF StoreBatch, JobWeight, JobRow
    <2>3. Len(booked'[b]) = Len(booked[b]) + 1
      BY <1>1, <2>2
    <2> QED BY <1>1, <1>2, <1>4, <2>1, <2>3 DEF StoreBatch, BookingsOK
  <1>5. CASE AttemptFails(b)
    <2>1. job'[b].state \in {"waiting", "failed"} /\ job'[b].stalls = job[b].stalls
          /\ booked' = booked /\ \A d \in Batches : d # b => job'[d] = job[d]
      BY <1>1, <1>5 DEF AttemptFails, JobRow
    <2> QED BY <1>1, <1>2, <1>5, <2>1 DEF AttemptFails, BookingsOK
  <1>6. CASE AckJob(b)
    <2>1. job'[b].state = "done" /\ job'[b].stalls = job[b].stalls /\ booked' = booked
          /\ \A d \in Batches : d # b => job'[d] = job[d]
      BY <1>1, <1>6 DEF AckJob, Move, JobRow
    <2> QED BY <1>1, <1>2, <1>6, <2>1 DEF AckJob, BookingsOK
  <1>7. CASE WorkerDies(b)
    <2>1. /\ booked' = booked /\ \A d \in Batches : d # b => job'[d] = job[d]
          /\ \/ job'[b].state = "waiting" /\ job'[b].stalls = job[b].stalls + 1
             \/ job'[b].state = "failed" /\ job'[b].stalls = job[b].stalls
      BY <1>1, <1>7 DEF WorkerDies, AfterStall, JobRow
    <2>2. Len(booked[b]) <= 1 + job[b].stalls
      BY DEF BookingsOK
    <2>3. CASE job'[b].state = "waiting" /\ job'[b].stalls = job[b].stalls + 1
      <3>1. job[b].stalls + 1 \in Nat /\ Len(booked'[b]) <= job[b].stalls + 1
            /\ Len(booked'[b]) <= 1 + (job[b].stalls + 1)
        BY <1>1, <2>1, <2>2
      <3> QED BY <1>2, <2>1, <2>3, <3>1
    <2>4. CASE job'[b].state = "failed" /\ job'[b].stalls = job[b].stalls
      BY <1>1, <1>2, <2>1, <2>2, <2>4
    <2> QED BY <2>1, <2>3, <2>4
  <1> QED
    BY <1>3, <1>4, <1>5, <1>6, <1>7 DEF Worker

-----------------------------------------------------------------------------
(* What acceptTransfer checked stays true under its lock.                   *)

\* Handlers keep the locks they have, and the rows behind them are left alone.
LEMMA LocksKept ==
    ASSUME LocksOK,
           \A t \in Sessions :
               At(t, "acceptCommit")' =>
                   /\ At(t, "acceptCommit") /\ session'[t] = session[t]
                   /\ LET c == session[t].center
                      IN  stock'[c] = stock[c] /\ ins'[c] = ins[c] /\ outs'[c] = outs[c]
    PROVE  LocksOK'
  <1>1. ASSUME NEW s \in Sessions, NEW t \in Sessions, At(s, "acceptCommit")',
               At(t, "acceptCommit")', session'[s].center = session'[t].center
        PROVE  s = t
    BY <1>1 DEF LocksOK
  <1>2. ASSUME NEW s \in Sessions, At(s, "acceptCommit")'
        PROVE  Covered(session[s].center, session[s].kg)'
    <2>1. Covered(session[s].center, session[s].kg)
      BY <1>2 DEF LocksOK
    <2>2. /\ session'[s] = session[s]
          /\ stock'[session[s].center] = stock[session[s].center]
          /\ ins'[session[s].center] = ins[session[s].center]
          /\ outs'[session[s].center] = outs[session[s].center]
      BY <1>2
    <2> QED BY <2>1, <2>2 DEF Covered, KeepsMass, MassBalance, Enough
  <1> QED
    BY <1>1, <1>2 DEF LocksOK

\* A center that is not locked can be booked, while no handler takes a lock.
LEMMA UnlockedIsFree ==
    ASSUME Typed, LocksOK, NEW c \in Centers, Unlocked(c),
           \A d \in Centers : d # c => stock'[d] = stock[d] /\ ins'[d] = ins[d] /\ outs'[d] = outs[d],
           \A t \in Sessions : At(t, "acceptCommit")' =>
               At(t, "acceptCommit") /\ session'[t] = session[t]
    PROVE  LocksOK'
  <1>1. \A t \in Sessions : At(t, "acceptCommit") => session[t].center \in Centers
    BY DEF Typed, SessionsOK, RequestOK, At
  <1>2. \A t \in Sessions : At(t, "acceptCommit") => session[t].center # c
    BY DEF Unlocked, Holders
  <1> QED
    BY <1>1, <1>2, LocksKept

LEMMA StepKeepsLocks ==
    ASSUME CentersInv, NEW s \in Sessions, DecisiveStep(s)
    PROVE  LocksOK'
  <1> USE DEF CentersInv, bookVars
  <1>1. session \in [Sessions -> SessionRow] /\ session[s] \in SessionRow /\ RequestOK(session[s])
    BY DEF Typed, SessionsOK
  <1>2. ASSUME Finish(s)
        PROVE  \A t \in Sessions : At(t, "acceptCommit")' =>
                   At(t, "acceptCommit") /\ session'[t] = session[t] /\ t # s
    BY <1>1, <1>2 DEF Finish, Idle, At
  <1>3. InventoryTyped
    BY TypedByTable
  <1>4. CASE WriteMovement(s)
    <2>1. session[s].center \in Centers /\ Unlocked(session[s].center) /\ Finish(s)
      BY <1>1, <1>4 DEF WriteMovement, RequestOK
    <2>2. \A d \in Centers : d # session[s].center =>
             stock'[d] = stock[d] /\ ins'[d] = ins[d] /\ outs'[d] = outs[d]
      BY <1>3, <1>4, <2>1 DEF WriteMovement, InventoryTyped
    <2> QED BY <1>2, <2>1, <2>2, UnlockedIsFree
  <1>5. ASSUME WriteSale(s) \/ AcceptUnlocked(s) \/ \E o \in Orders : WriteDirect(s, o)
        PROVE  LocksOK'
    <2>1. session[s].center \in Centers /\ Unlocked(session[s].center) /\ Finish(s)
      BY <1>1, <1>5 DEF WriteSale, AcceptUnlocked, WriteDirect, RequestOK, At
    <2>2. \A d \in Centers : d # session[s].center =>
             stock'[d] = stock[d] /\ ins'[d] = ins[d] /\ outs'[d] = outs[d]
      BY <1>3, <1>5, <2>1
         DEF WriteSale, AcceptUnlocked, WriteDirect, Leaves, Book, InventoryTyped
    <2> QED BY <1>2, <2>1, <2>2, UnlockedIsFree
  <1>6. CASE AcceptCommit(s)
    <2>1. At(s, "acceptCommit") /\ session[s].center \in Centers /\ Finish(s)
      BY <1>1, <1>6 DEF AcceptCommit, RequestOK, At
    <2>2. \A d \in Centers : d # session[s].center =>
             stock'[d] = stock[d] /\ ins'[d] = ins[d] /\ outs'[d] = outs[d]
      BY <1>3, <1>6, <2>1 DEF AcceptCommit, Leaves, Book, InventoryTyped
    <2>3. \A t \in Sessions : At(t, "acceptCommit") =>
             session[t].center \in Centers /\ (t # s => session[t].center # session[s].center)
      BY <2>1 DEF LocksOK, Typed, SessionsOK, RequestOK, At
    <2> QED BY <1>2, <2>1, <2>2, <2>3, LocksKept
  <1>7. CASE AcceptLock(s)
    <2> DEFINE c == session[s].center
               w == session[s].kg
    <2>1. UNCHANGED <<stock, ins, outs>> /\ c \in Centers
      BY <1>1, <1>7 DEF AcceptLock, RequestOK, At
    <2>2. CASE At(s, "acceptCommit")'
      <3>1. GoOn(s, "acceptCommit") /\ Unlocked(c)
        BY <1>7, <2>2, AcceptSteps DEF AcceptLock, CanLock, At
      <3>2. \A t \in Sessions : t # s => session'[t] = session[t]
        BY <1>1, <3>1 DEF GoOn
      <3>3. session'[s].center = c /\ session'[s].kg = w
        BY <1>1, <3>1 DEF GoOn, SessionRow
      <3>4. \A t \in Sessions : At(t, "acceptCommit")' /\ t # s =>
               At(t, "acceptCommit") /\ session[t].center # c
        BY <3>1, <3>2 DEF Unlocked, Holders, At
      <3>5. Covered(session[s].center, session[s].kg)'
        <4>1. Covered(c, w)
          BY <1>1, <1>7, <3>1 DEF AcceptLock, Covered, GoOn, Finish, Idle, SessionRow
        <4> QED BY <2>1, <3>3, <4>1 DEF Covered, KeepsMass, MassBalance, Enough
      <3>6. ASSUME NEW t \in Sessions, t # s, At(t, "acceptCommit")'
            PROVE  Covered(session[t].center, session[t].kg)'
        BY <2>1, <3>2, <3>4, <3>6 DEF LocksOK, Covered, KeepsMass, MassBalance, Enough
      <3>7. ASSUME NEW t \in Sessions, NEW u \in Sessions, At(t, "acceptCommit")',
                   At(u, "acceptCommit")', session'[t].center = session'[u].center
            PROVE  t = u
        BY <3>2, <3>3, <3>4, <3>7 DEF LocksOK
      <3> QED BY <3>5, <3>6, <3>7 DEF LocksOK
    <2>3. CASE ~At(s, "acceptCommit")'
      <3>1. \A t \in Sessions : At(t, "acceptCommit")' =>
               At(t, "acceptCommit") /\ session'[t] = session[t]
        BY <1>7, <2>3, AcceptSteps DEF At
      <3> QED BY <2>1, <3>1, LocksKept
    <2> QED BY <2>2, <2>3
  <1>8. ASSUME UNCHANGED <<stock, ins, outs>>, Finish(s) \/ GoOn(s, "certify") \/ GoOn(s, "addJob")
                  \/ WriteApproval(s)
        PROVE  LocksOK'
    <2>1. \A t \in Sessions : At(t, "acceptCommit")' =>
             At(t, "acceptCommit") /\ session'[t] = session[t]
      BY <1>1, <1>8 DEF Finish, Idle, GoOn, At, SessionRow, WriteApproval, Step
    <2> QED BY <1>8, <2>1, LocksKept
  <1>9. CASE \/ (WriteReceive(s) \/ AddJob(s) \/ WriteApproval(s)) /\ UNCHANGED bookVars
             \/ ClaimDelivery(s) \/ Certify(s)
    BY <1>8, <1>9 DEF WriteReceive, AddJob, ClaimDelivery, Certify
  <1>10. CASE AcceptRead(s) \/ AcceptSums(s)
    <2>1. \A t \in Sessions : At(t, "acceptCommit")' =>
             At(t, "acceptCommit") /\ session'[t] = session[t]
      <3>1. session'[s].kind # "acceptCommit"
        BY <1>10, AcceptSteps DEF AcceptLock, AcceptRead, AcceptSums, At
      <3> QED BY <1>10, <3>1, AcceptSteps DEF At
    <2>2. UNCHANGED <<stock, ins, outs>>
      BY <1>10 DEF AcceptRead, AcceptSums
    <2> QED BY <2>1, <2>2, LocksKept
  <1> QED
    BY <1>4, <1>5, <1>6, <1>7, <1>9, <1>10 DEF DecisiveStep

LEMMA JobKeepsLocks ==
    ASSUME CentersInv, NEW b \in Batches, Worker(b) \/ WorkerDies(b)
    PROVE  LocksOK'
  <1> USE DEF CentersInv
  <1>1. session' = session
    BY DEF Worker, TakeJob, StoreBatch, AttemptFails, AckJob, WorkerDies, inventoryVars
  <1>2. CASE StoreBatch(b)
    <2>1. job[b].center \in Centers /\ Unlocked(job[b].center)
      BY <1>2 DEF StoreBatch, Typed, JobsOK
    <2>2. \A d \in Centers : d # job[b].center =>
             stock'[d] = stock[d] /\ ins'[d] = ins[d] /\ outs'[d] = outs[d]
      BY <1>2, TypedByTable DEF StoreBatch, Book, InventoryTyped
    <2> QED BY <1>1, <2>1, <2>2, UnlockedIsFree DEF At
  <1>3. CASE ~StoreBatch(b)
    <2>1. UNCHANGED <<stock, ins, outs>>
      BY <1>3 DEF Worker, TakeJob, AttemptFails, AckJob, WorkerDies, inventoryVars
    <2> QED BY <1>1, <2>1, LocksKept DEF At
  <1> QED
    BY <1>2, <1>3

-----------------------------------------------------------------------------
(* What it checked without one, unless the center's material left meanwhile. *)

\* What a booking may do to a center behind the back of an unlocked acceptTransfer.
Onward(c) ==
    /\ c \in overrun => c \in overrun'
    /\ outs'[c] >= outs[c] /\ ins'[c] >= ins[c]
    /\ \/ c \in overrun' \/ outs'[c] > outs[c]
       \/ stock[c] # None => stock'[c] # None /\ stock'[c] >= stock[c]

LEMMA BookIsOnward ==
    ASSUME InventoryTyped, NEW c \in Centers, NEW in \in Nat, NEW out \in Nat,
           Book(c, in, out), overrun' = overrun, NEW d \in Centers
    PROVE  Onward(d)
  <1>1. /\ stock[d] \in Int \cup {None} /\ ins[d] \in Nat /\ outs[d] \in Nat
        /\ stock[c] \in Int \cup {None}
    BY DEF InventoryTyped
  <1>2. CASE d = c
    <2>1. stock'[d] = Kg(stock[d]) + in - out /\ ins'[d] = ins[d] + in /\ outs'[d] = outs[d] + out
      BY <1>2 DEF Book, InventoryTyped
    <2>2. Kg(stock[d]) \in Int /\ (stock[d] # None => Kg(stock[d]) = stock[d])
      BY <1>1 DEF Kg
    <2>3. stock'[d] \in Int /\ (out = 0 => stock'[d] >= Kg(stock[d])) /\ (out # 0 => outs'[d] > outs[d])
      BY <1>1, <2>1, <2>2
    <2>4. outs'[d] >= outs[d] /\ ins'[d] >= ins[d]
      BY <1>1, <2>1
    <2> QED BY <2>2, <2>3, <2>4, InventoryOK DEF Onward, InventoryOK
  <1>3. CASE d # c
    <2>1. stock'[d] = stock[d] /\ ins'[d] = ins[d] /\ outs'[d] = outs[d]
      BY <1>3 DEF Book, InventoryTyped
    <2> QED BY <1>1, <2>1 DEF Onward
  <1> QED
    BY <1>2, <1>3

LEMMA MassIsMonotone ==
    ASSUME NEW c, NEW w \in Nat, ins[c] \in Nat, ins'[c] \in Nat, outs[c] \in Nat,
           ins'[c] >= ins[c], outs'[c] = outs[c], MassBalance(c, w)
    PROVE  MassBalance(c, w)'
  <1>1. PICK k \in Nat : k = 100 - Shrink
    BY TradesOK DEF TradesOK
  <1>2. k * ins[c] <= k * ins'[c]
    BY <1>1
  <1>3. 100 * (outs[c] + w) <= k * ins[c]
    BY <1>1 DEF MassBalance
  <1>4. k * ins[c] \in Nat /\ k * ins'[c] \in Nat
    BY <1>1
  <1>5. 100 * (outs'[c] + w) <= k * ins'[c]
    BY <1>2, <1>3, <1>4
  <1> QED
    BY <1>1, <1>5 DEF MassBalance

\* What was read and summed without a lock, while the center goes on.
LEMMA OnwardKeepsReads ==
    ASSUME Typed, Typed', NEW c \in Centers, NEW w \in Nat, NEW n \in Nat, Onward(c),
           RowHolds(c, w, n)
    PROVE  RowHolds(c, w, n)' /\ (SumsHold(c, w, n) => SumsHold(c, w, n)')
  <1>1. /\ stock[c] \in Int \cup {None} /\ stock'[c] \in Int \cup {None}
        /\ ins[c] \in Nat /\ ins'[c] \in Nat /\ outs[c] \in Nat /\ outs'[c] \in Nat
    BY TypedByTable, TypedAfter DEF InventoryTyped
  <1>2. CASE Misread(c, n)'
    BY <1>2 DEF RowHolds, SumsHold
  <1>3. CASE ~Misread(c, n)'
    <2>1. c \notin overrun' /\ ~(outs'[c] > n)
      BY <1>3 DEF Misread
    <2>2. c \notin overrun /\ outs'[c] >= outs[c] /\ ins'[c] >= ins[c]
      BY <2>1 DEF Onward
    <2>3. ~Misread(c, n) /\ outs[c] = n /\ outs'[c] = n /\ Enough(c, w)
      BY <1>1, <2>1, <2>2 DEF Misread, RowHolds
    <2>4. stock'[c] # None /\ stock'[c] >= stock[c] /\ stock[c] \in Int /\ stock'[c] \in Int
      BY <1>1, <2>1, <2>3 DEF Onward, Enough
    <2>5. Enough(c, w)'
      BY <2>3, <2>4 DEF Enough
    <2>6. SumsHold(c, w, n) => MassBalance(c, w)'
      BY <1>1, <2>2, <2>3, MassIsMonotone DEF SumsHold
    <2> QED BY <2>3, <2>5, <2>6 DEF RowHolds, SumsHold
  <1> QED
    BY <1>2, <1>3

LEMMA SeenTyped ==
    ASSUME Typed, NEW s \in Sessions, At(s, "acceptSums") \/ At(s, "acceptUnlocked")
    PROVE  /\ session[s].center \in Centers /\ session[s].kg \in Weights
           /\ session[s].kg \in Nat /\ session[s].seen.outs \in Nat
  <1>1. RequestOK(session[s])
    BY DEF Typed, SessionsOK
  <1>2. session[s].seen \in RowSeen /\ session[s].kg \in Weights
    BY <1>1 DEF RequestOK, At
  <1> QED
    BY <1>1, <1>2, WeightsPositive DEF RequestOK, At, RowSeen

\* The centers go on while no handler checks.
LEMMA OnwardKeepsUnguarded ==
    ASSUME CentersInv, Typed', \A d \in Centers : Onward(d),
           \A t \in Sessions : \A k \in {"acceptSums", "acceptUnlocked"} :
               At(t, k)' => At(t, k) /\ session'[t] = session[t]
    PROVE  UnguardedOK'
  <1> SUFFICES ASSUME NEW s \in Sessions, At(s, "acceptSums")' \/ At(s, "acceptUnlocked")'
               PROVE  Unguarded(s)'
    BY DEF UnguardedOK, Unguarded
  <1>1. /\ session'[s] = session[s] /\ (At(s, "acceptSums") \/ At(s, "acceptUnlocked"))
        /\ At(s, "acceptUnlocked")' => At(s, "acceptUnlocked")
    OBVIOUS
  <1>2. session[s].center \in Centers /\ session[s].kg \in Nat /\ session[s].seen.outs \in Nat
    BY <1>1, SeenTyped DEF CentersInv
  <1> PICK c \in Centers, w \in Nat, n \in Nat :
          c = session[s].center /\ w = session[s].kg /\ n = session[s].seen.outs
    BY <1>2
  <1>3. RowHolds(c, w, n) /\ (At(s, "acceptUnlocked") => SumsHold(c, w, n))
    BY <1>1 DEF CentersInv, UnguardedOK, Unguarded
  <1>4. RowHolds(c, w, n)' /\ (At(s, "acceptUnlocked") => SumsHold(c, w, n)')
    BY <1>3, OnwardKeepsReads DEF CentersInv
  <1>5. c = session'[s].center /\ w = session'[s].kg /\ n = session'[s].seen.outs
    BY <1>1
  <1> QED
    BY <1>1, <1>4, <1>5 DEF Unguarded, RowHolds, SumsHold, Misread, Enough, MassBalance

LEMMA StepKeepsUnguarded ==
    ASSUME CentersInv, Typed', NEW s \in Sessions, DecisiveStep(s)
    PROVE  UnguardedOK'
  <1> USE DEF bookVars
  <1>1. /\ session \in [Sessions -> SessionRow] /\ session[s] \in SessionRow
        /\ RequestOK(session[s]) /\ Typed /\ InventoryTyped /\ StockIsKardex
    BY TypedByTable DEF CentersInv, Typed, SessionsOK
  <1> DEFINE c == session[s].center
             w == session[s].kg
             Calm == \A t \in Sessions : \A k \in {"acceptSums", "acceptUnlocked"} :
                        At(t, k)' => At(t, k) /\ session'[t] = session[t]
  <1>2. Finish(s) \/ GoOn(s, "certify") \/ GoOn(s, "addJob") \/ WriteApproval(s) => Calm
    BY <1>1 DEF Finish, Idle, GoOn, At, SessionRow, WriteApproval, Step
  <1>3. UNCHANGED <<stock, ins, outs, overrun>> => \A d \in Centers : Onward(d)
    BY <1>1 DEF Onward, InventoryTyped
  <1>4. CASE WriteMovement(s)
    <2>1. c \in Centers /\ w \in Nat /\ Finish(s) /\ session[s].seen \in Int \cup {None}
      BY <1>1, <1>4 DEF WriteMovement, RequestOK, SessionRow
    <2>2. \A d \in Centers : Onward(d)
      <3>1. CASE UNCHANGED <<stock, ins, outs, overrun>>
        BY <1>3, <3>1
      <3>2. CASE ~UNCHANGED <<stock, ins, outs, overrun>>
        <4> DEFINE in == IF At(s, "IN") THEN w ELSE 0
                   out == IF At(s, "OUT") THEN w ELSE 0
        <4>1. /\ stock' = [stock EXCEPT ![c] = Kg(session[s].seen) + in - out]
              /\ ins' = [ins EXCEPT ![c] = @ + in]
              /\ outs' = [outs EXCEPT ![c] = @ + out]
              /\ overrun' = IF stock[c] = session[s].seen THEN overrun ELSE overrun \cup {c}
          BY <1>4, <3>2 DEF WriteMovement
        <4>2. in \in Nat /\ out \in Nat
          BY <2>1
        <4> HIDE DEF in, out
        <4>3. CASE stock[c] = session[s].seen
          BY <1>1, <2>1, <4>1, <4>2, <4>3, BookIsOnward DEF Book
        <4>4. CASE stock[c] # session[s].seen
          <5> SUFFICES ASSUME NEW d \in Centers PROVE Onward(d)
            OBVIOUS
          <5>1. stock[d] \in Int \cup {None} /\ ins[d] \in Nat /\ outs[d] \in Nat
            BY <1>1 DEF InventoryTyped
          <5>2. CASE d = c
            <6>1. ins'[d] = ins[d] + in /\ outs'[d] = outs[d] + out /\ d \in overrun'
              BY <1>1, <2>1, <4>1, <4>4, <5>2 DEF InventoryTyped
            <6> QED BY <4>2, <5>1, <6>1 DEF Onward
          <5>3. CASE d # c
            <6>1. stock'[d] = stock[d] /\ ins'[d] = ins[d] /\ outs'[d] = outs[d]
                  /\ overrun \subseteq overrun'
              BY <1>1, <2>1, <4>1, <4>4, <5>3 DEF InventoryTyped
            <6> QED BY <5>1, <6>1 DEF Onward
          <5> QED BY <5>2, <5>3
        <4> QED BY <4>3, <4>4
      <3> QED BY <3>1, <3>2
    <2> QED BY <1>2, <2>1, <2>2, OnwardKeepsUnguarded
  <1>5. CASE \/ AcceptCommit(s) \/ AcceptUnlocked(s) \/ WriteSale(s)
             \/ \E o \in Orders : WriteDirect(s, o)
    <2>1. c \in Centers /\ w \in Nat /\ Finish(s)
      BY <1>1, <1>5, WeightsPositive
         DEF AcceptCommit, AcceptUnlocked, WriteSale, WriteDirect, RequestOK, At
    <2>2. UNCHANGED <<stock, ins, outs, overrun>> \/ (Book(c, 0, w) /\ overrun' = overrun)
      BY <1>5 DEF AcceptCommit, AcceptUnlocked, WriteSale, WriteDirect, Leaves
    <2>3. \A d \in Centers : Onward(d)
      BY <1>1, <1>3, <2>1, <2>2, BookIsOnward
    <2> QED BY <1>2, <2>1, <2>3, OnwardKeepsUnguarded
  <1>6. CASE \/ (WriteReceive(s) \/ AddJob(s) \/ WriteApproval(s)) /\ UNCHANGED <<bookVars, overrun>>
             \/ ClaimDelivery(s) \/ Certify(s)
    <2>1. Finish(s) \/ GoOn(s, "certify") \/ GoOn(s, "addJob") \/ WriteApproval(s)
      BY <1>6 DEF WriteReceive, AddJob, ClaimDelivery, Certify
    <2>2. \A d \in Centers : Onward(d)
      BY <1>3, <1>6 DEF ClaimDelivery, Certify
    <2> QED BY <1>2, <2>1, <2>2, OnwardKeepsUnguarded
  <1>7. CASE AcceptLock(s) \/ AcceptRead(s) \/ AcceptSums(s)
    <2>1. UNCHANGED <<stock, ins, outs, overrun>> /\ c \in Centers /\ w \in Weights
      BY <1>1, <1>7 DEF AcceptLock, AcceptRead, AcceptSums, RequestOK, At
    <2>2. \A d, v, n : (RowHolds(d, v, n)' <=> RowHolds(d, v, n))
                        /\ (SumsHold(d, v, n)' <=> SumsHold(d, v, n))
      BY <2>1 DEF RowHolds, SumsHold, Misread, Enough, MassBalance
    <2>3. \A t \in Sessions : t # s => session'[t] = session[t]
      BY <1>1, <1>7, AcceptSteps
    <2>4. At(s, "acceptSums")' => RowHolds(c, w, session'[s].seen.outs)
      <3> SUFFICES ASSUME At(s, "acceptSums")' PROVE RowHolds(c, w, session'[s].seen.outs)
        OBVIOUS
      <3>1. AcceptRead(s) /\ ~Finish(s)
        BY <1>1, <1>7, AcceptSteps DEF Finish, Idle, At
      <3>2. Enough(c, w) /\ session'[s].seen.outs = outs[c]
        BY <1>1, <3>1 DEF AcceptRead, SessionRow
      <3> QED BY <3>2 DEF RowHolds
    <2>5. At(s, "acceptUnlocked")' =>
             RowHolds(c, w, session[s].seen.outs) /\ SumsHold(c, w, session[s].seen.outs)
      <3> SUFFICES ASSUME At(s, "acceptUnlocked")'
                   PROVE  /\ RowHolds(c, w, session[s].seen.outs)
                          /\ SumsHold(c, w, session[s].seen.outs)
        OBVIOUS
      <3>1. AcceptSums(s) /\ ~Finish(s)
        BY <1>1, <1>7, AcceptSteps DEF Finish, Idle, At
      <3>2. At(s, "acceptSums") /\ KeepsMass(c, w)
        BY <3>1 DEF AcceptSums
      <3>3. RowHolds(c, w, session[s].seen.outs)
        BY <3>2 DEF CentersInv, UnguardedOK, Unguarded
      <3>4. ASSUME ~Misread(c, session[s].seen.outs) PROVE MassBalance(c, w)
        <4>1. Enough(c, w) /\ c \notin overrun
          BY <3>3, <3>4 DEF RowHolds, Misread
        <4>2. /\ stock[c] \in Int /\ stock[c] # None /\ stock[c] >= w /\ w \in Nat /\ w > 0
              /\ ins[c] \in Nat /\ outs[c] \in Nat
          BY <1>1, <2>1, <4>1, WeightsPositive DEF Enough, InventoryTyped
        <4>3. stock[c] = ins[c] - outs[c]
          BY <1>1, <2>1, <4>1, <4>2 DEF StockIsKardex, Kg
        <4>4. ins[c] > 0
          BY <4>2, <4>3
        <4> QED BY <3>2, <4>4 DEF KeepsMass
      <3> QED BY <3>3, <3>4 DEF SumsHold
    <2>6. At(s, "acceptSums")' \/ At(s, "acceptUnlocked")' =>
             session'[s].center = c /\ session'[s].kg = w
      BY <1>1, <1>7, AcceptSteps DEF At
    <2>7. At(s, "acceptUnlocked")' => session'[s].seen = session[s].seen
      BY <1>1, <1>7, AcceptSteps DEF At
    <2> SUFFICES ASSUME NEW t \in Sessions PROVE Unguarded(t)'
      BY DEF UnguardedOK
    <2> PICK d, v, n : d = session'[t].center /\ v = session'[t].kg /\ n = session'[t].seen.outs
      OBVIOUS
    <2>8. /\ At(t, "acceptSums")' \/ At(t, "acceptUnlocked")' => RowHolds(d, v, n)
          /\ At(t, "acceptUnlocked")' => SumsHold(d, v, n)
      <3>1. CASE t = s
        <4>1. At(s, "acceptSums")' => ~At(s, "acceptUnlocked")'
          BY DEF At
        <4> QED BY <2>4, <2>5, <2>6, <2>7, <3>1, <4>1
      <3>2. CASE t # s
        BY <2>3, <3>2 DEF CentersInv, UnguardedOK, Unguarded, At
      <3> QED BY <3>1, <3>2
    <2>9. /\ At(t, "acceptSums")' \/ At(t, "acceptUnlocked")' => RowHolds(d, v, n)'
          /\ At(t, "acceptUnlocked")' => SumsHold(d, v, n)'
      BY <2>2, <2>8
    <2> QED BY <2>9 DEF Unguarded, RowHolds, SumsHold, Misread, Enough, MassBalance
  <1> QED
    BY <1>4, <1>5, <1>6, <1>7 DEF DecisiveStep

LEMMA JobKeepsUnguarded ==
    ASSUME CentersInv, Typed', NEW b \in Batches, Worker(b) \/ WorkerDies(b)
    PROVE  UnguardedOK'
  <1>1. session' = session /\ InventoryTyped
    BY TypedByTable DEF CentersInv, Worker, TakeJob, StoreBatch, AttemptFails, AckJob, WorkerDies,
                        inventoryVars
  <1>2. \A d \in Centers : Onward(d)
    <2>1. CASE StoreBatch(b)
      <3>1. job[b].center \in Centers /\ job[b].kg \in Nat
        BY <2>1 DEF StoreBatch, CentersInv, Typed, TypeOK, JobsOK
      <3> QED BY <1>1, <2>1, <3>1, BookIsOnward DEF StoreBatch, JobWeight
    <2>2. CASE ~StoreBatch(b)
      <3>1. UNCHANGED <<stock, ins, outs, overrun>>
        BY <2>2 DEF Worker, TakeJob, AttemptFails, AckJob, WorkerDies, inventoryVars, bookVars
      <3> QED BY <1>1, <3>1 DEF Onward, InventoryTyped
    <2> QED BY <2>1, <2>2
  <1> QED
    BY <1>1, <1>2, OnwardKeepsUnguarded DEF At

-----------------------------------------------------------------------------
(* Every certificate has a dispatch.                                        *)

Open(o) == IF order[o].status = "ACCEPTED" THEN 1 ELSE 0
Backed(o) ==
    /\ IsFiniteSet(Certifying(o))
    /\ certified[o] + Cardinality(Certifying(o)) + Open(o) <= dispatched[o]

LEMMA CertificatesByOrder == CertificatesOK <=> \A o \in Orders : Backed(o)
  BY DEF CertificatesOK, Backed, Open
LEMMA CertificatesAfter == CertificatesOK' <=> \A o \in Orders : Backed(o)'
  BY DEF CertificatesOK, Backed, Open, Certifying, At

\* No new certificate is claimed, and the books of the order do not get worse.
LEMMA BackedKept ==
    ASSUME CentersInv, NEW o \in Orders, Certifying(o)' \subseteq Certifying(o),
           certified'[o] = certified[o], dispatched'[o] \in Nat,
           dispatched'[o] - Open(o)' >= dispatched[o] - Open(o)
    PROVE  Backed(o)'
  <1>1. Backed(o) /\ certified[o] \in Nat /\ dispatched[o] \in Nat
    BY CertificatesByOrder DEF CentersInv, Typed, TypeOK
  <1>2. IsFiniteSet(Certifying(o)) /\ Cardinality(Certifying(o)) \in Nat
    BY <1>1, FS_CardinalityType DEF Backed
  <1>3. IsFiniteSet(Certifying(o)') /\ Cardinality(Certifying(o)') <= Cardinality(Certifying(o))
    BY <1>2, FS_Subset
  <1>4. Cardinality(Certifying(o)') \in Nat
    BY <1>3, FS_CardinalityType
  <1>5. Open(o) \in {0, 1} /\ Open(o)' \in {0, 1}
    BY DEF Open
  <1> DEFINE n == Cardinality(Certifying(o))
             m == Cardinality(Certifying(o)')
             i == Open(o)
             j == Open(o)'
  <1>6. certified[o] + n + i <= dispatched[o]
    BY <1>1 DEF Backed
  <1>7. certified[o] + m + j <= dispatched'[o]
    <2>1. n \in Nat /\ m \in Nat /\ m <= n /\ i \in {0, 1} /\ j \in {0, 1}
      BY <1>2, <1>3, <1>4, <1>5
    <2>2. dispatched'[o] - j >= dispatched[o] - i
      OBVIOUS
    <2> HIDE DEF n, m, i, j
    <2> QED BY <1>1, <1>6, <2>1, <2>2
  <1> QED
    BY <1>3, <1>7 DEF Backed

LEMMA StepKeepsCertificates ==
    ASSUME CentersInv, NEW s \in Sessions, DecisiveStep(s)
    PROVE  CertificatesOK'
  <1> USE DEF CentersInv, bookVars, tradeVars
  <1>1. session \in [Sessions -> SessionRow] /\ session[s] \in SessionRow /\ RequestOK(session[s])
    BY DEF Typed, SessionsOK
  <1>2. /\ order \in [Orders -> [status: OrderStatus, center: Centers \cup {None}]]
        /\ dispatched \in [Orders -> Nat] /\ certified \in [Orders -> Nat]
    BY DEF Typed, TypeOK
  <1>3. ASSUME NEW o \in Orders, Finish(s) PROVE Certifying(o)' \subseteq Certifying(o)
    BY <1>1, <1>3 DEF Finish, Idle, Certifying, At
  <1>4. ASSUME UNCHANGED <<order, dispatched, certified>>,
               \/ Finish(s) \/ GoOn(s, "addJob") \/ WriteApproval(s)
               \/ AcceptLock(s) \/ AcceptRead(s) \/ AcceptSums(s)
        PROVE  CertificatesOK'
    <2> SUFFICES ASSUME NEW o \in Orders PROVE Backed(o)'
      BY CertificatesAfter
    <2>1. Certifying(o)' \subseteq Certifying(o)
      BY <1>1, <1>4, AcceptSteps
         DEF Finish, Idle, GoOn, SessionRow, WriteApproval, Step, Certifying, At
    <2>2. Open(o)' = Open(o) /\ Open(o) \in {0, 1}
      BY <1>4 DEF Open
    <2> QED BY <1>2, <1>4, <2>1, <2>2, BackedKept
  <1>5. ASSUME NEW p \in Orders, NEW c, NEW w, Leaves(p, c, w), Finish(s), certified' = certified
        PROVE  CertificatesOK'
    <2> SUFFICES ASSUME NEW o \in Orders PROVE Backed(o)'
      BY CertificatesAfter
    <2>1. Open(o) \in {0, 1} /\ Open(o)' \in {0, 1} /\ (o # p => Open(o)' = Open(o))
      BY <1>2, <1>5 DEF Leaves, Open
    <2>2. dispatched'[o] = IF o = p THEN dispatched[o] + 1 ELSE dispatched[o]
      BY <1>2, <1>5 DEF Leaves
    <2> QED BY <1>2, <1>3, <1>5, <2>1, <2>2, BackedKept
  <1>6. CASE AcceptCommit(s) \/ AcceptUnlocked(s)
    <2>1. session[s].id \in Orders
      BY <1>1, <1>6 DEF AcceptCommit, AcceptUnlocked, RequestOK, At
    <2> QED BY <1>5, <1>6, <2>1 DEF AcceptCommit, AcceptUnlocked
  <1>7. ASSUME NEW o \in Orders, WriteDirect(s, o) PROVE CertificatesOK'
    BY <1>5, <1>7 DEF WriteDirect
  <1>8. CASE ClaimDelivery(s)
    <2> DEFINE p == session[s].id
    <2>1. p \in Orders
      BY <1>1, <1>8 DEF ClaimDelivery, RequestOK, At
    <2>2. CASE ~StillAccepted(p)
      BY <1>4, <1>8, <2>2 DEF ClaimDelivery
    <2>3. CASE StillAccepted(p)
      <3> SUFFICES ASSUME NEW o \in Orders PROVE Backed(o)'
        BY CertificatesAfter
      <3>1. /\ GoOn(s, "certify") /\ At(s, "deliver")
            /\ order' = [order EXCEPT ![p].status = "DELIVERED"]
            /\ UNCHANGED <<dispatched, certified>>
        BY <1>8, <2>3 DEF ClaimDelivery
      <3>2. Certifying(o)' = IF o = p THEN Certifying(o) \cup {s} ELSE Certifying(o)
        BY <1>1, <3>1 DEF GoOn, SessionRow, Certifying, At
      <3>3. CASE o # p
        <4>1. Open(o)' = Open(o) /\ Open(o) \in {0, 1}
          BY <1>2, <3>1, <3>3 DEF Open
        <4> QED BY <1>2, <3>1, <3>2, <3>3, <4>1, BackedKept
      <3>4. CASE o = p
        <4>1. Backed(o)
          BY CertificatesByOrder
        <4>2. Open(o) = 1 /\ Open(o)' = 0
          BY <1>2, <2>1, <2>3, <3>1, <3>4 DEF Open, StillAccepted
        <4>3. s \notin Certifying(o)
          BY <3>1 DEF Certifying, At
        <4>4. IsFiniteSet(Certifying(o) \cup {s})
              /\ Cardinality(Certifying(o) \cup {s}) = Cardinality(Certifying(o)) + 1
          BY <4>1, <4>3, FS_AddElement DEF Backed
        <4>5. Cardinality(Certifying(o)) \in Nat
          BY <4>1, FS_CardinalityType DEF Backed
        <4>6. Certifying(o)' = Certifying(o) \cup {s} /\ dispatched'[o] = dispatched[o]
              /\ certified'[o] = certified[o]
          BY <3>1, <3>2, <3>4
        <4> QED BY <1>2, <4>1, <4>2, <4>4, <4>5, <4>6 DEF Backed
      <3> QED BY <3>3, <3>4
    <2> QED BY <2>2, <2>3
  <1>9. CASE Certify(s)
    <2> DEFINE p == session[s].id
    <2>1. p \in Orders /\ s \in Certifying(p)
      BY <1>1, <1>9 DEF Certify, RequestOK, At, Certifying
    <2> SUFFICES ASSUME NEW o \in Orders PROVE Backed(o)'
      BY CertificatesAfter
    <2>2. Certifying(o)' = IF o = p THEN Certifying(o) \ {s} ELSE Certifying(o)
      BY <1>1, <1>9 DEF Certify, Finish, Idle, Certifying, At
    <2>3. Open(o)' = Open(o) /\ Open(o) \in {0, 1} /\ dispatched'[o] = dispatched[o]
      BY <1>9 DEF Certify, Open
    <2>4. CASE o # p
      BY <1>2, <1>9, <2>2, <2>3, <2>4, BackedKept DEF Certify
    <2>5. CASE o = p
      <3>1. Backed(o)
        BY CertificatesByOrder
      <3>2. IsFiniteSet(Certifying(o) \ {s})
            /\ Cardinality(Certifying(o) \ {s}) = Cardinality(Certifying(o)) - 1
        BY <2>1, <2>5, <3>1, FS_RemoveElement DEF Backed
      <3>3. Cardinality(Certifying(o)) \in Nat
        BY <3>1, FS_CardinalityType DEF Backed
      <3>4. certified'[o] = certified[o] + 1 /\ Certifying(o)' = Certifying(o) \ {s}
        BY <1>2, <1>9, <2>2, <2>5 DEF Certify
      <3> QED BY <1>2, <2>3, <3>1, <3>2, <3>3, <3>4 DEF Backed
    <2> QED BY <2>4, <2>5
  <1>10. CASE \/ WriteMovement(s) /\ UNCHANGED tradeVars
              \/ (WriteReceive(s) \/ AddJob(s) \/ WriteApproval(s)) /\ UNCHANGED tradeVars
              \/ AcceptLock(s) \/ AcceptRead(s) \/ AcceptSums(s) \/ WriteSale(s)
    BY <1>4, <1>10
       DEF WriteMovement, WriteReceive, AddJob, AcceptLock, AcceptRead, AcceptSums, WriteSale
  <1> QED
    BY <1>6, <1>7, <1>8, <1>9, <1>10 DEF DecisiveStep

LEMMA JobKeepsCertificates ==
    ASSUME CentersInv, NEW b \in Batches, Worker(b) \/ WorkerDies(b), UNCHANGED tradeVars
    PROVE  CertificatesOK'
  <1>1. session' = session
    BY DEF Worker, TakeJob, StoreBatch, AttemptFails, AckJob, WorkerDies, inventoryVars
  <1> QED
    BY <1>1 DEF CentersInv, CertificatesOK, Certifying, At, tradeVars

-----------------------------------------------------------------------------
(* Together.                                                                *)

LEMMA NextCentersInv == CentersInv /\ [Next]_vars => CentersInv'
  <1> SUFFICES ASSUME CentersInv, [Next]_vars PROVE CentersInv'
    OBVIOUS
  <1> USE DEF CentersInv
  <1>1. Typed'
    BY NextTyped
  <1>2. CASE QuietStep
    BY <1>1, <1>2, QuietKeepsInv
  <1>3. ASSUME NEW s \in Sessions, DecisiveStep(s) PROVE CentersInv'
    BY <1>1, <1>3, StepKeepsKardex, StepKeepsWeights, StepKeepsBookings, StepKeepsLocks,
       StepKeepsUnguarded, StepKeepsCertificates
  <1>4. ASSUME NEW b \in Batches, Worker(b) \/ WorkerDies(b), UNCHANGED tradeVars PROVE CentersInv'
    <2>1. StockIsKardex'
      <3>1. CASE StoreBatch(b)
        <4>1. job[b].center \in Centers /\ job[b].kg \in Nat
          BY <3>1 DEF StoreBatch, Typed, TypeOK, JobsOK
        <4> QED BY <3>1, <4>1, BookKeepsKardex, TypedByTable DEF StoreBatch, JobWeight
      <3>2. CASE ~StoreBatch(b)
        BY <1>4, <3>2 DEF Worker, TakeJob, AttemptFails, AckJob, WorkerDies, inventoryVars,
                          StockIsKardex
      <3> QED BY <3>1, <3>2
    <2> QED BY <1>1, <1>4, <2>1, JobKeepsWeights, JobKeepsBookings, JobKeepsLocks,
               JobKeepsUnguarded, JobKeepsCertificates
  <1>5. ASSUME NEW o \in Orders, NEW c \in Centers, RequestOrder(o, c) PROVE CentersInv'
    <2>1. UNCHANGED <<inventoryVars, batchVars, dispatched, certified>>
      BY <1>5 DEF RequestOrder
    <2>2. StockIsKardex' /\ WeightsOK' /\ BookingsOK' /\ LocksOK' /\ UnguardedOK'
      BY <2>1 DEF inventoryVars, batchVars, StockIsKardex, WeightsOK, WeightOK,
                  ToleratedOrApproved, BookingsOK, LocksOK, Covered, KeepsMass, UnguardedOK, Unguarded,
                  RowHolds, SumsHold, Misread, MassBalance, Enough, At
    <2>3. CertificatesOK'
      <3> SUFFICES ASSUME NEW p \in Orders PROVE Backed(p)'
        BY CertificatesAfter
      <3>1. Open(p)' = Open(p) /\ Open(p) \in {0, 1}
        BY <1>5 DEF RequestOrder, Open, Typed, TypeOK
      <3>2. Certifying(p)' = Certifying(p)
        BY <2>1 DEF inventoryVars, Certifying, At
      <3>3. dispatched[p] \in Nat
        BY DEF Typed, TypeOK
      <3> QED BY <2>1, <3>1, <3>2, <3>3, BackedKept
    <2> QED BY <1>1, <2>2, <2>3
  <1> QED
    BY <1>2, <1>3, <1>4, <1>5, QuietOrDecisive

\* All of it together: the types, the Kardex, the weights on their way to the stock, the
\* jobs' bookings, the locks of acceptTransfer and the certificates of receiveTransfer.
THEOREM CentersInductive == Spec => []CentersInv
  BY InitCentersInv, NextCentersInv, PTL DEF Spec

\* The stock of every center is the sum of its Kardex, except where a movement booked by
\* hand wrote over a row that had changed (createMovement writes the quantity).
THEOREM CentersStockIsKardex == Spec => []StockIsKardex
  <1>1. CentersInv => StockIsKardex
    BY DEF CentersInv
  <1> QED BY <1>1, CentersInductive, PTL

\* receiveBatch, approveFlaggedBatch and the job: no weight outside the tolerance is
\* booked in without an approval, however many weighings overlap.
THEOREM CentersToleratedOrApproved == Spec => []ToleratedOrApproved
  <1>1. CentersInv => ToleratedOrApproved
    BY DEF CentersInv, WeightsOK
  <1> QED BY <1>1, CentersInductive, PTL

\* processBatchBlockchain books a batch in at most once per worker it was given to.
THEOREM CentersBookedOnce == Spec => []BookedOnce
  <1>1. CentersInv => BookedOnce
    BY DEF CentersInv, BookingsOK, BookedOnce
  <1> QED BY <1>1, CentersInductive, PTL

-----------------------------------------------------------------------------
(* A dispatch that commits is covered.                                      *)

LEMMA DispatchCovers ==
    ASSUME Typed, NEW c \in Centers, NEW w \in Nat, NEW o, Leaves(o, c, w), Covered(c, w)
    PROVE  StillCovered(c)
  <1>1. /\ stock[c] # None /\ stock[c] \in Int /\ stock[c] >= w
        /\ ins[c] \in Nat /\ outs[c] \in Nat
    BY DEF Covered, Enough, Typed, TypeOK
  <1>2. stock'[c] = stock[c] - w /\ ins'[c] = ins[c] /\ outs'[c] = outs[c] + w
    BY <1>1 DEF Leaves, Book, Kg, Typed, TypeOK
  <1> QED
    BY <1>1, <1>2 DEF StillCovered, Covered, KeepsMass, MassBalance

LEMMA CommitIsCovered ==
    ASSUME CentersInv, NEW s \in Sessions
    PROVE  LET c == session[s].center
           IN  /\ AcceptCommit(s) => StillCovered(c)
               /\ AcceptUnlocked(s) =>
                     StillCovered(c) \/ outs[c] > session[s].seen.outs \/ c \in overrun
  <1> DEFINE c == session[s].center
             w == session[s].kg
  <1>1. Typed /\ (AcceptCommit(s) \/ AcceptUnlocked(s) => c \in Centers /\ w \in Nat)
    BY WeightsPositive
       DEF AcceptCommit, AcceptUnlocked, At, CentersInv, Typed, SessionsOK, RequestOK
  <1>2. ASSUME AcceptCommit(s) PROVE StillCovered(c)
    <2>1. Covered(c, w)
      BY <1>2 DEF AcceptCommit, CentersInv, LocksOK
    <2> QED BY <1>1, <1>2, <2>1, DispatchCovers DEF AcceptCommit
  <1>3. ASSUME AcceptUnlocked(s), ~Misread(c, session[s].seen.outs) PROVE StillCovered(c)
    <2>1. Covered(c, w)
      BY <1>3 DEF AcceptUnlocked, CentersInv, UnguardedOK, Unguarded, RowHolds, SumsHold, Covered,
                  KeepsMass
    <2> QED BY <1>1, <1>3, <2>1, DispatchCovers DEF AcceptUnlocked
  <1> QED
    BY <1>2, <1>3 DEF Misread

\* acceptTransfer: the checks made under the lock of the stock row still hold when its
\* transaction commits.  Where it found no row to lock they do unless an exit of the center
\* was booked since it read the row, or a movement by hand wrote over a changed row.
THEOREM CentersDispatchIsCovered == Spec => DispatchIsCovered
  <1>1. CentersInv /\ [Next]_vars =>
          [\A s \in Sessions :
             LET c == session[s].center
             IN  /\ AcceptCommit(s) => StillCovered(c)
                 /\ AcceptUnlocked(s) =>
                       StillCovered(c) \/ outs[c] > session[s].seen.outs \/ c \in overrun]_vars
    BY CommitIsCovered
  <1> QED
    BY <1>1, CentersInductive, PTL DEF Spec, DispatchIsCovered

-----------------------------------------------------------------------------
(* The centers implement CertifiedTrade.                                    *)

Shelf == [c \in Centers |-> ins[c] - outs[c]]
Undocumented == [o \in Orders |-> dispatched[o] - certified[o]]

LEMMA InitTrade == Init => Trade!Init
  BY InventoryOK DEF Init, InventoryInit, Trade!Init, InventoryOK, Kg

LEMMA KeepsTrade ==
    ASSUME UNCHANGED <<ins, outs, dispatched, certified>>
    PROVE  UNCHANGED Trade!vars
  BY DEF Trade!vars

\* A booking is an entry, an exit or nothing.
LEMMA BookingIsMove ==
    ASSUME Typed, NEW c \in Centers, NEW in \in Nat, NEW out \in Nat,
           ins' = [ins EXCEPT ![c] = @ + in], outs' = [outs EXCEPT ![c] = @ + out]
    PROVE  /\ Shelf[c] \in Int
           /\ \A d \in Centers \ {c} : Shelf'[d] = Shelf[d]
           /\ Shelf'[c] = Shelf[c] + in - out
  <1>1. ins \in [Centers -> Nat] /\ outs \in [Centers -> Nat]
    BY DEF Typed, TypeOK
  <1>2. ins'[c] = ins[c] + in /\ outs'[c] = outs[c] + out
    BY <1>1
  <1>3. \A d \in Centers \ {c} : ins'[d] = ins[d] /\ outs'[d] = outs[d]
    BY <1>1
  <1>4. ins[c] \in Nat /\ outs[c] \in Nat
    BY <1>1
  <1>5. \A d \in Centers : Shelf[d] = ins[d] - outs[d] /\ Shelf'[d] = ins'[d] - outs'[d]
    BY DEF Shelf
  <1> QED
    BY <1>2, <1>3, <1>4, <1>5

\* The books of the orders change at one of them.
LEMMA UndocumentedChanges ==
    ASSUME Typed, NEW o \in Orders, NEW d \in Int,
           dispatched'[o] - certified'[o] = dispatched[o] - certified[o] + d,
           \A p \in Orders \ {o} : dispatched'[p] = dispatched[p] /\ certified'[p] = certified[p]
    PROVE  Undocumented' = [Undocumented EXCEPT ![o] = @ + d]
  BY DEF Undocumented

LEMMA BookingIsTrade ==
    ASSUME Typed, NEW c \in Centers, NEW in \in Nat, NEW out \in Nat, in = 0 \/ out = 0,
           ins' = [ins EXCEPT ![c] = @ + in], outs' = [outs EXCEPT ![c] = @ + out],
           UNCHANGED <<dispatched, certified>>
    PROVE  [Trade!Next]_(Trade!vars)
  <1>1. /\ Shelf[c] \in Int
        /\ \A d \in Centers \ {c} : Shelf'[d] = Shelf[d]
        /\ Shelf'[c] = Shelf[c] + in - out
    BY BookingIsMove
  <1>2. CASE in = 0 /\ out = 0
    <2>1. ins' = ins /\ outs' = outs
      BY <1>2 DEF Typed, TypeOK
    <2> QED BY <2>1, KeepsTrade
  <1>3. CASE in > 0
    <2>1. Shelf'[c] > Shelf[c]
      BY <1>1, <1>3
    <2>2. Trade!Enter(c)
      BY <1>1, <2>1 DEF Trade!Enter, Trade!Moves, Shelf
    <2> QED BY <2>2 DEF Trade!Next
  <1>4. CASE out > 0
    <2>1. Shelf'[c] < Shelf[c]
      BY <1>1, <1>4
    <2>2. Trade!Leave(c)
      BY <1>1, <2>1 DEF Trade!Leave, Trade!Moves, Shelf
    <2> QED BY <2>2 DEF Trade!Next
  <1> QED
    BY <1>2, <1>3, <1>4

LEMMA DispatchIsTrade ==
    ASSUME Typed, NEW o \in Orders, NEW c \in Centers, NEW w \in Weights, Leaves(o, c, w),
           certified' = certified
    PROVE  Trade!Next
  <1>1. w \in Nat /\ w > 0
    BY WeightsPositive
  <1>2. /\ Shelf[c] \in Int /\ \A d \in Centers \ {c} : Shelf'[d] = Shelf[d]
        /\ Shelf'[c] = Shelf[c] + 0 - w
    <2>1. ins' = [ins EXCEPT ![c] = @ + 0] /\ outs' = [outs EXCEPT ![c] = @ + w]
      BY DEF Leaves, Book
    <2> QED BY <1>1, <2>1, BookingIsMove
  <1>3. Undocumented' = [Undocumented EXCEPT ![o] = @ + 1]
    <2>1. dispatched \in [Orders -> Nat] /\ certified \in [Orders -> Nat]
      BY DEF Typed, TypeOK
    <2>2. dispatched' = [dispatched EXCEPT ![o] = @ + 1]
      BY DEF Leaves
    <2>3. dispatched'[o] = dispatched[o] + 1 /\ \A p \in Orders \ {o} : dispatched'[p] = dispatched[p]
      BY <2>1, <2>2
    <2>4. dispatched[o] \in Nat /\ certified[o] \in Nat
      BY <2>1
    <2>5. dispatched'[o] - certified'[o] = dispatched[o] - certified[o] + 1
      BY <2>3, <2>4
    <2> QED BY <2>3, <2>5, UndocumentedChanges
  <1>4. Trade!Dispatch(o, c)
    BY <1>1, <1>2, <1>3 DEF Trade!Dispatch, Trade!Moves, Shelf, Undocumented
  <1> QED
    BY <1>4 DEF Trade!Next

LEMMA CertifyIsTrade ==
    ASSUME CentersInv, NEW s \in Sessions, Certify(s)
    PROVE  Trade!Next
  <1>0. session[s].id \in Orders
    BY DEF Certify, At, CentersInv, Typed, SessionsOK, RequestOK
  <1> PICK o \in Orders : o = session[s].id
    BY <1>0
  <1>1. s \in Certifying(o)
    BY DEF Certify, At, Certifying
  <1>2. Backed(o) /\ certified[o] \in Nat /\ dispatched[o] \in Nat
    BY <1>1, CertificatesByOrder DEF CentersInv, Typed, TypeOK
  <1>3. Cardinality(Certifying(o)) \in Nat /\ Cardinality(Certifying(o)) # 0
    BY <1>1, <1>2, FS_CardinalityType, FS_EmptySet DEF Backed
  <1>4. dispatched[o] - certified[o] > 0
    BY <1>2, <1>3 DEF Backed, Open
  <1>5. /\ certified' = [certified EXCEPT ![o] = @ + 1]
        /\ UNCHANGED <<ins, outs, dispatched>>
    BY DEF Certify, bookVars
  <1>6. Undocumented' = [Undocumented EXCEPT ![o] = @ - 1]
    <2>1. Typed /\ certified \in [Orders -> Nat]
      BY DEF CentersInv, Typed, TypeOK
    <2>2. certified'[o] = certified[o] + 1 /\ \A p \in Orders \ {o} : certified'[p] = certified[p]
      BY <1>1, <1>5, <2>1
    <2>3. dispatched' = dispatched
      BY <1>5
    <2>4. dispatched'[o] - certified'[o] = dispatched[o] - certified[o] + (-1)
      BY <1>2, <2>2, <2>3
    <2>5. Undocumented' = [Undocumented EXCEPT ![o] = @ + (-1)]
      BY <2>1, <2>2, <2>3, <2>4, UndocumentedChanges
    <2>6. Undocumented[o] \in Int
      BY <1>1, <1>2 DEF Undocumented
    <2>7. Undocumented[o] + (-1) = Undocumented[o] - 1
      BY <2>6
    <2> QED BY <2>5, <2>7
  <1>7. Trade!Certify(o)
    BY <1>1, <1>4, <1>5, <1>6 DEF Trade!Certify, Undocumented
  <1> QED
    BY <1>7 DEF Trade!Next

LEMMA StepIsTrade ==
    ASSUME CentersInv, NEW s \in Sessions, DecisiveStep(s)
    PROVE  [Trade!Next]_(Trade!vars)
  <1> USE DEF bookVars, tradeVars
  <1>1. Typed /\ session[s] \in SessionRow /\ RequestOK(session[s])
    BY DEF CentersInv, Typed, SessionsOK
  <1>2. CASE WriteMovement(s) /\ UNCHANGED <<batchVars, tradeVars>>
    <2>1. session[s].center \in Centers /\ session[s].kg \in Nat
      BY <1>1, <1>2 DEF WriteMovement, RequestOK, SessionRow
    <2>2. CASE UNCHANGED <<ins, outs>>
      BY <1>2, <2>2, KeepsTrade
    <2>3. CASE ~UNCHANGED <<ins, outs>>
      <3>1. PICK in \in Nat, out \in Nat :
              /\ in = 0 \/ out = 0
              /\ ins' = [ins EXCEPT ![session[s].center] = @ + in]
              /\ outs' = [outs EXCEPT ![session[s].center] = @ + out]
        BY <1>2, <2>1, <2>3 DEF WriteMovement, At
      <3> QED BY <1>1, <1>2, <2>1, <3>1, BookingIsTrade
    <2> QED BY <2>2, <2>3
  <1>3. CASE AcceptCommit(s) \/ AcceptUnlocked(s)
    <2>1. session[s].id \in Orders /\ session[s].center \in Centers /\ session[s].kg \in Weights
      BY <1>1, <1>3 DEF AcceptCommit, AcceptUnlocked, At, RequestOK
    <2> QED BY <1>1, <1>3, <2>1, DispatchIsTrade DEF AcceptCommit, AcceptUnlocked
  <1>4. ASSUME NEW o \in Orders, WriteDirect(s, o) PROVE Trade!Next
    <2>1. session[s].center \in Centers /\ session[s].kg \in Weights
      BY <1>1, <1>4 DEF WriteDirect, At, RequestOK
    <2> QED BY <1>1, <1>4, <2>1, DispatchIsTrade DEF WriteDirect
  <1>5. CASE Certify(s)
    BY <1>5, CertifyIsTrade
  <1>6. CASE WriteSale(s)
    <2>1. session[s].center \in Centers /\ session[s].kg \in Nat
      BY <1>1, <1>6 DEF WriteSale, At, RequestOK, SessionRow
    <2>2. CASE UNCHANGED <<ins, outs>>
      BY <1>6, <2>2, KeepsTrade DEF WriteSale
    <2>3. CASE Book(session[s].center, 0, session[s].kg)
      BY <1>1, <1>6, <2>1, <2>3, BookingIsTrade DEF WriteSale, Book
    <2> QED BY <1>6, <2>2, <2>3 DEF WriteSale
  <1>7. CASE \/ (WriteReceive(s) \/ AddJob(s) \/ WriteApproval(s))
                   /\ UNCHANGED <<bookVars, overrun, crashes, tradeVars>>
             \/ AcceptLock(s) \/ AcceptRead(s) \/ AcceptSums(s) \/ ClaimDelivery(s)
    BY <1>7, KeepsTrade DEF AcceptLock, AcceptRead, AcceptSums, ClaimDelivery
  <1> QED
    BY <1>2, <1>3, <1>4, <1>5, <1>6, <1>7 DEF DecisiveStep

LEMMA NextTrade == CentersInv /\ [Next]_vars => [Trade!Next]_(Trade!vars)
  <1> SUFFICES ASSUME CentersInv, [Next]_vars PROVE [Trade!Next]_(Trade!vars)
    OBVIOUS
  <1>1. Typed
    BY DEF CentersInv
  <1>2. CASE QuietStep
    BY <1>2, KeepsTrade DEF QuietStep
  <1>3. ASSUME NEW s \in Sessions, DecisiveStep(s) PROVE [Trade!Next]_(Trade!vars)
    BY <1>3, StepIsTrade
  <1>4. ASSUME NEW b \in Batches, Worker(b) \/ WorkerDies(b), UNCHANGED tradeVars
        PROVE  [Trade!Next]_(Trade!vars)
    <2>1. CASE StoreBatch(b)
      <3>1. job[b].center \in Centers /\ job[b].kg \in Nat
        BY <1>1, <2>1 DEF StoreBatch, Typed, TypeOK, JobsOK
      <3> QED BY <1>1, <1>4, <2>1, <3>1, BookingIsTrade
              DEF StoreBatch, JobWeight, Book, tradeVars
    <2>2. CASE ~StoreBatch(b)
      BY <1>4, <2>2, KeepsTrade DEF Worker, TakeJob, AttemptFails, AckJob, WorkerDies,
                                    inventoryVars, tradeVars
    <2> QED BY <2>1, <2>2
  <1>5. ASSUME NEW o \in Orders, NEW c \in Centers, RequestOrder(o, c)
        PROVE  [Trade!Next]_(Trade!vars)
    BY <1>5, KeepsTrade DEF RequestOrder, inventoryVars
  <1> QED
    BY <1>1, <1>2, <1>3, <1>4, <1>5, QuietOrDecisive

\* Purchase orders, direct dispatches, sales, movements and jobs together do nothing the
\* trade of certified material would not: material leaves a shelf in the step that
\* dispatches an order, and every certificate answers a dispatch that had none.
THEOREM CentersImplementCertifiedTrade == Spec => CertifiedTradeSpec
  BY InitTrade, NextTrade, CentersInductive, PTL DEF Spec, CertifiedTradeSpec, Trade!Spec
=============================================================================
