--------------------------- MODULE CenterBatches ---------------------------
(***************************************************************************)
(* The batches collectors bring to the collection centers: dispatch,       *)
(* rerouting, weighing with the tolerance check, review, dispute and       *)
(* arbitration, settlement in cash, consolidation into lots, and the job   *)
(* of blockchain-queue that notarizes a weighed batch and books it in.     *)
(*                                                                         *)
(* Every endpoint reads the batch, checks it and later writes it by id     *)
(* alone; between the two another endpoint or the job can write.  A job is *)
(* known by the batch it is for, so that adding it again does nothing; it  *)
(* is repeated when an attempt fails and when its worker dies, also after  *)
(* its transaction was committed.                                          *)
(***************************************************************************)
EXTENDS CenterInventory, FiniteSetsExt, Sequences

CONSTANTS
    Batches,      \* batches, OPEN at the start and filled by a collector
    Lots,         \* consolidated batches the database can hand out
    Estimated,    \* estimated weight of a batch: [Batches -> Nat]
    Destination,  \* destination center of a batch: [Batches -> Centers]
    Tolerance,    \* WEIGHT_DISCREPANCY_TOLERANCE_PERCENT
    MaxAttempts,  \* attempts of a job (5 in the code)
    MaxStalls     \* times a job is given to a new worker (maxStalledCount, 1 in BullMQ)

ASSUME BatchesOK ==
    /\ None \notin Batches \cup Lots /\ IsFiniteSet(Batches)
    /\ Estimated \in [Batches -> Nat] /\ Destination \in [Batches -> Centers]
    /\ Tolerance \in 0..100 /\ MaxAttempts \in Nat \ {0} /\ MaxStalls \in Nat

VARIABLES
    batch,     \* batches
    lot,       \* consolidated_batches
    job,       \* process-batch-blockchain job of every batch
    approved,  \* batches whose discrepancy somebody approved
    booked     \* weights the jobs booked in for a batch, oldest first

batchVars == <<batch, lot, job, approved, booked>>

Status == {"OPEN", "IN_TRANSIT", "PROCESSING", "PARTIALLY_ACCEPTED", "RECEIVED",
           "FLAGGED_FOR_REVIEW", "DISPUTED", "REROUTED", "CONSOLIDATED"}
JobState == {"none", "waiting", "active", "stored", "done", "failed"}
LotStatus == {"NONE", "PENDING_SALE", "SOLD"}

NoLot == [status |-> "NONE", center |-> None, total |-> 0]
NoJob == [state |-> "none", center |-> None, kg |-> 0, attempts |-> 0, stalls |-> 0]

BatchesInit ==
    /\ batch = [b \in Batches |-> [status |-> "OPEN", center |-> Destination[b],
                                   kg |-> 0, lot |-> None, fiat |-> FALSE]]
    /\ lot = [l \in Lots |-> NoLot]
    /\ job = [b \in Batches |-> NoJob]
    /\ approved = {}
    /\ booked = [b \in Batches |-> <<>>]

\* BatchStateMachine.ALLOWED_TRANSITIONS
Allowed == [
    OPEN |-> {"IN_TRANSIT", "PROCESSING", "RECEIVED", "FLAGGED_FOR_REVIEW"},
    IN_TRANSIT |-> {"PROCESSING", "RECEIVED", "REROUTED", "FLAGGED_FOR_REVIEW"},
    PROCESSING |-> {"RECEIVED", "PARTIALLY_ACCEPTED", "FLAGGED_FOR_REVIEW", "DISPUTED"},
    FLAGGED_FOR_REVIEW |-> {"RECEIVED", "DISPUTED", "PARTIALLY_ACCEPTED"},
    DISPUTED |-> {"RECEIVED", "PARTIALLY_ACCEPTED", "REROUTED"},
    RECEIVED |-> {"CONSOLIDATED"},
    PARTIALLY_ACCEPTED |-> {"CONSOLIDATED"},
    REROUTED |-> {"OPEN", "IN_TRANSIT"},
    CONSOLIDATED |-> {}]
ValidTransition(from, to) == from = to \/ to \in Allowed[from]

Abs(n) == IF n < 0 THEN -n ELSE n

\* No discrepancy between the estimate and the scales.
Tolerated(b, w) ==
    IF Estimated[b] > 0 THEN 100 * Abs(w - Estimated[b]) <= Tolerance * Estimated[b]
    ELSE w = 0

Is(b, status) == batch[b].status = status
Write(b, status, center, w) ==
    batch' = [batch EXCEPT ![b].status = status, ![b].center = center, ![b].kg = w]

-----------------------------------------------------------------------------
(* The collector on the road. *)

\* updateBatch: the collector names the center and sets out.
ReadForDispatch(s, b, c) ==
    /\ Is(b, "OPEN")
    /\ Begin(s, "dispatch", Step("dispatch", b, c, 0, None))
    /\ UNCHANGED batchVars

WriteDispatch(s) ==
    /\ At(s, "dispatch")
    /\ LET b == session[s].id IN Write(b, "IN_TRANSIT", session[s].center, batch[b].kg)
    /\ Finish(s)
    /\ UNCHANGED <<lot, job, approved, booked>>

\* rerouteBatch: allows OPEN, but the state machine knows no way from there.
ReadForReroute(s, b, c) ==
    /\ batch[b].status \in {"OPEN", "IN_TRANSIT"}
    /\ ValidTransition(batch[b].status, "REROUTED")
    /\ batch[b].center # c
    /\ Begin(s, "reroute", Step("reroute", b, c, 0, None))
    /\ UNCHANGED batchVars

WriteReroute(s) ==
    /\ At(s, "reroute")
    /\ LET b == session[s].id IN Write(b, "REROUTED", session[s].center, batch[b].kg)
    /\ Finish(s)
    /\ UNCHANGED <<lot, job, approved, booked>>

-----------------------------------------------------------------------------
(* Weighing. *)

\* Variant of Enqueue without the jobId: a job that ended is started again.
EnqueueAgain(b, c, w) ==
    IF job[b].state \in {"none", "done"}
    THEN [job EXCEPT ![b] = [NoJob EXCEPT !.state = "waiting", !.center = c, !.kg = w]]
    ELSE job

\* blockchainQueue.add with jobId batch-<id>: nothing if the queue knows the job.
Enqueue(b, c, w) ==
    IF job[b].state = "none"
    THEN [job EXCEPT ![b] = [NoJob EXCEPT !.state = "waiting", !.center = c, !.kg = w]]
    ELSE job

\* receiveBatch, its reads and checks.
ReadForReceive(s, b, w, waste) ==
    /\ batch[b].status \in {"OPEN", "IN_TRANSIT"}
    /\ Begin(s, "receive", Step("receive", b, batch[b].center, w, waste))
    /\ UNCHANGED batchVars

\* Retained for review, or on to the queue.
WriteReceive(s) ==
    LET b == session[s].id
        w == session[s].kg
        c == batch[b].center
    IN  /\ At(s, "receive")
        /\ IF Tolerated(b, w)
           THEN /\ Write(b, IF session[s].seen THEN "PARTIALLY_ACCEPTED" ELSE "PROCESSING", c, w)
                /\ GoOn(s, "addJob")
           ELSE /\ Write(b, "FLAGGED_FOR_REVIEW", c, w)
                /\ Finish(s)
        /\ UNCHANGED <<lot, job, approved, booked>>

\* The job carries the center that weighed and what it weighed.
AddJob(s) ==
    /\ At(s, "addJob")
    /\ job' = Enqueue(session[s].id, session[s].center, session[s].kg)
    /\ Finish(s)
    /\ UNCHANGED <<batch, lot, approved, booked>>

\* approveFlaggedBatch: the job carries what the row holds when it is written.
ReadForApproval(s, b) ==
    /\ Is(b, "FLAGGED_FOR_REVIEW")
    /\ Begin(s, "approve", Step("approve", b, None, 0, None))
    /\ UNCHANGED batchVars

WriteApproval(s) ==
    /\ At(s, "approve")
    /\ LET b == session[s].id
       IN /\ Write(b, "PROCESSING", batch[b].center, batch[b].kg)
          /\ approved' = approved \cup {b}
          /\ session' = [session EXCEPT ![s] =
                           Step("addJob", b, batch[b].center, batch[b].kg, None)]
    /\ UNCHANGED <<lot, job, booked>>

-----------------------------------------------------------------------------
(* Dispute, arbitration and cash. *)

ReadForDispute(s, b) ==
    /\ Is(b, "FLAGGED_FOR_REVIEW")
    /\ ValidTransition(batch[b].status, "DISPUTED")
    /\ Begin(s, "dispute", Step("dispute", b, None, 0, None))
    /\ UNCHANGED batchVars

WriteDispute(s) ==
    /\ At(s, "dispute")
    /\ LET b == session[s].id IN Write(b, "DISPUTED", batch[b].center, batch[b].kg)
    /\ Finish(s)
    /\ UNCHANGED <<lot, job, approved, booked>>

\* resolveDispute writes the adjusted weight, or else the one it read.
ReadForResolution(s, b, w) ==
    /\ Is(b, "DISPUTED")
    /\ Begin(s, "resolve", Step("resolve", b, None, w, None))
    /\ UNCHANGED batchVars

WriteResolution(s) ==
    /\ At(s, "resolve")
    /\ LET b == session[s].id IN Write(b, "RECEIVED", batch[b].center, session[s].kg)
    /\ Finish(s)
    /\ UNCHANGED <<lot, job, approved, booked>>

\* fiatSettlement
ReadForCash(s, b) ==
    /\ batch[b].status \in {"RECEIVED", "CONSOLIDATED"}
    /\ ~batch[b].fiat
    /\ Begin(s, "fiat", Step("fiat", b, batch[b].center, 0, None))
    /\ UNCHANGED batchVars

WriteCash(s) ==
    /\ At(s, "fiat")
    /\ batch' = [batch EXCEPT ![session[s].id].fiat = TRUE]
    /\ Finish(s)
    /\ UNCHANGED <<lot, job, approved, booked>>

-----------------------------------------------------------------------------
(* Consolidation: the composite adds the weights up before the transaction. *)

TotalWeight(bs) == MapThenSumSet(LAMBDA b : batch[b].kg, bs)

ReadForLot(s, c, bs) ==
    /\ bs # {}
    /\ \A b \in bs : Is(b, "RECEIVED") /\ batch[b].center = c
    /\ Begin(s, "consolidate", Step("consolidate", None, c, TotalWeight(bs), bs))
    /\ UNCHANGED batchVars

WriteLot(s, l) ==
    /\ At(s, "consolidate")
    /\ lot[l].status = "NONE"
    /\ lot' = [lot EXCEPT ![l] = [status |-> "PENDING_SALE", center |-> session[s].center,
                                  total |-> session[s].kg]]
    /\ batch' = [b \in Batches |->
                   IF b \in session[s].seen
                   THEN [batch[b] EXCEPT !.status = "CONSOLIDATED", !.lot = l]
                   ELSE batch[b]]
    /\ Finish(s)
    /\ UNCHANGED <<job, approved, booked>>

-----------------------------------------------------------------------------
(* processBatchBlockchain. *)

Move(b, state) == job' = [job EXCEPT ![b].state = state]

\* The row is loaded; when that fails the worker goes on with the center of the job.
TakeJob(b) ==
    /\ job[b].state = "waiting"
    /\ \E c \in {job[b].center, batch[b].center} :
          job' = [job EXCEPT ![b].state = "active", ![b].center = c]
    /\ UNCHANGED <<batch, lot, approved, booked, inventoryVars>>

\* Variant of JobWeight that takes the weight from the row.
RowWeight(b) == batch[b].kg

\* effectiveMaterials: what the job carries.
JobWeight(b) == job[b].kg

\* The manifest is uploaded and notarized, then one transaction writes the row and
\* the inventory.
StoreBatch(b) ==
    LET c == job[b].center
        w == JobWeight(b)
    IN  /\ job[b].state = "active"
        /\ Unlocked(c)
        /\ batch' = [batch EXCEPT ![b].status = "RECEIVED"]
        /\ Book(c, w, 0)
        /\ booked' = [booked EXCEPT ![b] = Append(@, w)]
        /\ Move(b, "stored")
        /\ UNCHANGED <<lot, approved, session, overrun, crashes>>

\* Variant of Exhausted that grants one attempt more.
ExhaustedLate(n) == n > MaxAttempts

Exhausted(n) == n >= MaxAttempts

\* The upload, the notarization or the transaction fails; onFailed moves a job
\* without attempts left to the dead letter queue.
AttemptFails(b) ==
    /\ job[b].state = "active"
    /\ LET n == job[b].attempts + 1
       IN job' = [job EXCEPT ![b].attempts = n,
                             ![b].state = IF Exhausted(n) THEN "failed" ELSE "waiting"]
    /\ UNCHANGED <<batch, lot, approved, booked, inventoryVars>>

AckJob(b) ==
    /\ job[b].state = "stored"
    /\ Move(b, "done")
    /\ UNCHANGED <<batch, lot, approved, booked, inventoryVars>>

\* Variant of AfterStall that drops a job that stalled too often.
AfterStallDropped(b) ==
    IF job[b].stalls < MaxStalls
    THEN [job EXCEPT ![b].stalls = @ + 1, ![b].state = "waiting"]
    ELSE [job EXCEPT ![b].state = "none"]

AfterStall(b) ==
    IF job[b].stalls < MaxStalls
    THEN [job EXCEPT ![b].stalls = @ + 1, ![b].state = "waiting"]
    ELSE [job EXCEPT ![b].state = "failed"]

\* The worker dies: the queue finds the job stalled and gives it to another one.
WorkerDies(b) ==
    /\ job[b].state \in {"active", "stored"}
    /\ job' = AfterStall(b)
    /\ UNCHANGED <<batch, lot, approved, booked, inventoryVars>>

Worker(b) == TakeJob(b) \/ StoreBatch(b) \/ AttemptFails(b) \/ AckJob(b)

Endpoint ==
    /\ \/ \E s \in Sessions, b \in Batches, c \in Centers :
             ReadForDispatch(s, b, c) \/ ReadForReroute(s, b, c)
       \/ \E s \in Sessions, b \in Batches, w \in Weights :
             \/ \E waste \in BOOLEAN : ReadForReceive(s, b, w, waste)
             \/ ReadForResolution(s, b, w)
       \/ \E s \in Sessions, b \in Batches :
             ReadForApproval(s, b) \/ ReadForDispute(s, b) \/ ReadForCash(s, b)
                \/ ReadForResolution(s, b, batch[b].kg)
       \/ \E s \in Sessions, c \in Centers, bs \in SUBSET Batches : ReadForLot(s, c, bs)
       \/ \E s \in Sessions :
             \/ WriteDispatch(s) \/ WriteReroute(s) \/ WriteReceive(s) \/ AddJob(s)
             \/ WriteApproval(s) \/ WriteDispute(s) \/ WriteResolution(s) \/ WriteCash(s)
             \/ \E l \in Lots : WriteLot(s, l)
    /\ UNCHANGED <<bookVars, overrun, crashes>>

BatchesNext ==
    \/ Endpoint
    \/ \E b \in Batches : Worker(b) \/ WorkerDies(b)

-----------------------------------------------------------------------------
\* "Retenido en FLAGGED_FOR_REVIEW sin minteo automatico": a weight outside the
\* tolerance never reaches the stock of a center unless somebody approved the batch,
\* although weighings of one batch overlap and write over each other.
ToleratedOrApproved ==
    \A b \in Batches : \A i \in DOMAIN booked[b] :
        Tolerated(b, booked[b][i]) \/ b \in approved

\* Double weighings, double approvals and failed attempts never book a batch in
\* twice; only a worker that died after its transaction does, once per death.
BookedOnce == \A b \in Batches : Len(booked[b]) <= 1 + job[b].stalls

\* A batch the queue took is booked in, or ends among the failed jobs.
JobEnds ==
    \A b \in Batches : job[b].state = "waiting" ~> job[b].state \in {"done", "failed"}

=============================================================================
