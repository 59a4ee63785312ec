--------------------------- MODULE StorePayments ---------------------------
(***************************************************************************)
(* Payments with tokens in the allied stores: the redemptions a store      *)
(* opens with a QR code and a buyer confirms, their refunds, the           *)
(* settlements that turn a store's tokens into money, and the jobs of      *)
(* blockchain-queue that move the tokens on chain for all three.           *)
(*                                                                         *)
(* An endpoint leaves a continuation in a session at every await at which  *)
(* other requests can change what it read.  confirmRedemption is the only  *)
(* one that locks: it holds the buyer's and the redemption's row from      *)
(* ConfirmLock to the end of its transaction.  The rows are committed      *)
(* first and the job is added afterwards.  A job runs at least once: an    *)
(* attempt whose outcome the worker does not learn is tried again.         *)
(***************************************************************************)
EXTENDS Integers, FiniteSets, FiniteSetsExt

CONSTANTS
    Redemptions, Settlements, \* row identities the database can hand out
    Buyers, Stores,           \* users, each with a wallet and a vault entry
    Treasury,                 \* address that receives settled tokens
    None,                     \* a NULL column
    Sessions,                 \* handlers that can be in flight at once
    Calls,                    \* endpoints the clients call
    Amounts,                  \* amounts asked for, in half tokens
    Extras,                   \* donation (2) and insurance (1) added by a buyer
    Start,                    \* on-chain balance at the start: [Buyers \cup Stores -> Nat]
    Earned,                   \* rewards of a buyer in the database: [Buyers -> Nat]
    MaxAttempts,              \* attempts of a job (3 and 5 in the code)
    Concurrency,              \* jobs worked on at once (5 in the code)
    MaxOrders                 \* bound on the jobs of one kind for one row

AllCalls == {"qr", "confirm", "refund", "request", "approve", "pay", "reject"}

ASSUME RowsApart ==
    /\ Redemptions \cap Settlements = {}
    /\ Buyers \cap Stores = {}
    /\ Treasury \notin Buyers \cup Stores
    /\ None \notin Redemptions \cup Settlements \cup Buyers \cup Stores \cup {Treasury}
ASSUME ParametersOK ==
    /\ Calls \subseteq AllCalls
    /\ Amounts \subseteq Nat \ {0}
    /\ Extras \subseteq {0, 1, 2, 3}
    /\ Start \in [Buyers \cup Stores -> Nat]
    /\ Earned \in [Buyers -> Nat]
    /\ MaxAttempts \in Nat \ {0}
    /\ Concurrency \in Nat \ {0}
    /\ MaxOrders \in Nat \ {0}
ASSUME RowsFinite == IsFiniteSet(Redemptions)

VARIABLES
    red,     \* redemption_transactions
    settle,  \* settlement_requests
    session, \* continuation of every handler in flight
    job,     \* blockchain-queue: jobs by kind, row and copy
    chain,   \* token balance of an address in the contract
    seq,     \* next nonce (buyers) or sequence number (stores) the chain accepts
    mempool, \* transactions sent and not yet in a ledger
    ledger,  \* transactions the chain applied
    lost     \* rows whose handler ended between the commit and the job

rowVars == <<red, settle>>
chainVars == <<chain, seq, mempool, ledger>>
vars == <<red, settle, session, job, chain, seq, mempool, ledger, lost>>

-----------------------------------------------------------------------------
(* Rows, jobs and continuations. *)

Accounts == Buyers \cup Stores \cup {Treasury}

RedemptionStatus == {"NONE", "PENDING", "COMPLETED", "EXPIRED", "REFUNDED"}
SettlementStatus == {"NONE", "PENDING", "APPROVED_PENDING_PAYMENT", "PAID", "REJECTED"}

\* age is 1 after 15 minutes and 2 after 24 hours since createdAt; hash tells
\* which transfer's hash the column txHash holds.
RedemptionRow == [status: RedemptionStatus, store: Stores \cup {None},
                  user: Buyers \cup {None}, amount: Nat, age: 0..2,
                  hash: {"none", "sale", "refund"}]
SettlementRow == [status: SettlementStatus, store: Stores \cup {None}, amount: Nat]

\* A job is known by its kind, the row it is for and a copy number: the code
\* gives jobs no id of their own, so one row can have several.
Jobs == ({"sale", "refund"} \X Redemptions \X (1..MaxOrders))
            \cup ({"settlement"} \X Settlements \X (1..MaxOrders))
JobState == {"none", "waiting", "active", "polling", "confirmed", "done", "failed"}
JobRow == [state: JobState, from: Accounts \cup {None}, to: Accounts \cup {None},
           amount: Nat, attempts: 0..MaxAttempts,
           stalled: BOOLEAN, seq: Nat]
Transaction == [job: Jobs, seq: Nat]

Kinds == {"idle", "lock", "balance", "commit", "addSale", "refundCheck", "refundWrite",
          "addRefund", "settleSum", "settleCreate", "approve", "reject", "pay", "addPay"}
SessionState == [kind: Kinds, row: Redemptions \cup Settlements \cup {None},
                 user: Buyers \cup Stores \cup {None}, amount: Nat, seen: Nat]

NoRedemption == [status |-> "NONE", store |-> None, user |-> None, amount |-> 0,
                 age |-> 0, hash |-> "none"]
NoSettlement == [status |-> "NONE", store |-> None, amount |-> 0]
NoJob == [state |-> "none", from |-> None, to |-> None, amount |-> 0,
          attempts |-> 0, stalled |-> FALSE, seq |-> 0]
Idle == [kind |-> "idle", row |-> None, user |-> None, amount |-> 0, seen |-> 0]

Call(k, row, user, amount) ==
    [kind |-> k, row |-> row, user |-> user, amount |-> amount, seen |-> 0]
Begin(s, endpoint, c) ==
    /\ endpoint \in Calls
    /\ session[s].kind = "idle"
    /\ session' = [session EXCEPT ![s] = c]
Running(s, k) == session[s].kind = k
GoOn(s, k) == session' = [session EXCEPT ![s].kind = k]
Finish(s) == session' = [session EXCEPT ![s] = Idle]

TypeOK ==
    /\ red \in [Redemptions -> RedemptionRow]
    /\ settle \in [Settlements -> SettlementRow]
    /\ session \in [Sessions -> SessionState]
    /\ job \in [Jobs -> JobRow]
    /\ chain \in [Accounts -> Nat] \* no account is ever overdrawn
    /\ seq \in [Accounts -> Nat]
    /\ mempool \subseteq Transaction
    /\ ledger \subseteq Transaction
    /\ lost \subseteq Redemptions \cup Settlements

Init ==
    /\ red = [r \in Redemptions |-> NoRedemption]
    /\ settle = [x \in Settlements |-> NoSettlement]
    /\ session = [s \in Sessions |-> Idle]
    /\ job = [j \in Jobs |-> NoJob]
    /\ chain = [a \in Accounts |-> IF a = Treasury THEN 0 ELSE Start[a]]
    /\ seq = [a \in Accounts |-> 0]
    /\ mempool = {}
    /\ ledger = {}
    /\ lost = {}

-----------------------------------------------------------------------------
(* WalletsService.getBalance: the balance on chain less all the user ever   *)
(* spent; with a balance of zero, or when the chain does not answer, the    *)
(* rewards or sales in the database less what was spent.                    *)

Total(rows, amount(_)) == MapThenSumSet(amount, rows)
Price(r) == red[r].amount
Floor(n) == IF n < 0 THEN 0 ELSE n

Completed(r) == red[r].status = "COMPLETED"
Sold(st) == Total({r \in Redemptions : Completed(r) /\ red[r].store = st}, Price)

Spent(u) == Total({r \in Redemptions : Completed(r) /\ red[r].user = u}, Price)

OffChain(u) == IF u \in Stores THEN Sold(u) ELSE Earned[u]

\* What BlockchainService.getBalance returns: an error reads as zero.
OnChainReads(u) == {chain[u], 0}

Balance(u, onChain, spent) ==
    Floor((IF onChain > 0 THEN onChain ELSE OffChain(u)) - spent)

-----------------------------------------------------------------------------
(* Redemptions. *)

\* generateQrRedemption
GenerateQr(st, r, a) ==
    /\ "qr" \in Calls
    /\ red[r].status = "NONE"
    /\ red' = [red EXCEPT ![r] = [NoRedemption EXCEPT !.status = "PENDING", !.store = st,
                                                      !.amount = a]]
    /\ UNCHANGED <<settle, session, job, chainVars, lost>>

\* confirmRedemption, before its transaction.
ConfirmRedemption(s, u, r, extra) ==
    /\ red[r].status = "PENDING"
    /\ Begin(s, "confirm", Call("lock", r, u, red[r].amount + extra))
    /\ UNCHANGED <<rowVars, job, chainVars, lost>>

\* The sessions that hold row locks.
InTransaction == {s \in Sessions : session[s].kind \in {"balance", "commit"}}

\* Variant of LocksFree that locks the redemption and not the buyer.
RowLockFree(u, r) == \A t \in InTransaction : session[t].row # r

\* Variant of LocksFree that locks the buyer and not the redemption.
BuyerLockFree(u, r) == \A t \in InTransaction : session[t].user # u

LocksFree(u, r) == \A t \in InTransaction : session[t].user # u /\ session[t].row # r

\* Variant of StillPending that trusts the check made before the transaction.
OnceSeenPending(r) == TRUE

\* SELECT ... WHERE status = 'PENDING' FOR UPDATE
StillPending(r) == red[r].status = "PENDING"

\* Both SELECT ... FOR UPDATE, and the sum of what the buyer spent.
ConfirmLock(s) ==
    /\ Running(s, "lock")
    /\ LocksFree(session[s].user, session[s].row)
    /\ IF StillPending(session[s].row)
       THEN session' = [session EXCEPT ![s].kind = "balance",
                                       ![s].seen = Spent(session[s].user)]
       ELSE Finish(s)
    /\ UNCHANGED <<rowVars, job, chainVars, lost>>

ConfirmBalance(s) ==
    /\ Running(s, "balance")
    /\ \E onChain \in OnChainReads(session[s].user) :
         IF Balance(session[s].user, onChain, session[s].seen) >= session[s].amount
         THEN GoOn(s, "commit")
         ELSE Finish(s)
    /\ UNCHANGED <<rowVars, job, chainVars, lost>>

\* The UPDATE and the commit.  No row of accounts exists, so its debit is void.
ConfirmCommit(s) ==
    /\ Running(s, "commit")
    /\ red' = [red EXCEPT ![session[s].row] =
                 [@ EXCEPT !.status = "COMPLETED", !.user = session[s].user,
                           !.amount = session[s].amount]]
    /\ GoOn(s, "addSale")
    /\ UNCHANGED <<settle, job, chainVars, lost>>

\* blockchainQueue.add
Add(kind, row, from, to, amount) ==
    \E n \in 1..MaxOrders :
        /\ job[<<kind, row, n>>].state = "none"
        /\ \A m \in 1..(n - 1) : job[<<kind, row, m>>].state # "none"
        /\ job' = [job EXCEPT ![<<kind, row, n>>] =
                     [NoJob EXCEPT !.state = "waiting", !.from = from, !.to = to,
                                   !.amount = amount]]

AddSale(s) ==
    /\ Running(s, "addSale")
    /\ LET r == session[s].row
       IN Add("sale", r, session[s].user, red[r].store, session[s].amount)
    /\ Finish(s)
    /\ UNCHANGED <<rowVars, chainVars, lost>>

\* refundRedemption: status and age are read first, the store's balance later,
\* and the write is by id alone.
RefundRedemption(s, r) ==
    /\ red[r].status = "COMPLETED"
    /\ red[r].age < 2
    /\ Begin(s, "refund", Call("refundCheck", r, red[r].user, red[r].amount))
    /\ UNCHANGED <<rowVars, job, chainVars, lost>>

RefundCheck(s) ==
    /\ Running(s, "refundCheck")
    /\ LET st == red[session[s].row].store
       IN \E onChain \in OnChainReads(st) :
            IF Balance(st, onChain, 0) >= session[s].amount
            THEN GoOn(s, "refundWrite")
            ELSE Finish(s)
    /\ UNCHANGED <<rowVars, job, chainVars, lost>>

RefundWrite(s) ==
    /\ Running(s, "refundWrite")
    /\ red' = [red EXCEPT ![session[s].row].status = "REFUNDED"]
    /\ GoOn(s, "addRefund")
    /\ UNCHANGED <<settle, job, chainVars, lost>>

AddRefund(s) ==
    /\ Running(s, "addRefund")
    /\ LET r == session[s].row
       IN Add("refund", r, red[r].store, session[s].user, red[r].amount)
    /\ Finish(s)
    /\ UNCHANGED <<rowVars, chainVars, lost>>

\* Variant of Expirable that looks at the age alone.
OldEnough(r) == red[r].status # "NONE" /\ red[r].age >= 1

Expirable(r) == red[r].status = "PENDING" /\ red[r].age >= 1

\* RedemptionExpirationWorker: one UPDATE, which waits for rows that are locked
\* and looks at them again when they are free.
ExpirePending ==
    /\ \E r \in Redemptions : Expirable(r)
    /\ \A s \in InTransaction : ~Expirable(session[s].row)
    /\ red' = [r \in Redemptions |->
                 IF Expirable(r) THEN [red[r] EXCEPT !.status = "EXPIRED"] ELSE red[r]]
    /\ UNCHANGED <<settle, session, job, chainVars, lost>>

\* The clock passes 15 minutes, then 24 hours, after createdAt.
Age(r) ==
    /\ red[r].status \in {"PENDING", "COMPLETED"}
    /\ red[r].age < 2
    /\ red' = [red EXCEPT ![r].age = @ + 1]
    /\ UNCHANGED <<settle, session, job, chainVars, lost>>

-----------------------------------------------------------------------------
(* Settlements. *)

Asked(x) == settle[x].amount
Held(st) == Total({x \in Settlements : /\ settle[x].status = "PENDING"
                                       /\ settle[x].store = st}, Asked)

\* requestSettlement: the balance, then the sum of the PENDING ones, then the
\* new row; nothing is locked.
RequestSettlement(s, st, a) ==
    /\ \E onChain \in OnChainReads(st) :
         Begin(s, "request", [Call("settleSum", None, st, a) EXCEPT
                                 !.seen = Balance(st, onChain, 0)])
    /\ UNCHANGED <<rowVars, job, chainVars, lost>>

RequestCheck(s) ==
    /\ Running(s, "settleSum")
    /\ IF Floor(session[s].seen - Held(session[s].user)) >= session[s].amount
       THEN GoOn(s, "settleCreate")
       ELSE Finish(s)
    /\ UNCHANGED <<rowVars, job, chainVars, lost>>

RequestCreate(s, x) ==
    /\ Running(s, "settleCreate")
    /\ settle[x].status = "NONE"
    /\ settle' = [settle EXCEPT ![x] = [status |-> "PENDING", store |-> session[s].user,
                                        amount |-> session[s].amount]]
    /\ Finish(s)
    /\ UNCHANGED <<red, job, chainVars, lost>>

Payable(x) == settle[x].status \in {"PENDING", "APPROVED_PENDING_PAYMENT"}

\* updateSettlementStatus: APPROVED_PENDING_PAYMENT, REJECTED, and PAID, which is
\* paySettlement.  Each checks the status it read and writes by id alone.
ApproveSettlement(s, x) ==
    /\ settle[x].status = "PENDING"
    /\ Begin(s, "approve", Call("approve", x, None, 0))
    /\ UNCHANGED <<rowVars, job, chainVars, lost>>

ApproveWrite(s) ==
    /\ Running(s, "approve")
    /\ settle' = [settle EXCEPT ![session[s].row].status = "APPROVED_PENDING_PAYMENT"]
    /\ Finish(s)
    /\ UNCHANGED <<red, job, chainVars, lost>>

RejectSettlement(s, x) ==
    /\ Payable(x)
    /\ Begin(s, "reject", Call("reject", x, None, 0))
    /\ UNCHANGED <<rowVars, job, chainVars, lost>>

RejectWrite(s) ==
    /\ Running(s, "reject")
    /\ settle' = [settle EXCEPT ![session[s].row].status = "REJECTED"]
    /\ Finish(s)
    /\ UNCHANGED <<red, job, chainVars, lost>>

PaySettlement(s, x) ==
    /\ Payable(x)
    /\ Begin(s, "pay", Call("pay", x, settle[x].store, settle[x].amount))
    /\ UNCHANGED <<rowVars, job, chainVars, lost>>

\* Variant of PayWrite in which the status endpoint writes PAID like the others.
PayWriteOnly(s) ==
    /\ Running(s, "pay")
    /\ settle' = [settle EXCEPT ![session[s].row].status = "PAID"]
    /\ Finish(s)
    /\ UNCHANGED <<red, job, chainVars, lost>>

PayWrite(s) ==
    /\ Running(s, "pay")
    /\ settle' = [settle EXCEPT ![session[s].row].status = "PAID"]
    /\ GoOn(s, "addPay")
    /\ UNCHANGED <<red, job, chainVars, lost>>

AddPay(s) ==
    /\ Running(s, "addPay")
    /\ Add("settlement", session[s].row, session[s].user, Treasury, session[s].amount)
    /\ Finish(s)
    /\ UNCHANGED <<rowVars, chainVars, lost>>

\* The process dies, the transaction runs into its timeout or a call fails: the
\* handler ends where it is, its locks go, and what it committed stays.
HandlerEnds(s) ==
    /\ session[s].kind # "idle"
    /\ lost' = IF session[s].kind \in {"addSale", "addRefund", "addPay"}
               THEN lost \cup {session[s].row} ELSE lost
    /\ Finish(s)
    /\ UNCHANGED <<rowVars, job, chainVars>>

-----------------------------------------------------------------------------
(* The jobs of blockchain-queue.  An attempt reads the sender's nonce or     *)
(* sequence number, sends a transaction and polls for it.                   *)

SetJob(j, state) == job' = [job EXCEPT ![j].state = state]

\* Variant of NextState that loses count of the attempts.
NextStateForever(j) == "waiting"

\* BullMQ after an attempt failed: again, or to the dead-letter queue.
NextState(j) == IF job[j].attempts + 1 < MaxAttempts THEN "waiting" ELSE "failed"

FailAttempt(j) ==
    job' = [job EXCEPT ![j].state = NextState(j), ![j].seq = 0,
                       ![j].attempts = IF @ < MaxAttempts THEN @ + 1 ELSE @]

InWork == {j \in Jobs : job[j].state \in {"active", "polling", "confirmed"}}

StartAttempt(j) ==
    /\ job[j].state = "waiting"
    /\ Cardinality(InWork) < Concurrency
    /\ job' = [job EXCEPT ![j].state = "active", ![j].seq = seq[job[j].from]]
    /\ UNCHANGED <<rowVars, session, chainVars, lost>>

\* Variant of Funded: the contract does not look at the balance.
FundedOrNot(j) == TRUE

\* internal_transfer panics when the sender's balance is below the amount.
Funded(j) == job[j].amount <= chain[job[j].from]

\* The simulation accepts the transaction, and it is sent.
Send(j) ==
    /\ job[j].state = "active"
    /\ job[j].seq = seq[job[j].from]
    /\ Funded(j)
    /\ SetJob(j, "polling")
    /\ mempool' = mempool \cup {[job |-> j, seq |-> job[j].seq]}
    /\ UNCHANGED <<rowVars, session, chain, seq, ledger, lost>>

\* Variant of Confirms that takes a transaction for good once it was sent.
ConfirmsWhenSent(j) == TRUE

\* getTransaction answers SUCCESS.
Confirms(j) == [job |-> j, seq |-> job[j].seq] \in ledger

PollSuccess(j) ==
    /\ job[j].state = "polling"
    /\ Confirms(j)
    /\ job' = [job EXCEPT ![j].state = "confirmed", ![j].seq = 0]
    /\ UNCHANGED <<rowVars, session, chainVars, lost>>

\* The last writes of a job: the hash of a redemption's transfer.
Save(j) ==
    /\ job[j].state = "confirmed"
    /\ SetJob(j, "done")
    /\ red' = IF j[1] = "settlement" THEN red ELSE [red EXCEPT ![j[2]].hash = j[1]]
    /\ UNCHANGED <<settle, session, chainVars, lost>>

\* The attempt throws: the simulation or the sending fails, the polling gives up
\* after 30 seconds, or the hash cannot be saved.  What was sent stays sent.
AttemptFails(j) ==
    /\ j \in InWork
    /\ FailAttempt(j)
    /\ UNCHANGED <<rowVars, session, chainVars, lost>>

\* The worker dies: BullMQ hands the stalled job to another one, once.
JobStalls(j) ==
    /\ j \in InWork
    /\ job' = [job EXCEPT ![j].state = IF job[j].stalled THEN "failed" ELSE "waiting",
                          ![j].stalled = TRUE, ![j].seq = 0]
    /\ UNCHANGED <<rowVars, session, chainVars, lost>>

\* The contract's transfer and transfer_delegated: the sequence number or nonce is
\* used up and the tokens move.
Apply(t) ==
    LET from == job[t.job].from
        to == job[t.job].to
    IN /\ t.seq = seq[from]
       /\ Funded(t.job)
       /\ chain' = [chain EXCEPT ![from] = @ - job[t.job].amount,
                                 ![to] = @ + job[t.job].amount]
       /\ seq' = [seq EXCEPT ![from] = @ + 1]
       /\ mempool' = mempool \ {t}
       /\ ledger' = ledger \cup {t}
       /\ UNCHANGED <<rowVars, session, job, lost>>

\* The chain drops a transaction that is outdated or expired.
Drop(t) ==
    /\ mempool' = mempool \ {t}
    /\ UNCHANGED <<rowVars, session, job, chain, seq, ledger, lost>>

-----------------------------------------------------------------------------
RedemptionStep ==
    \/ \E st \in Stores, r \in Redemptions, a \in Amounts : GenerateQr(st, r, a)
    \/ \E s \in Sessions, u \in Buyers, r \in Redemptions, extra \in Extras :
          ConfirmRedemption(s, u, r, extra)
    \/ \E s \in Sessions, r \in Redemptions : RefundRedemption(s, r)
    \/ \E s \in Sessions : \/ ConfirmLock(s) \/ ConfirmBalance(s) \/ ConfirmCommit(s)
                           \/ AddSale(s)
                           \/ RefundCheck(s) \/ RefundWrite(s) \/ AddRefund(s)
    \/ ExpirePending
    \/ \E r \in Redemptions : Age(r)

SettlementStep ==
    \/ \E s \in Sessions, st \in Stores, a \in Amounts : RequestSettlement(s, st, a)
    \/ \E s \in Sessions, x \in Settlements :
          \/ RequestCreate(s, x)
          \/ ApproveSettlement(s, x) \/ RejectSettlement(s, x) \/ PaySettlement(s, x)
    \/ \E s \in Sessions : \/ RequestCheck(s) \/ ApproveWrite(s) \/ RejectWrite(s)
                           \/ PayWrite(s) \/ AddPay(s)

JobStep(j) == StartAttempt(j) \/ Send(j) \/ PollSuccess(j) \/ Save(j) \/ AttemptFails(j)

Next ==
    \/ RedemptionStep
    \/ SettlementStep
    \/ \E s \in Sessions : HandlerEnds(s)
    \/ \E j \in Jobs : JobStep(j) \/ JobStalls(j)
    \/ \E t \in mempool : Apply(t) \/ Drop(t)

Spec == Init /\ [][Next]_vars

\* A handler that has committed a redemption goes on, and workers take the jobs.
Fairness ==
    /\ \A s \in Sessions : WF_vars(AddSale(s))
    /\ \A j \in Jobs : WF_vars(JobStep(j))

FairSpec == Spec /\ Fairness

-----------------------------------------------------------------------------
(* Properties. *)

Landed(kind, r) == {t \in ledger : t.job[1] = kind /\ t.job[2] = r}
Orders(kind, r) == {n \in 1..MaxOrders : job[<<kind, r, n>>].state # "none"}

\* confirmRedemption: however many buyers scan a code while it expires, a code is
\* charged to one of them.  There is at most one transfer order for it, and none
\* while it is PENDING or EXPIRED; the order takes the amount on the row from the
\* buyer on the row, for the store that opened the code.  Refund orders exist for
\* REFUNDED codes only and give that same amount back to that same buyer.
ChargedOnce ==
    \A r \in Redemptions :
        /\ Cardinality(Orders("sale", r)) <= 1
        /\ Orders("sale", r) # {} => red[r].status \in {"COMPLETED", "REFUNDED"}
        /\ Orders("refund", r) # {} => red[r].status = "REFUNDED"
        /\ \A n \in Orders("sale", r) :
              LET o == job[<<"sale", r, n>>]
              IN o.from = red[r].user /\ o.to = red[r].store /\ o.amount = red[r].amount
        /\ \A n \in Orders("refund", r) :
              LET o == job[<<"refund", r, n>>]
              IN o.from = red[r].store /\ o.to = red[r].user /\ o.amount = red[r].amount

Refunded(u) == \E r \in Redemptions : red[r].user = u /\ red[r].status = "REFUNDED"
ChargedAgain(u) ==
    \E r \in Redemptions : red[r].user = u /\ Cardinality(Landed("sale", r)) > 1
Owed(u) ==
    Total({r \in Redemptions : /\ Completed(r) /\ red[r].user = u
                               /\ Landed("sale", r) = {}}, Price)

\* What a buyer has to spend: the tokens on chain, or what the database counts, if
\* that is more and a balance of zero or a chain that does not answer brings it up.
Means(u) == IF Earned[u] > Start[u] THEN Earned[u] ELSE Start[u]
Unminted(u) == Means(u) - Start[u]

\* confirmRedemption locks the buyer and counts what the buyer has spent, so that
\* purchases at several tills at once cannot be confirmed on the same tokens: what
\* a buyer has confirmed and not yet handed over is on the buyer's account on
\* chain, except for what the database counts and the chain never received.  A
\* refund, which makes the spent tokens available before they are back, or a
\* transfer the worker repeated, can break this.
BuyerSolvent ==
    \A u \in Buyers : ~Refunded(u) /\ ~ChargedAgain(u) => Owed(u) <= chain[u] + Unminted(u)

\* blockchain.processor: the hash a redemption shows is that of a transfer the
\* chain has applied, whatever was retried, lost or sent twice before.
HashIsProof ==
    \A r \in Redemptions : red[r].hash # "none" => Landed(red[r].hash, r) # {}

\* paySettlement: a settlement shown as PAID has an order to collect its tokens, or
\* its handler is about to add one, or ended before it could.  Whatever becomes of
\* the settlement, its orders take the amount on the row from its store.
PaidIsOrdered ==
    \A x \in Settlements :
        /\ settle[x].status = "PAID" =>
              \/ Orders("settlement", x) # {}
              \/ x \in lost
              \/ \E s \in Sessions : Running(s, "addPay") /\ session[s].row = x
        /\ \A n \in Orders("settlement", x) :
              LET o == job[<<"settlement", x, n>>]
              IN /\ settle[x].status # "PENDING"
                 /\ o.from = settle[x].store /\ o.to = Treasury
                 /\ o.amount = settle[x].amount

\* How a redemption may change from one state to the next.
MayBecome(old, new) ==
    /\ new.status # old.status =>
          <<old.status, new.status>> \in
              {<<"NONE", "PENDING">>, <<"PENDING", "EXPIRED">>,
               <<"PENDING", "COMPLETED">>, <<"COMPLETED", "REFUNDED">>}
    /\ old.status \in {"COMPLETED", "REFUNDED"} =>
          <<new.user, new.store, new.amount>> = <<old.user, old.store, old.amount>>

\* A code moves from PENDING to EXPIRED, or to COMPLETED and from there to REFUNDED
\* and nowhere else, although the expiry, the refunds and the confirmations all
\* write by themselves; buyer, store and amount of a sale never change.
SaleIsFinal == [][\A r \in Redemptions : MayBecome(red[r], red'[r])]_vars

\* A confirmed redemption is not forgotten: its transfer is carried out or ends
\* among the failed jobs an administrator sees, unless the handler ended between
\* the commit of the redemption and blockchainQueue.add.
SaleIsProcessed ==
    \A r \in Redemptions :
        red[r].status = "COMPLETED" ~>
            \/ r \in lost
            \/ \E n \in 1..MaxOrders : job[<<"sale", r, n>>].state \in {"done", "failed"}

PaidOut(st) == Total({x \in Settlements : settle[x].status = "PAID" /\ settle[x].store = st},
                     Asked)

\* requestSettlement checks the tokens a store has to settle: without refunds, a
\* store is never paid for more tokens than it had at first and took in sales.
PaidForSales ==
    \A st \in Stores :
        (\A r \in Redemptions : red[r].status # "REFUNDED") =>
            PaidOut(st) <= Start[st] + Sold(st)

-----------------------------------------------------------------------------
(* The inductive invariant of the proofs.  What Total adds up is left out of *)
(* it: the amounts in seen decide whether a step is taken, never its effect. *)

Charged(r) == red[r].status \in {"COMPLETED", "REFUNDED"}

SessionTyped(c) ==
    c \in [kind: Kinds, row: Redemptions \cup Settlements \cup {None},
          user: Buyers \cup Stores \cup {None}, amount: Nat, seen: {c.seen}]

Typed ==
    /\ red \in [Redemptions -> RedemptionRow]
    /\ settle \in [Settlements -> SettlementRow]
    /\ session = [s \in Sessions |-> session[s]]
    /\ \A s \in Sessions : SessionTyped(session[s])
    /\ job \in [Jobs -> JobRow]
    /\ chain \in [Accounts -> Nat]
    /\ seq \in [Accounts -> Nat]
    /\ mempool \subseteq Transaction
    /\ ledger \subseteq Transaction
    /\ lost \subseteq Redemptions \cup Settlements

RowFacts ==
    /\ \A r \in Redemptions : /\ red[r].status = "NONE" => red[r].hash = "none"
                              /\ red[r].status # "NONE" => red[r].store \in Stores
                              /\ Charged(r) => red[r].user \in Buyers
    /\ \A x \in Settlements :
          /\ settle[x].status = "NONE" => settle[x].store = None
          /\ settle[x].status # "NONE" => settle[x].store \in Stores

\* What a continuation relies on: the rows it read are no longer taken back.
SessionOK(c) ==
    /\ c.kind \in {"lock", "balance", "commit"} => c.row \in Redemptions /\ c.user \in Buyers
    /\ c.kind \in {"addSale", "refundCheck", "refundWrite", "addRefund"} =>
          c.row \in Redemptions /\ Charged(c.row) /\ red[c.row].user = c.user
    /\ c.kind = "addSale" => red[c.row].amount = c.amount
    /\ c.kind = "addRefund" => red[c.row].status = "REFUNDED"
    /\ c.kind \in {"settleSum", "settleCreate"} => c.user \in Stores
    /\ c.kind \in {"approve", "reject", "pay", "addPay"} =>
          c.row \in Settlements /\ settle[c.row].status # "NONE"
    /\ c.kind \in {"pay", "addPay"} =>
          c.user = settle[c.row].store /\ c.amount = settle[c.row].amount
    /\ c.kind = "addPay" => settle[c.row].status # "PENDING"

\* The row locks: the redemption stays PENDING under them, one session holds them,
\* and one session is left to add the order of a sale.
LockFacts ==
    /\ \A s \in InTransaction : red[session[s].row].status = "PENDING"
    /\ \A s, t \in Sessions :
          /\ s # t /\ session[s].kind \in {"balance", "commit", "addSale"}
          /\ session[t].kind \in {"balance", "commit", "addSale"}
          => session[s].row # session[t].row
    /\ \A s \in Sessions : Running(s, "addSale") => Orders("sale", session[s].row) = {}

OrderFacts ==
    /\ \A j \in Jobs : job[j].state # "none" => job[j].from \in Accounts /\ job[j].to \in Accounts
    /\ \A r \in Redemptions :
          /\ \A m, n \in Orders("sale", r) : m = n
          /\ Orders("sale", r) # {} => Charged(r)
          /\ Orders("refund", r) # {} => red[r].status = "REFUNDED"
          /\ \A n \in Orders("sale", r) :
                LET o == job[<<"sale", r, n>>]
                IN o.from = red[r].user /\ o.to = red[r].store /\ o.amount = red[r].amount
          /\ \A n \in Orders("refund", r) :
                LET o == job[<<"refund", r, n>>]
                IN o.from = red[r].store /\ o.to = red[r].user /\ o.amount = red[r].amount

ChainFacts ==
    /\ \A t \in mempool \cup ledger : job[t.job].state # "none"
    /\ \A j \in Jobs : job[j].state = "confirmed" => \E t \in ledger : t.job = j

\* The rows, the locks of confirmRedemption, what the handlers in flight hold, the
\* orders in the queue and the transactions on chain agree with each other: what
\* makes each blind write and each late blockchainQueue.add right.
IInv ==
    /\ Typed
    /\ RowFacts
    /\ \A s \in Sessions : SessionOK(session[s])
    /\ LockFacts
    /\ OrderFacts
    /\ PaidIsOrdered
    /\ ChainFacts
    /\ HashIsProof

=============================================================================
