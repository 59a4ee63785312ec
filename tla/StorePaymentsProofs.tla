------------------------ MODULE StorePaymentsProofs ------------------------
(* Proofs about StorePayments. *)
EXTENDS StorePayments, FiniteSums, FiniteSetTheorems, TLAPS

\* A job's key is its kind, its row and the number of its copy.
LEMMA JobKeys ==
    /\ \A r \in Redemptions, n \in 1..MaxOrders :
          <<"sale", r, n>> \in Jobs /\ <<"refund", r, n>> \in Jobs
    /\ \A x \in Settlements, n \in 1..MaxOrders : <<"settlement", x, n>> \in Jobs
    /\ \A j \in Jobs :
          /\ j = <<j[1], j[2], j[3]>> /\ j[3] \in 1..MaxOrders
          /\ \/ j[1] \in {"sale", "refund"} /\ j[2] \in Redemptions
             \/ j[1] = "settlement" /\ j[2] \in Settlements
  BY DEF Jobs

\* The tables, the queue and the chain are empty, and no handler is in flight.
LEMMA InitIInv == Init => IInv
  <1> SUFFICES ASSUME Init PROVE IInv
    OBVIOUS
  <1> USE RowsApart, ParametersOK DEF Init
  <1>1. Typed
    <2>1. NoRedemption \in RedemptionRow /\ NoSettlement \in SettlementRow /\ NoJob \in JobRow
      BY DEF NoRedemption, RedemptionRow, RedemptionStatus, NoSettlement, SettlementRow,
             SettlementStatus, NoJob, JobRow, JobState
    <2>2. SessionTyped(Idle)
      BY DEF SessionTyped, Idle, Kinds
    <2>3. chain \in [Accounts -> Nat]
      BY DEF Accounts
    <2> QED
      BY <2>1, <2>2, <2>3 DEF Typed
  <1>2. RowFacts
    BY DEF RowFacts, Charged, NoRedemption, NoSettlement
  <1>3. \A s \in Sessions : SessionOK(session[s])
    BY DEF SessionOK, Idle
  <1>4. LockFacts
    BY DEF LockFacts, InTransaction, Running, Idle
  <1>5. /\ \A r \in Redemptions : Orders("sale", r) = {} /\ Orders("refund", r) = {}
        /\ \A x \in Settlements : Orders("settlement", x) = {}
    BY JobKeys DEF Orders, NoJob
  <1>6. OrderFacts
    BY <1>5 DEF OrderFacts, NoJob
  <1>7. PaidIsOrdered
    BY <1>5 DEF PaidIsOrdered, NoSettlement
  <1>8. ChainFacts
    BY DEF ChainFacts, NoJob
  <1>9. HashIsProof
    BY DEF HashIsProof, NoRedemption
  <1> QED
    BY <1>1, <1>2, <1>3, <1>4, <1>6, <1>7, <1>8, <1>9 DEF IInv

-----------------------------------------------------------------------------
(* What every step guarantees to the handlers in flight. *)

SettlementMoves(old, new) ==
    old.status # "NONE" =>
        /\ new.status # "NONE"
        /\ <<new.store, new.amount>> = <<old.store, old.amount>>
        /\ old.status # "PENDING" => new.status # "PENDING"

RowsMove ==
    /\ \A r \in Redemptions : MayBecome(red[r], red'[r])
    /\ \A x \in Settlements : SettlementMoves(settle[x], settle'[x])

GoodStep == IInv' /\ RowsMove

\* A handler whose rows only move forward keeps what it relies on.
LEMMA SessionFrame ==
    ASSUME RowsMove, NEW c, SessionOK(c)
    PROVE  /\ c.kind \in {"lock", "balance", "commit"} =>
                  c.row \in Redemptions /\ c.user \in Buyers
           /\ c.kind \in {"addSale", "refundCheck", "refundWrite", "addRefund"} =>
                  /\ c.row \in Redemptions /\ red'[c.row].status \in {"COMPLETED", "REFUNDED"}
                  /\ red'[c.row].user = c.user
           /\ c.kind = "addSale" => red'[c.row].amount = c.amount
           /\ c.kind = "addRefund" => red'[c.row].status = "REFUNDED"
           /\ c.kind \in {"settleSum", "settleCreate"} => c.user \in Stores
           /\ c.kind \in {"approve", "reject", "pay", "addPay"} =>
                  c.row \in Settlements /\ settle'[c.row].status # "NONE"
           /\ c.kind \in {"pay", "addPay"} =>
                  c.user = settle'[c.row].store /\ c.amount = settle'[c.row].amount
           /\ c.kind = "addPay" => settle'[c.row].status # "PENDING"
  BY DEF RowsMove, MayBecome, SettlementMoves, SessionOK, Charged

\* So only the handlers that moved need a look.
LEMMA SessionsFrame ==
    ASSUME RowsMove, \A s \in Sessions : SessionOK(session[s]),
           \A s \in Sessions : session'[s] = session[s] \/ SessionOK(session[s])'
    PROVE  (\A s \in Sessions : SessionOK(session[s]))'
  <1> SUFFICES ASSUME NEW s \in Sessions, session'[s] = session[s]
               PROVE  SessionOK(session[s])'
    OBVIOUS
  <1>1. SessionOK(session[s])
    OBVIOUS
  <1> QED
    BY <1>1, SessionFrame DEF SessionOK, Charged

-----------------------------------------------------------------------------
(* One lemma per part of IInv: what leaves it alone. *)

\* The queue forgets no job and changes neither its parties nor its amount.
JobsMove ==
    \A j \in Jobs :
        /\ <<job'[j].from, job'[j].to, job'[j].amount>> = <<job[j].from, job[j].to, job[j].amount>>
        /\ job'[j].state = "none" <=> job[j].state = "none"

\* A queue that forgets nothing has the orders it had.
LEMMA OrdersKept ==
    ASSUME JobsMove
    PROVE  /\ \A r \in Redemptions : /\ Orders("sale", r)' = Orders("sale", r)
                                     /\ Orders("refund", r)' = Orders("refund", r)
           /\ \A x \in Settlements : Orders("settlement", x)' = Orders("settlement", x)
  BY JobKeys DEF JobsMove, Orders

\* Orders stay right while rows only move forward: sales keep buyer and amount.
LEMMA OrdersFrame ==
    ASSUME IInv, RowsMove, JobsMove
    PROVE  OrderFacts'
  <1>1. \A j \in Jobs : job'[j].state # "none" => job'[j].from \in Accounts /\ job'[j].to \in Accounts
    BY DEF IInv, OrderFacts, JobsMove
  <1>2. ASSUME NEW r \in Redemptions
        PROVE  /\ \A m, n \in Orders("sale", r) : m = n
               /\ Orders("sale", r) # {} => Charged(r)'
               /\ Orders("refund", r) # {} => red'[r].status = "REFUNDED"
    BY <1>2 DEF IInv, OrderFacts, RowsMove, MayBecome, Charged
  <1>3. ASSUME NEW r \in Redemptions, NEW n \in Orders("sale", r)
        PROVE  LET o == job'[<<"sale", r, n>>]
               IN o.from = red'[r].user /\ o.to = red'[r].store /\ o.amount = red'[r].amount
    <2>1. MayBecome(red[r], red'[r]) /\ Charged(r) /\ n \in 1..MaxOrders
      BY <1>3 DEF IInv, OrderFacts, RowsMove, Orders
    <2>2. LET o == job[<<"sale", r, n>>]
          IN o.from = red[r].user /\ o.to = red[r].store /\ o.amount = red[r].amount
      BY <1>3 DEF IInv, OrderFacts
    <2> QED
      BY <2>1, <2>2, JobKeys DEF JobsMove, MayBecome, Charged
  <1>4. ASSUME NEW r \in Redemptions, NEW n \in Orders("refund", r)
        PROVE  LET o == job'[<<"refund", r, n>>]
               IN o.from = red'[r].store /\ o.to = red'[r].user /\ o.amount = red'[r].amount
    <2>1. MayBecome(red[r], red'[r]) /\ Charged(r) /\ n \in 1..MaxOrders
      BY <1>4 DEF IInv, OrderFacts, RowsMove, Orders, Charged
    <2>2. LET o == job[<<"refund", r, n>>]
          IN o.from = red[r].store /\ o.to = red[r].user /\ o.amount = red[r].amount
      BY <1>4 DEF IInv, OrderFacts
    <2> QED
      BY <2>1, <2>2, JobKeys DEF JobsMove, MayBecome, Charged
  <1> QED
    BY <1>1, <1>2, <1>3, <1>4, OrdersKept DEF OrderFacts, Charged

\* PAID settlements stay accounted for, unless a step turns one PAID without adding
\* an order or ends a handler that owes one.
LEMMA PaidFrame ==
    ASSUME IInv, RowsMove, JobsMove, lost \subseteq lost',
           \A x \in Settlements : settle'[x].status = "PAID" =>
               settle[x].status = "PAID" \/ \E s \in Sessions : Running(s, "addPay")' /\ session'[s].row = x,
           \A s \in Sessions : Running(s, "addPay") =>
               session'[s] = session[s] \/ session[s].row \in lost'
    PROVE  PaidIsOrdered'
  <1>1. ASSUME NEW x \in Settlements, settle'[x].status = "PAID"
        PROVE  \/ Orders("settlement", x)' # {}
               \/ x \in lost'
               \/ \E s \in Sessions : Running(s, "addPay")' /\ session'[s].row = x
    BY <1>1, OrdersKept DEF IInv, PaidIsOrdered, Running
  <1>2. ASSUME NEW x \in Settlements, NEW n \in Orders("settlement", x)'
        PROVE  LET o == job'[<<"settlement", x, n>>]
               IN /\ settle'[x].status # "PENDING"
                  /\ o.from = settle'[x].store /\ o.to = Treasury
                  /\ o.amount = settle'[x].amount
    <2>1. n \in Orders("settlement", x) /\ n \in 1..MaxOrders
      BY <1>2, OrdersKept DEF Orders
    <2>2. LET o == job[<<"settlement", x, n>>]
          IN /\ settle[x].status # "PENDING"
             /\ o.from = settle[x].store /\ o.to = Treasury
             /\ o.amount = settle[x].amount /\ o.from \in Accounts
      BY <2>1, JobKeys DEF IInv, PaidIsOrdered, OrderFacts, Orders
    <2>3. settle[x].store # None
      BY <2>2, RowsApart DEF Accounts
    <2>4. settle[x].status # "NONE"
      BY <2>3 DEF IInv, Typed, RowFacts
    <2> QED
      BY <2>1, <2>2, <2>4, JobKeys DEF JobsMove, RowsMove, SettlementMoves
  <1> QED
    BY <1>1, <1>2 DEF PaidIsOrdered

\* Sessions leave the locks or stay, and the locked rows are left alone.
LEMMA LocksFrame ==
    ASSUME IInv,
           \A s \in Sessions : session'[s].kind \in {"balance", "commit", "addSale"} =>
               /\ session'[s] = session[s]
               /\ session[s].kind # "addSale" =>
                     red'[session[s].row].status = red[session[s].row].status
               /\ session[s].kind = "addSale" =>
                     Orders("sale", session[s].row)' = Orders("sale", session[s].row)
    PROVE  LockFacts'
  <1>1. \A s \in Sessions : Running(s, "addSale") => Orders("sale", session[s].row) = {}
    BY DEF IInv, LockFacts
  <1>2. ASSUME NEW s \in Sessions, Running(s, "addSale")'
        PROVE  Orders("sale", session[s].row)' = {}
    <2>1. session'[s] = session[s] /\ Running(s, "addSale")
      BY <1>2 DEF Running
    <2>2. Orders("sale", session[s].row)' = Orders("sale", session[s].row)
      BY <1>2, <2>1 DEF Running
    <2> QED
      BY <1>1, <2>1, <2>2
  <1>3. \A s \in InTransaction' : red'[session'[s].row].status = "PENDING"
    BY DEF IInv, LockFacts, InTransaction
  <1>4. \A s, t \in Sessions :
          /\ s # t /\ session'[s].kind \in {"balance", "commit", "addSale"}
          /\ session'[t].kind \in {"balance", "commit", "addSale"}
          => session'[s].row # session'[t].row
    BY DEF IInv, LockFacts
  <1> QED
    BY <1>2, <1>3, <1>4 DEF LockFacts

\* Sent transactions belong to jobs, and a confirmed job has landed.
LEMMA ChainFrame ==
    ASSUME IInv, JobsMove, ledger \subseteq ledger', mempool' \cup ledger' \subseteq mempool \cup ledger,
           \A j \in Jobs : job'[j].state = "confirmed" =>
               job[j].state = "confirmed" \/ \E t \in ledger : t.job = j
    PROVE  ChainFacts'
  BY DEF IInv, Typed, Transaction, ChainFacts, JobsMove

\* Hashes stay proofs: the ledger forgets nothing.
LEMMA HashFrame ==
    ASSUME IInv, \A r \in Redemptions : red'[r].hash = red[r].hash, ledger \subseteq ledger'
    PROVE  HashIsProof'
  BY DEF IInv, HashIsProof, Landed

\* No job, nothing on chain changes.
LEMMA QueueKept ==
    ASSUME IInv, UNCHANGED <<job, chainVars>>
    PROVE  JobsMove /\ ChainFacts'
  BY DEF IInv, ChainFacts, chainVars, JobsMove

\* A step is good if each part of the invariant that is not framed holds after it.
LEMMA StepPreserves ==
    ASSUME IInv, Typed', RowsMove, RowFacts', LockFacts', OrderFacts', PaidIsOrdered',
           ChainFacts', HashIsProof',
           \A s \in Sessions : session'[s] = session[s] \/ SessionOK(session[s])'
    PROVE  GoodStep
  <1>1. (\A s \in Sessions : SessionOK(session[s]))'
    BY SessionsFrame DEF IInv
  <1> QED
    BY <1>1 DEF GoodStep, IInv

-----------------------------------------------------------------------------
(* Continuations. *)

SessionsTyped ==
    /\ session = [s \in Sessions |-> session[s]]
    /\ \A s \in Sessions : SessionTyped(session[s])

\* Only s moves.
OthersStay(s) == \A t \in Sessions : t # s => session'[t] = session[t]

\* A handler takes up the continuation c.
LEMMA SessionSet ==
    ASSUME IInv, NEW s \in Sessions, NEW c, SessionTyped(c), session' = [session EXCEPT ![s] = c]
    PROVE  SessionsTyped' /\ OthersStay(s) /\ session'[s] = c
  BY DEF IInv, Typed, SessionsTyped, OthersStay

\* A handler goes on, remembering an amount it has read.
LEMMA GoesOnSeeing ==
    ASSUME IInv, NEW s \in Sessions, NEW k \in Kinds, NEW seen,
           session' = [session EXCEPT ![s].kind = k, ![s].seen = seen]
    PROVE  /\ SessionsTyped' /\ OthersStay(s)
           /\ session'[s].kind = k /\ session'[s].row = session[s].row
           /\ session'[s].user = session[s].user /\ session'[s].amount = session[s].amount
  <1> DEFINE c == [session[s] EXCEPT !.kind = k, !.seen = seen]
  <1>1. SessionTyped(session[s]) /\ session = [t \in Sessions |-> session[t]]
    BY DEF IInv, Typed
  <1>2. session' = [session EXCEPT ![s] = c]
    BY <1>1
  <1>3. /\ SessionTyped(c) /\ c.kind = k /\ c.row = session[s].row
        /\ c.user = session[s].user /\ c.amount = session[s].amount
    BY <1>1 DEF SessionTyped
  <1> HIDE DEF c
  <1> QED
    BY <1>2, <1>3, SessionSet

\* A handler goes on with the row, user and amount it has.
LEMMA GoesOn ==
    ASSUME IInv, NEW s \in Sessions, NEW k \in Kinds, GoOn(s, k)
    PROVE  /\ SessionsTyped' /\ OthersStay(s)
           /\ session'[s].kind = k /\ session'[s].row = session[s].row
           /\ session'[s].user = session[s].user /\ session'[s].amount = session[s].amount
  <1> DEFINE c == [session[s] EXCEPT !.kind = k]
  <1>1. SessionTyped(session[s]) /\ session = [t \in Sessions |-> session[t]]
    BY DEF IInv, Typed
  <1>2. session' = [session EXCEPT ![s] = c]
    BY <1>1 DEF GoOn
  <1>3. /\ SessionTyped(c) /\ c.kind = k /\ c.row = session[s].row
        /\ c.user = session[s].user /\ c.amount = session[s].amount
    BY <1>1 DEF SessionTyped
  <1> HIDE DEF c
  <1> QED
    BY <1>2, <1>3, SessionSet

\* A handler ends.
LEMMA Finishes ==
    ASSUME IInv, NEW s \in Sessions, Finish(s)
    PROVE  SessionsTyped' /\ OthersStay(s) /\ session'[s] = Idle
  <1>1. SessionTyped(Idle)
    BY DEF SessionTyped, Idle, Kinds
  <1> QED
    BY <1>1, SessionSet DEF Finish

\* Only a handler moves.
LEMMA SessionMoves ==
    ASSUME IInv, NEW s \in Sessions, SessionsTyped', OthersStay(s), SessionOK(session[s])',
           LockFacts', UNCHANGED <<rowVars, job, chainVars>>,
           lost \subseteq lost', lost' \subseteq Redemptions \cup Settlements,
           Running(s, "addPay") => session[s].row \in lost'
    PROVE  GoodStep
  <1> USE DEF rowVars, chainVars
  <1>1. Typed'
    BY DEF IInv, Typed, SessionsTyped
  <1>2. RowsMove /\ RowFacts'
    BY DEF IInv, RowsMove, MayBecome, SettlementMoves, RowFacts, Charged
  <1>3. JobsMove /\ ChainFacts'
    BY QueueKept
  <1>5. OrderFacts' /\ HashIsProof'
    BY <1>2, <1>3, OrdersFrame, HashFrame
  <1>6. PaidIsOrdered'
    BY <1>2, <1>3, PaidFrame DEF OthersStay
  <1> QED
    BY <1>1, <1>2, <1>3, <1>5, <1>6, StepPreserves DEF OthersStay

\* Only a handler moves: it takes no lock and owes no order.
LEMMA OnlySession ==
    ASSUME IInv, NEW s \in Sessions, SessionsTyped', OthersStay(s), SessionOK(session[s])',
           session'[s].kind \notin {"balance", "commit", "addSale"},
           UNCHANGED <<rowVars, job, chainVars>>,
           lost \subseteq lost', lost' \subseteq Redemptions \cup Settlements,
           Running(s, "addPay") => session[s].row \in lost'
    PROVE  GoodStep
  <1>1. LockFacts'
    BY LocksFrame DEF OthersStay, Orders, rowVars
  <1> QED
    BY <1>1, SessionMoves

\* A handler that ends here, leaving the row lost if it owed an order.
LEMMA JustFinishes ==
    ASSUME IInv, NEW s \in Sessions, Finish(s), ~Running(s, "addPay"),
           UNCHANGED <<rowVars, job, chainVars, lost>>
    PROVE  GoodStep
  <1>1. SessionsTyped' /\ OthersStay(s) /\ session'[s] = Idle
    BY Finishes
  <1>2. SessionOK(session[s])'
    BY <1>1 DEF SessionOK, Idle
  <1>3. lost \subseteq lost' /\ lost' \subseteq Redemptions \cup Settlements
    BY DEF IInv, Typed
  <1> QED
    BY <1>1, <1>2, <1>3, OnlySession DEF Idle

\* An endpoint starts with a continuation whose facts it has just read.
LEMMA JustBegins ==
    ASSUME IInv, NEW s \in Sessions, NEW e, NEW c, Begin(s, e, c), SessionTyped(c), SessionOK(c),
           c.kind \notin {"balance", "commit", "addSale"},
           UNCHANGED <<rowVars, job, chainVars, lost>>
    PROVE  GoodStep
  <1>1. SessionsTyped' /\ OthersStay(s) /\ session'[s] = c /\ session[s].kind = "idle"
    BY SessionSet DEF Begin
  <1>2. SessionOK(session[s])'
    BY <1>1 DEF SessionOK, Charged, rowVars
  <1>3. lost \subseteq lost' /\ lost' \subseteq Redemptions \cup Settlements
    BY DEF IInv, Typed
  <1> QED
    BY <1>1, <1>2, <1>3, OnlySession DEF Running

-----------------------------------------------------------------------------
(* Steps that move a handler only. *)

\* confirmRedemption reads the code before its transaction.
LEMMA ConfirmRedemptionGood ==
    ASSUME IInv, NEW s \in Sessions, NEW u \in Buyers, NEW r \in Redemptions, NEW extra \in Extras,
           ConfirmRedemption(s, u, r, extra)
    PROVE  GoodStep
  <1> DEFINE c == Call("lock", r, u, red[r].amount + extra)
  <1>1. red[r].amount + extra \in Nat
    BY ParametersOK DEF IInv, Typed, RedemptionRow
  <1>2. SessionTyped(c) /\ SessionOK(c) /\ c.kind = "lock"
    BY <1>1 DEF Call, SessionTyped, SessionOK, Kinds
  <1> QED
    BY <1>2, JustBegins DEF ConfirmRedemption

\* confirmRedemption takes both locks: nobody else holds the code, which is PENDING,
\* and so nobody is about to add its order.
LEMMA ConfirmLockGood ==
    ASSUME IInv, NEW s \in Sessions, ConfirmLock(s)
    PROVE  GoodStep
  <1>1. Running(s, "lock") /\ UNCHANGED <<rowVars, job, chainVars, lost>>
    BY DEF ConfirmLock
  <1>2. CASE StillPending(session[s].row)
    <2>1. /\ session' = [session EXCEPT ![s].kind = "balance",
                                      ![s].seen = Spent(session[s].user)]
          /\ LocksFree(session[s].user, session[s].row)
      BY <1>2 DEF ConfirmLock
    <2>2. SessionOK(session[s])
      BY DEF IInv
    <2>3. "balance" \in Kinds
      BY DEF Kinds
    <2>4. /\ SessionsTyped' /\ OthersStay(s)
          /\ session'[s].kind = "balance" /\ session'[s].row = session[s].row
          /\ session'[s].user = session[s].user
      BY <2>1, <2>3, GoesOnSeeing
    <2>5. SessionOK(session[s])'
      BY <1>1, <2>2, <2>4 DEF SessionOK, Running
    <2>6. LockFacts'
      <3>1. red[session[s].row].status = "PENDING" /\ red' = red /\ job' = job
        BY <1>1, <1>2 DEF StillPending, rowVars
      <3>2. \A t \in Sessions : t # s /\ session[t].kind \in {"balance", "commit", "addSale"} =>
               session[t].row # session[s].row
        BY <2>1, <3>1 DEF LocksFree, InTransaction, IInv, SessionOK, Charged
      <3>3. InTransaction' = InTransaction \cup {s}
        BY <2>4 DEF InTransaction, OthersStay
      <3>4. \A t \in InTransaction' : red'[session'[t].row].status = "PENDING"
        BY <2>4, <3>1, <3>3 DEF IInv, LockFacts, OthersStay, InTransaction
      <3>5. \A t, v \in Sessions :
              /\ t # v /\ session'[t].kind \in {"balance", "commit", "addSale"}
              /\ session'[v].kind \in {"balance", "commit", "addSale"}
              => session'[t].row # session'[v].row
        BY <2>4, <3>2 DEF IInv, LockFacts, OthersStay
      <3>6. \A t \in Sessions : Running(t, "addSale")' => Orders("sale", session[t].row)' = {}
        BY <2>4, <3>1 DEF IInv, LockFacts, OthersStay, Running, Orders
      <3> QED
        BY <3>4, <3>5, <3>6 DEF LockFacts
    <2>7. lost \subseteq lost' /\ lost' \subseteq Redemptions \cup Settlements
      BY <1>1 DEF IInv, Typed
    <2> QED
      BY <1>1, <2>4, <2>5, <2>6, <2>7, SessionMoves DEF Running
  <1>3. CASE ~StillPending(session[s].row)
    BY <1>1, <1>3, JustFinishes DEF ConfirmLock, Running
  <1> QED
    BY <1>2, <1>3

\* confirmRedemption goes on to its UPDATE, or rolls back.
LEMMA ConfirmBalanceGood ==
    ASSUME IInv, NEW s \in Sessions, ConfirmBalance(s)
    PROVE  GoodStep
  <1>1. Running(s, "balance") /\ UNCHANGED <<rowVars, job, chainVars, lost>>
    BY DEF ConfirmBalance
  <1>2. CASE GoOn(s, "commit")
    <2>1. /\ SessionsTyped' /\ OthersStay(s)
          /\ session'[s].kind = "commit" /\ session'[s].row = session[s].row
          /\ session'[s].user = session[s].user
      BY <1>2, GoesOn DEF Kinds
    <2>2. SessionOK(session[s])'
      BY <1>1, <2>1 DEF IInv, SessionOK, Running
    <2>3. LockFacts'
      <3>1. InTransaction' = InTransaction
        BY <1>1, <2>1 DEF InTransaction, OthersStay, Running
      <3>2. \A t \in InTransaction' : red'[session'[t].row].status = "PENDING"
        BY <1>1, <2>1, <3>1 DEF IInv, LockFacts, OthersStay, InTransaction, rowVars
      <3>3. \A t, v \in Sessions :
              /\ t # v /\ session'[t].kind \in {"balance", "commit", "addSale"}
              /\ session'[v].kind \in {"balance", "commit", "addSale"}
              => session'[t].row # session'[v].row
        BY <1>1, <2>1 DEF IInv, LockFacts, OthersStay, Running
      <3>4. \A t \in Sessions : Running(t, "addSale")' => Orders("sale", session[t].row)' = {}
        BY <1>1, <2>1 DEF IInv, LockFacts, OthersStay, Running, Orders
      <3> QED
        BY <3>2, <3>3, <3>4 DEF LockFacts
    <2>4. lost \subseteq lost' /\ lost' \subseteq Redemptions \cup Settlements
      BY <1>1 DEF IInv, Typed
    <2> QED
      BY <1>1, <2>1, <2>2, <2>3, <2>4, SessionMoves DEF Running
  <1>3. CASE Finish(s)
    BY <1>1, <1>3, JustFinishes DEF Running
  <1> QED
    BY <1>2, <1>3 DEF ConfirmBalance

\* refundRedemption reads a COMPLETED redemption.
LEMMA RefundRedemptionGood ==
    ASSUME IInv, NEW s \in Sessions, NEW r \in Redemptions, RefundRedemption(s, r)
    PROVE  GoodStep
  <1> DEFINE c == Call("refundCheck", r, red[r].user, red[r].amount)
  <1>1. red[r].user \in Buyers /\ red[r].amount \in Nat /\ Charged(r)
    BY DEF IInv, Typed, RedemptionRow, RowFacts, Charged, RefundRedemption
  <1>2. SessionTyped(c) /\ SessionOK(c) /\ c.kind = "refundCheck"
    BY <1>1 DEF Call, SessionTyped, SessionOK, Kinds
  <1> QED
    BY <1>2, JustBegins DEF RefundRedemption

\* A handler that goes on with the facts it has, and takes no lock.
LEMMA JustGoesOn ==
    ASSUME IInv, NEW s \in Sessions, NEW k \in Kinds, GoOn(s, k), ~Running(s, "addPay"),
           k \notin {"balance", "commit", "addSale"},
           \A c : c.kind = k /\ c.row = session[s].row /\ c.user = session[s].user
                    /\ c.amount = session[s].amount => SessionOK(c),
           UNCHANGED <<rowVars, job, chainVars, lost>>
    PROVE  GoodStep
  <1>1. /\ SessionsTyped' /\ OthersStay(s)
        /\ session'[s].kind = k /\ session'[s].row = session[s].row
        /\ session'[s].user = session[s].user /\ session'[s].amount = session[s].amount
    BY GoesOn
  <1>2. SessionOK(session'[s])
    BY <1>1
  <1>3. SessionOK(session[s])'
    BY <1>2 DEF SessionOK, Charged, rowVars
  <1>4. lost \subseteq lost' /\ lost' \subseteq Redemptions \cup Settlements
    BY DEF IInv, Typed
  <1> QED
    BY <1>1, <1>3, <1>4, OnlySession

\* refundRedemption checks the balance of the store.
LEMMA RefundCheckGood ==
    ASSUME IInv, NEW s \in Sessions, RefundCheck(s)
    PROVE  GoodStep
  <1>1. Running(s, "refundCheck") /\ UNCHANGED <<rowVars, job, chainVars, lost>>
    BY DEF RefundCheck
  <1>2. CASE GoOn(s, "refundWrite")
    <2>1. SessionOK(session[s]) /\ "refundWrite" \in Kinds
      BY DEF IInv, Kinds
    <2>2. \A c : c.kind = "refundWrite" /\ c.row = session[s].row /\ c.user = session[s].user
                    /\ c.amount = session[s].amount => SessionOK(c)
      BY <1>1, <2>1 DEF SessionOK, Running
    <2> QED
      BY <1>1, <1>2, <2>1, <2>2, JustGoesOn DEF Running
  <1>3. CASE Finish(s)
    BY <1>1, <1>3, JustFinishes DEF Running
  <1> QED
    BY <1>2, <1>3 DEF RefundCheck

\* requestSettlement reads the balance of the store.
LEMMA RequestSettlementGood ==
    ASSUME IInv, NEW s \in Sessions, NEW st \in Stores, NEW a \in Amounts,
           RequestSettlement(s, st, a)
    PROVE  GoodStep
  <1>1. PICK onChain \in OnChainReads(st) :
          Begin(s, "request", [Call("settleSum", None, st, a) EXCEPT
                                  !.seen = Balance(st, onChain, 0)])
    BY DEF RequestSettlement
  <1> DEFINE c == [Call("settleSum", None, st, a) EXCEPT !.seen = Balance(st, onChain, 0)]
  <1>2. SessionTyped(c) /\ SessionOK(c) /\ c.kind = "settleSum"
    BY ParametersOK DEF Call, SessionTyped, SessionOK, Kinds
  <1> HIDE DEF c
  <1> QED
    BY <1>1, <1>2, JustBegins DEF c, RequestSettlement

\* requestSettlement compares it with what is held.
LEMMA RequestCheckGood ==
    ASSUME IInv, NEW s \in Sessions, RequestCheck(s)
    PROVE  GoodStep
  <1>1. Running(s, "settleSum") /\ UNCHANGED <<rowVars, job, chainVars, lost>>
    BY DEF RequestCheck
  <1>2. CASE GoOn(s, "settleCreate")
    <2>1. SessionOK(session[s]) /\ "settleCreate" \in Kinds
      BY DEF IInv, Kinds
    <2>2. \A c : c.kind = "settleCreate" /\ c.row = session[s].row /\ c.user = session[s].user
                    /\ c.amount = session[s].amount => SessionOK(c)
      BY <1>1, <2>1 DEF SessionOK, Running
    <2> QED
      BY <1>1, <1>2, <2>1, <2>2, JustGoesOn DEF Running
  <1>3. CASE Finish(s)
    BY <1>1, <1>3, JustFinishes DEF Running
  <1> QED
    BY <1>2, <1>3 DEF RequestCheck

\* Approvals, rejections and payments start from a settlement they have read.
LEMMA SettlementCallGood ==
    ASSUME IInv, NEW s \in Sessions, NEW x \in Settlements,
           ApproveSettlement(s, x) \/ RejectSettlement(s, x) \/ PaySettlement(s, x)
    PROVE  GoodStep
  <1>1. settle[x].store \in Stores /\ settle[x].amount \in Nat
    BY DEF IInv, Typed, SettlementRow, RowFacts, Payable, ApproveSettlement, RejectSettlement,
           PaySettlement
  <1>2. ASSUME NEW k \in {"approve", "reject", "pay"},
               NEW c, c = (IF k = "pay" THEN Call(k, x, settle[x].store, settle[x].amount)
                                        ELSE Call(k, x, None, 0)),
               settle[x].status # "NONE"
        PROVE  SessionTyped(c) /\ SessionOK(c) /\ c.kind = k
    BY <1>1, <1>2 DEF Call, SessionTyped, SessionOK, Kinds
  <1>3. CASE ApproveSettlement(s, x)
    <2> DEFINE c == Call("approve", x, None, 0)
    <2>1. SessionTyped(c) /\ SessionOK(c) /\ c.kind = "approve"
      BY <1>2, <1>3 DEF ApproveSettlement
    <2> QED
      BY <1>3, <2>1, JustBegins DEF ApproveSettlement
  <1>4. CASE RejectSettlement(s, x)
    <2> DEFINE c == Call("reject", x, None, 0)
    <2>1. SessionTyped(c) /\ SessionOK(c) /\ c.kind = "reject"
      BY <1>2, <1>4 DEF RejectSettlement, Payable
    <2> QED
      BY <1>4, <2>1, JustBegins DEF RejectSettlement
  <1>5. CASE PaySettlement(s, x)
    <2> DEFINE c == Call("pay", x, settle[x].store, settle[x].amount)
    <2>1. SessionTyped(c) /\ SessionOK(c) /\ c.kind = "pay"
      BY <1>2, <1>5 DEF PaySettlement, Payable
    <2> QED
      BY <1>5, <2>1, JustBegins DEF PaySettlement
  <1> QED
    BY <1>3, <1>4, <1>5

\* A handler that ends with an order still to add leaves its row among the lost.
LEMMA HandlerEndsGood ==
    ASSUME IInv, NEW s \in Sessions, HandlerEnds(s)
    PROVE  GoodStep
  <1>1. Finish(s) /\ UNCHANGED <<rowVars, job, chainVars>>
    BY DEF HandlerEnds
  <1>2. SessionsTyped' /\ OthersStay(s) /\ session'[s] = Idle
    BY <1>1, Finishes
  <1>3. SessionOK(session[s])'
    BY <1>2 DEF SessionOK, Idle
  <1>4. /\ lost \subseteq lost' /\ lost' \subseteq Redemptions \cup Settlements
        /\ Running(s, "addPay") => session[s].row \in lost'
    BY DEF HandlerEnds, IInv, Typed, SessionOK, Running
  <1> QED
    BY <1>1, <1>2, <1>3, <1>4, OnlySession DEF Idle

-----------------------------------------------------------------------------
(* Steps that write redemptions. *)

RedemptionFacts(row) ==
    /\ row.status # "NONE" => row.store \in Stores
    /\ row.status \in {"COMPLETED", "REFUNDED"} => row.user \in Buyers

\* Redemptions move forward, and the handlers that moved are in order.
LEMMA RedStep ==
    ASSUME IInv, red' \in [Redemptions -> RedemptionRow],
           \A r \in Redemptions : /\ MayBecome(red[r], red'[r]) /\ RedemptionFacts(red'[r])
                                 /\ red'[r].hash = red[r].hash,
           UNCHANGED <<settle, job, chainVars, lost>>, SessionsTyped', LockFacts',
           \A s \in Sessions : session'[s] = session[s] \/ SessionOK(session[s])',
           \A s \in Sessions : Running(s, "addPay") => session'[s] = session[s]
    PROVE  GoodStep
  <1>1. Typed'
    BY DEF IInv, Typed, SessionsTyped, chainVars
  <1>2. RowsMove /\ RowFacts'
    BY DEF IInv, RowsMove, MayBecome, SettlementMoves, RowFacts, RedemptionFacts, Charged
  <1>3. JobsMove /\ ChainFacts'
    BY QueueKept
  <1>4. OrderFacts' /\ HashIsProof'
    BY <1>2, <1>3, OrdersFrame, HashFrame DEF chainVars
  <1>5. PaidIsOrdered'
    BY <1>2, <1>3, PaidFrame
  <1> QED
    BY <1>1, <1>2, <1>3, <1>4, <1>5, StepPreserves

\* No handler moves, and no row that a transaction holds changes its status.
LEMMA RedOnly ==
    ASSUME IInv, red' \in [Redemptions -> RedemptionRow],
           \A r \in Redemptions : /\ MayBecome(red[r], red'[r]) /\ RedemptionFacts(red'[r])
                                 /\ red'[r].hash = red[r].hash,
           \A s \in InTransaction : red'[session[s].row].status = red[session[s].row].status,
           UNCHANGED <<settle, session, job, chainVars, lost>>
    PROVE  GoodStep
  <1>1. SessionsTyped'
    BY DEF IInv, Typed, SessionsTyped
  <1>2. LockFacts'
    BY LocksFrame DEF InTransaction, Orders
  <1> QED
    BY <1>1, <1>2, RedStep

\* The row of a transaction is a PENDING one.
LEMMA LockedRows ==
    ASSUME IInv
    PROVE  \A s \in InTransaction :
              /\ session[s].row \in Redemptions /\ session[s].user \in Buyers
              /\ red[session[s].row].status = "PENDING"
  BY DEF IInv, LockFacts, InTransaction, SessionOK

\* generateQrRedemption opens a code nobody can know yet.
LEMMA GenerateQrGood ==
    ASSUME IInv, NEW st \in Stores, NEW r \in Redemptions, NEW a \in Amounts, GenerateQr(st, r, a)
    PROVE  GoodStep
  <1> DEFINE row == [NoRedemption EXCEPT !.status = "PENDING", !.store = st, !.amount = a]
  <1>1. /\ row \in RedemptionRow /\ row.status = "PENDING" /\ row.store = st
        /\ row.hash = "none"
    <2>1. NoRedemption \in RedemptionRow /\ NoRedemption.hash = "none"
      BY DEF RedemptionRow, RedemptionStatus, NoRedemption
    <2>2. a \in Nat
      BY ParametersOK
    <2> QED
      BY <2>1, <2>2 DEF RedemptionRow, RedemptionStatus
  <1>2. red' = [red EXCEPT ![r] = row] /\ red[r].status = "NONE"
    BY DEF GenerateQr
  <1> HIDE DEF row
  <1>3. red' \in [Redemptions -> RedemptionRow]
    BY <1>1, <1>2 DEF IInv, Typed
  <1>4. red[r].hash = "none"
    BY <1>2 DEF IInv, RowFacts
  <1>5. \A q \in Redemptions : /\ MayBecome(red[q], red'[q]) /\ RedemptionFacts(red'[q])
                              /\ red'[q].hash = red[q].hash
    BY <1>1, <1>2, <1>4 DEF IInv, Typed, RowFacts, MayBecome, RedemptionFacts, Charged
  <1>6. \A s \in InTransaction : red'[session[s].row].status = red[session[s].row].status
    BY <1>2, LockedRows DEF IInv, Typed
  <1> QED
    BY <1>3, <1>5, <1>6, RedOnly DEF GenerateQr

\* Time passes.
LEMMA AgeGood ==
    ASSUME IInv, NEW r \in Redemptions, Age(r)
    PROVE  GoodStep
  <1>1. red \in [Redemptions -> RedemptionRow]
    BY DEF IInv, Typed
  <1> DEFINE row == [red[r] EXCEPT !.age = @ + 1]
  <1>2. /\ row \in RedemptionRow /\ row.status = red[r].status /\ row.hash = red[r].hash
        /\ row.user = red[r].user /\ row.store = red[r].store /\ row.amount = red[r].amount
    <2>1. red[r] \in RedemptionRow /\ red[r].age + 1 \in 0..2
      BY <1>1 DEF Age, RedemptionRow
    <2> QED
      BY <2>1 DEF RedemptionRow
  <1>3. red' = [red EXCEPT ![r] = row]
    BY <1>1 DEF Age
  <1> HIDE DEF row
  <1>4. /\ red' \in [Redemptions -> RedemptionRow]
        /\ \A q \in Redemptions :
              /\ red'[q].status = red[q].status /\ red'[q].hash = red[q].hash
              /\ <<red'[q].user, red'[q].store, red'[q].amount>>
                    = <<red[q].user, red[q].store, red[q].amount>>
    BY <1>1, <1>2, <1>3
  <1>5. \A q \in Redemptions : /\ MayBecome(red[q], red'[q]) /\ RedemptionFacts(red'[q])
                              /\ red'[q].hash = red[q].hash
    BY <1>4 DEF IInv, RowFacts, MayBecome, RedemptionFacts, Charged
  <1>6. \A s \in InTransaction : red'[session[s].row].status = red[session[s].row].status
    BY <1>4, LockedRows
  <1> QED
    BY <1>4, <1>5, <1>6, RedOnly DEF Age

\* The expiry worker leaves the codes that a transaction holds alone.
LEMMA ExpirePendingGood ==
    ASSUME IInv, ExpirePending
    PROVE  GoodStep
  <1>1. red \in [Redemptions -> RedemptionRow]
    BY DEF IInv, Typed
  <1>2. \A r \in Redemptions :
          red'[r] = IF Expirable(r) THEN [red[r] EXCEPT !.status = "EXPIRED"] ELSE red[r]
    BY DEF ExpirePending
  <1>3. ASSUME NEW r \in Redemptions
        PROVE  [red[r] EXCEPT !.status = "EXPIRED"] \in RedemptionRow
    BY <1>1 DEF RedemptionRow, RedemptionStatus
  <1>4. red' \in [Redemptions -> RedemptionRow]
    BY <1>1, <1>3 DEF ExpirePending
  <1>5. ASSUME NEW r \in Redemptions
        PROVE  /\ MayBecome(red[r], red'[r]) /\ RedemptionFacts(red'[r])
               /\ red'[r].hash = red[r].hash
    <2>1. red[r] \in RedemptionRow
      BY <1>1
    <2>2. CASE Expirable(r)
      BY <1>2, <2>1, <2>2
      DEF IInv, RowFacts, MayBecome, RedemptionFacts, Charged, RedemptionRow, Expirable
    <2>3. CASE ~Expirable(r)
      BY <1>2, <2>3 DEF IInv, RowFacts, MayBecome, RedemptionFacts, Charged
    <2> QED
      BY <2>2, <2>3
  <1>6. \A s \in InTransaction : red'[session[s].row].status = red[session[s].row].status
    BY <1>2, LockedRows DEF ExpirePending
  <1> QED
    BY <1>4, <1>5, <1>6, RedOnly DEF ExpirePending

\* confirmRedemption commits: the code was PENDING under the lock, so it has no order.
LEMMA ConfirmCommitGood ==
    ASSUME IInv, NEW s \in Sessions, ConfirmCommit(s)
    PROVE  GoodStep
  <1> DEFINE r == session[s].row
             row == [red[r] EXCEPT !.status = "COMPLETED", !.user = session[s].user,
                                   !.amount = session[s].amount]
  <1>1. Running(s, "commit") /\ UNCHANGED <<settle, job, chainVars, lost>> /\ GoOn(s, "addSale")
    BY DEF ConfirmCommit
  <1>2. /\ r \in Redemptions /\ session[s].user \in Buyers /\ red[r].status = "PENDING"
        /\ session[s].amount \in Nat /\ s \in InTransaction
    BY <1>1, LockedRows DEF IInv, Typed, SessionTyped, InTransaction, Running
  <1>3. red \in [Redemptions -> RedemptionRow]
    BY DEF IInv, Typed
  <1>4. red[r] \in RedemptionRow
    BY <1>2, <1>3
  <1>5. /\ row \in RedemptionRow /\ row.status = "COMPLETED" /\ row.user = session[s].user
        /\ row.store = red[r].store /\ row.amount = session[s].amount
        /\ row.hash = red[r].hash
    BY <1>2, <1>4 DEF RedemptionRow, RedemptionStatus
  <1>6. red' = [red EXCEPT ![r] = row]
    BY <1>2, <1>3 DEF ConfirmCommit
  <1>7. /\ SessionsTyped' /\ OthersStay(s)
        /\ session'[s].kind = "addSale" /\ session'[s].row = r
        /\ session'[s].user = session[s].user /\ session'[s].amount = session[s].amount
    BY <1>1, GoesOn DEF Kinds
  <1> HIDE DEF row, r
  <1>8. red' \in [Redemptions -> RedemptionRow]
    BY <1>3, <1>5, <1>6
  <1>9. \A q \in Redemptions : /\ MayBecome(red[q], red'[q]) /\ RedemptionFacts(red'[q])
                              /\ red'[q].hash = red[q].hash
    BY <1>2, <1>3, <1>5, <1>6 DEF IInv, RowFacts, MayBecome, RedemptionFacts, Charged
  <1>10. SessionOK(session[s])'
    BY <1>2, <1>3, <1>5, <1>6, <1>7 DEF SessionOK, Charged
  <1>11. LockFacts'
    <2>1. \A t \in Sessions : t # s /\ session[t].kind \in {"balance", "commit", "addSale"} =>
             session[t].row # r
      BY <1>1 DEF IInv, LockFacts, Running, r
    <2>2. \A t \in InTransaction' : red'[session'[t].row].status = "PENDING"
      BY <1>3, <1>6, <1>7, <2>1 DEF IInv, LockFacts, OthersStay, InTransaction
    <2>3. \A t, v \in Sessions :
            /\ t # v /\ session'[t].kind \in {"balance", "commit", "addSale"}
            /\ session'[v].kind \in {"balance", "commit", "addSale"}
            => session'[t].row # session'[v].row
      BY <1>7, <2>1 DEF IInv, LockFacts, OthersStay
    <2>4. Orders("sale", r) = {}
      BY <1>2 DEF IInv, OrderFacts, Charged
    <2>5. ASSUME NEW t \in Sessions, Running(t, "addSale")'
          PROVE  Orders("sale", session[t].row)' = {}
      <3>1. Orders("sale", session'[t].row) = {}
        BY <1>7, <2>4, <2>5 DEF IInv, LockFacts, OthersStay, Running
      <3> QED
        BY <1>1, <3>1 DEF Orders
    <2> QED
      BY <2>2, <2>3, <2>5 DEF LockFacts
  <1> QED
    BY <1>1, <1>7, <1>8, <1>9, <1>10, <1>11, RedStep DEF OthersStay, Running

\* refundRedemption writes by id alone, but a sale can only have become REFUNDED.
LEMMA RefundWriteGood ==
    ASSUME IInv, NEW s \in Sessions, RefundWrite(s)
    PROVE  GoodStep
  <1> DEFINE r == session[s].row
             row == [red[r] EXCEPT !.status = "REFUNDED"]
  <1>1. Running(s, "refundWrite") /\ UNCHANGED <<settle, job, chainVars, lost>> /\ GoOn(s, "addRefund")
    BY DEF RefundWrite
  <1>2. r \in Redemptions /\ Charged(r) /\ red[r].user = session[s].user
    BY <1>1 DEF IInv, SessionOK, Running
  <1>3. red \in [Redemptions -> RedemptionRow]
    BY DEF IInv, Typed
  <1>4. red[r] \in RedemptionRow
    BY <1>2, <1>3
  <1>5. /\ row \in RedemptionRow /\ row.status = "REFUNDED" /\ row.user = red[r].user
        /\ row.store = red[r].store /\ row.amount = red[r].amount /\ row.hash = red[r].hash
    BY <1>4 DEF RedemptionRow, RedemptionStatus
  <1>6. red' = [red EXCEPT ![r] = row]
    BY <1>2, <1>3 DEF RefundWrite
  <1>7. /\ SessionsTyped' /\ OthersStay(s)
        /\ session'[s].kind = "addRefund" /\ session'[s].row = r
        /\ session'[s].user = session[s].user
    BY <1>1, GoesOn DEF Kinds
  <1> HIDE DEF row, r
  <1>8. red' \in [Redemptions -> RedemptionRow]
    BY <1>3, <1>5, <1>6
  <1>9. \A q \in Redemptions : /\ MayBecome(red[q], red'[q]) /\ RedemptionFacts(red'[q])
                              /\ red'[q].hash = red[q].hash
    BY <1>2, <1>3, <1>5, <1>6 DEF IInv, RowFacts, MayBecome, RedemptionFacts, Charged
  <1>10. SessionOK(session[s])'
    BY <1>2, <1>3, <1>5, <1>6, <1>7 DEF SessionOK, Charged
  <1>11. LockFacts'
    <2>1. \A t \in InTransaction : red'[session[t].row].status = red[session[t].row].status
      BY <1>2, <1>3, <1>6, LockedRows DEF Charged
    <2> QED
      BY <1>1, <1>7, <2>1, LocksFrame DEF OthersStay, InTransaction, Orders
  <1> QED
    BY <1>1, <1>7, <1>8, <1>9, <1>10, <1>11, RedStep DEF OthersStay, Running

-----------------------------------------------------------------------------
(* Steps that write settlements. *)

\* A handler writes one settlement and goes on.
LEMMA SettleStep ==
    ASSUME IInv, NEW s \in Sessions, NEW x \in Settlements, NEW row \in SettlementRow,
           settle' = [settle EXCEPT ![x] = row], SettlementMoves(settle[x], row),
           row.status # "NONE", row.store \in Stores,
           row.status = "PAID" => session'[s].kind = "addPay" /\ session'[s].row = x,
           UNCHANGED <<red, job, chainVars, lost>>, SessionsTyped', OthersStay(s),
           SessionOK(session[s])', session[s].kind # "addPay",
           session'[s].kind \notin {"balance", "commit", "addSale"}
    PROVE  GoodStep
  <1>1. Typed'
    BY DEF IInv, Typed, SessionsTyped, chainVars
  <1>2. RowsMove /\ RowFacts'
    BY DEF IInv, Typed, RowsMove, MayBecome, SettlementMoves, RowFacts, Charged
  <1>3. JobsMove /\ ChainFacts'
    BY QueueKept
  <1>4. OrderFacts' /\ HashIsProof'
    BY <1>2, <1>3, OrdersFrame, HashFrame DEF chainVars
  <1>5. PaidIsOrdered'
    <2>1. \A y \in Settlements : settle'[y].status = "PAID" =>
            settle[y].status = "PAID" \/ \E t \in Sessions : Running(t, "addPay")' /\ session'[t].row = y
      BY DEF IInv, Typed, Running
    <2>2. \A t \in Sessions : Running(t, "addPay") => session'[t] = session[t]
      BY DEF OthersStay, Running
    <2> QED
      BY <1>2, <1>3, <2>1, <2>2, PaidFrame
  <1>6. LockFacts'
    BY LocksFrame DEF OthersStay, Orders
  <1> QED
    BY <1>1, <1>2, <1>3, <1>4, <1>5, <1>6, StepPreserves DEF OthersStay

\* requestSettlement inserts a row.
LEMMA RequestCreateGood ==
    ASSUME IInv, NEW s \in Sessions, NEW x \in Settlements, RequestCreate(s, x)
    PROVE  GoodStep
  <1> DEFINE row == [status |-> "PENDING", store |-> session[s].user, amount |-> session[s].amount]
  <1>1. Running(s, "settleCreate") /\ settle[x].status = "NONE"
    BY DEF RequestCreate
  <1>2. session[s].user \in Stores /\ session[s].amount \in Nat
    BY <1>1 DEF IInv, Typed, SessionTyped, SessionOK, Running
  <1>3. row \in SettlementRow /\ row.status = "PENDING" /\ row.store \in Stores
    BY <1>2 DEF SettlementRow, SettlementStatus
  <1>4. SettlementMoves(settle[x], row)
    BY <1>1 DEF SettlementMoves
  <1>5. settle' = [settle EXCEPT ![x] = row] /\ UNCHANGED <<red, job, chainVars, lost>>
    BY DEF RequestCreate
  <1>6. SessionsTyped' /\ OthersStay(s) /\ session'[s] = Idle
    BY Finishes DEF RequestCreate
  <1>7. SessionOK(session[s])'
    BY <1>6 DEF SessionOK, Idle
  <1>8. session[s].kind = "settleCreate" /\ session'[s].kind = "idle"
    BY <1>1, <1>6 DEF Idle, Running
  <1> HIDE DEF row
  <1> QED
    BY <1>3, <1>4, <1>5, <1>6, <1>7, <1>8, SettleStep

\* A status of a settlement in the hands of a handler may be written.
LEMMA StatusWritten ==
    ASSUME IInv, NEW s \in Sessions, session[s].kind \in {"approve", "reject", "pay"},
           NEW new \in {"APPROVED_PENDING_PAYMENT", "PAID", "REJECTED"},
           settle' = [settle EXCEPT ![session[s].row].status = new]
    PROVE  \E row \in SettlementRow :
              /\ session[s].row \in Settlements
              /\ settle' = [settle EXCEPT ![session[s].row] = row]
              /\ SettlementMoves(settle[session[s].row], row)
              /\ row.status = new /\ row.store \in Stores
              /\ row.store = settle[session[s].row].store
              /\ row.amount = settle[session[s].row].amount
  <1> DEFINE x == session[s].row
             row == [settle[x] EXCEPT !.status = new]
  <1>1. x \in Settlements /\ settle[x].status # "NONE"
    BY DEF IInv, SessionOK
  <1>2. settle \in [Settlements -> SettlementRow] /\ settle[x].store \in Stores
    BY <1>1 DEF IInv, Typed, RowFacts
  <1>3. settle[x] \in SettlementRow
    BY <1>1, <1>2
  <1>4. /\ row \in SettlementRow /\ row.status = new
        /\ row.store = settle[x].store /\ row.amount = settle[x].amount
    BY <1>3 DEF SettlementRow, SettlementStatus
  <1>5. settle' = [settle EXCEPT ![x] = row]
    BY <1>1, <1>2
  <1>6. SettlementMoves(settle[x], row)
    BY <1>4 DEF SettlementMoves
  <1> QED
    BY <1>1, <1>2, <1>4, <1>5, <1>6

\* An approval or a rejection writes the status, by id alone.
LEMMA ApproveOrRejectGood ==
    ASSUME IInv, NEW s \in Sessions, ApproveWrite(s) \/ RejectWrite(s)
    PROVE  GoodStep
  <1>1. PICK new \in {"APPROVED_PENDING_PAYMENT", "PAID", "REJECTED"} :
          new # "PAID" /\ settle' = [settle EXCEPT ![session[s].row].status = new]
    BY DEF ApproveWrite, RejectWrite
  <1>2. /\ session[s].kind \in {"approve", "reject", "pay"} /\ Finish(s)
        /\ UNCHANGED <<red, job, chainVars, lost>>
    BY DEF ApproveWrite, RejectWrite, Running
  <1>3. PICK row \in SettlementRow :
              /\ session[s].row \in Settlements
              /\ settle' = [settle EXCEPT ![session[s].row] = row]
              /\ SettlementMoves(settle[session[s].row], row)
              /\ row.status = new /\ row.store \in Stores
    BY <1>1, <1>2, StatusWritten
  <1>4. SessionsTyped' /\ OthersStay(s) /\ session'[s] = Idle
    BY <1>2, Finishes
  <1>5. SessionOK(session[s])'
    BY <1>4 DEF SessionOK, Idle
  <1>6. session'[s].kind = "idle" /\ session[s].kind # "addPay" /\ row.status # "PAID"
        /\ row.status # "NONE"
    BY <1>1, <1>2, <1>3, <1>4 DEF Idle
  <1> QED
    BY <1>2, <1>3, <1>4, <1>5, <1>6, SettleStep

\* paySettlement writes PAID and then owes the order.
LEMMA PayWriteGood ==
    ASSUME IInv, NEW s \in Sessions, PayWrite(s)
    PROVE  GoodStep
  <1>1. /\ session[s].kind = "pay" /\ GoOn(s, "addPay") /\ UNCHANGED <<red, job, chainVars, lost>>
        /\ settle' = [settle EXCEPT ![session[s].row].status = "PAID"]
    BY DEF PayWrite, Running
  <1>2. PICK row \in SettlementRow :
              /\ session[s].row \in Settlements
              /\ settle' = [settle EXCEPT ![session[s].row] = row]
              /\ SettlementMoves(settle[session[s].row], row)
              /\ row.status = "PAID" /\ row.store \in Stores
              /\ row.store = settle[session[s].row].store
              /\ row.amount = settle[session[s].row].amount
    BY <1>1, StatusWritten
  <1>3. /\ SessionsTyped' /\ OthersStay(s)
        /\ session'[s].kind = "addPay" /\ session'[s].row = session[s].row
        /\ session'[s].user = session[s].user /\ session'[s].amount = session[s].amount
    BY <1>1, GoesOn DEF Kinds
  <1>4. settle'[session[s].row] = row
    BY <1>2 DEF IInv, Typed
  <1>5. SessionOK(session[s])'
    BY <1>1, <1>2, <1>3, <1>4 DEF IInv, SessionOK
  <1> QED
    BY <1>1, <1>2, <1>3, <1>5, SettleStep

-----------------------------------------------------------------------------
(* blockchainQueue.add. *)

\* The queue after the job k was added to it.
JobAdded(k, from, to, amount) ==
    /\ k \in Jobs /\ job[k].state = "none"
    /\ job' \in [Jobs -> JobRow]
    /\ \A j \in Jobs : j # k => job'[j] = job[j]
    /\ job'[k].state = "waiting"
    /\ job'[k].from = from /\ job'[k].to = to /\ job'[k].amount = amount

\* blockchainQueue.add takes the next free copy.
LEMMA AddAdds ==
    ASSUME IInv, NEW kind, NEW row, NEW from \in Accounts, NEW to \in Accounts, NEW amount \in Nat,
           \A n \in 1..MaxOrders : <<kind, row, n>> \in Jobs,
           Add(kind, row, from, to, amount)
    PROVE  \E n \in 1..MaxOrders : JobAdded(<<kind, row, n>>, from, to, amount)
  <1>1. PICK n \in 1..MaxOrders :
          /\ job[<<kind, row, n>>].state = "none"
          /\ job' = [job EXCEPT ![<<kind, row, n>>] =
                       [NoJob EXCEPT !.state = "waiting", !.from = from, !.to = to,
                                     !.amount = amount]]
    BY DEF Add
  <1> DEFINE k == <<kind, row, n>>
             new == [NoJob EXCEPT !.state = "waiting", !.from = from, !.to = to, !.amount = amount]
  <1>2. NoJob \in JobRow
    BY ParametersOK DEF NoJob, JobRow, JobState
  <1>3. /\ new \in JobRow /\ new.state = "waiting" /\ new.from = from /\ new.to = to
        /\ new.amount = amount
    BY <1>2 DEF JobRow, JobState
  <1>4. k \in Jobs /\ job' = [job EXCEPT ![k] = new] /\ job[k].state = "none"
    BY <1>1
  <1> HIDE DEF k, new
  <1>5. JobAdded(k, from, to, amount)
    BY <1>3, <1>4 DEF IInv, Typed, JobAdded
  <1> QED
    BY <1>5 DEF k

\* The parts of the invariant that a new job does not touch.
LEMMA AddFrame ==
    ASSUME IInv, NEW s \in Sessions, NEW k, NEW from \in Accounts, NEW to \in Accounts, NEW amount,
           JobAdded(k, from, to, amount), Finish(s), UNCHANGED <<rowVars, chainVars, lost>>
    PROVE  /\ Typed' /\ RowsMove /\ RowFacts' /\ ChainFacts' /\ HashIsProof'
           /\ OthersStay(s) /\ session'[s].kind = "idle"
           /\ \A t \in Sessions : session'[t] = session[t] \/ SessionOK(session[t])'
           /\ \A j \in Jobs : job'[j].state # "none" =>
                 job'[j].from \in Accounts /\ job'[j].to \in Accounts
  <1> USE DEF rowVars, chainVars
  <1>1. SessionsTyped' /\ OthersStay(s) /\ session'[s] = Idle
    BY Finishes
  <1>2. Typed'
    BY <1>1 DEF IInv, Typed, SessionsTyped, JobAdded
  <1>3. RowsMove /\ RowFacts'
    BY DEF IInv, RowsMove, MayBecome, SettlementMoves, RowFacts, Charged
  <1>4. ChainFacts'
    BY DEF IInv, Typed, Transaction, ChainFacts, JobAdded
  <1>5. HashIsProof'
    BY HashFrame
  <1>6. SessionOK(session[s])'
    BY <1>1 DEF SessionOK, Idle
  <1>7. session'[s].kind = "idle"
    BY <1>1 DEF Idle
  <1>8. \A j \in Jobs : job'[j].state # "none" =>
          job'[j].from \in Accounts /\ job'[j].to \in Accounts
    BY DEF IInv, OrderFacts, JobAdded
  <1> QED
    BY <1>1, <1>2, <1>3, <1>4, <1>5, <1>6, <1>7, <1>8 DEF OthersStay

\* The orders of one row.
SaleFacts(r) ==
    /\ \A m, n \in Orders("sale", r) : m = n
    /\ Orders("sale", r) # {} => Charged(r)
    /\ \A n \in Orders("sale", r) :
          LET o == job[<<"sale", r, n>>]
          IN o.from = red[r].user /\ o.to = red[r].store /\ o.amount = red[r].amount
RefundFacts(r) ==
    /\ Orders("refund", r) # {} => red[r].status = "REFUNDED"
    /\ \A n \in Orders("refund", r) :
          LET o == job[<<"refund", r, n>>]
          IN o.from = red[r].store /\ o.to = red[r].user /\ o.amount = red[r].amount
SettleFacts(x) ==
    \A n \in Orders("settlement", x) :
        LET o == job[<<"settlement", x, n>>]
        IN /\ settle[x].status # "PENDING"
           /\ o.from = settle[x].store /\ o.to = Treasury
           /\ o.amount = settle[x].amount

\* The other rows of the same kind, and the rows of other kinds, keep their orders.
LEMMA AddedElsewhere ==
    ASSUME NEW kind, NEW row, NEW n, NEW from, NEW to, NEW amount,
           JobAdded(<<kind, row, n>>, from, to, amount),
           NEW k, NEW q, k # kind \/ q # row, \A m \in 1..MaxOrders : <<k, q, m>> \in Jobs
    PROVE  /\ \A m \in 1..MaxOrders : job'[<<k, q, m>>] = job[<<k, q, m>>]
           /\ Orders(k, q)' = Orders(k, q)
  <1>1. \A m \in 1..MaxOrders : <<k, q, m>> # <<kind, row, n>>
    OBVIOUS
  <1>2. \A m \in 1..MaxOrders : job'[<<k, q, m>>] = job[<<k, q, m>>]
    BY <1>1 DEF JobAdded
  <1> QED
    BY <1>2 DEF Orders

\* Sale orders of other codes are what they were.
LEMMA SalesElsewhere ==
    ASSUME IInv, NEW kind, NEW row, NEW n, NEW from, NEW to, NEW amount,
           JobAdded(<<kind, row, n>>, from, to, amount), UNCHANGED rowVars,
           NEW q \in Redemptions, kind # "sale" \/ q # row
    PROVE  SaleFacts(q)' /\ Orders("sale", q)' = Orders("sale", q)
  <1>1. /\ \A m \in 1..MaxOrders : job'[<<"sale", q, m>>] = job[<<"sale", q, m>>]
        /\ Orders("sale", q)' = Orders("sale", q)
    <2>1. \A m \in 1..MaxOrders : <<"sale", q, m>> \in Jobs
      BY JobKeys
    <2>2. "sale" # kind \/ q # row
      OBVIOUS
    <2> QED
      BY <2>1, <2>2, AddedElsewhere
  <1>2. SaleFacts(q) /\ Orders("sale", q) \subseteq 1..MaxOrders
    BY DEF IInv, OrderFacts, SaleFacts, Orders
  <1> QED
    BY <1>1, <1>2 DEF SaleFacts, Charged, rowVars

\* Refund orders of other codes are what they were.
LEMMA RefundsElsewhere ==
    ASSUME IInv, NEW kind, NEW row, NEW n, NEW from, NEW to, NEW amount,
           JobAdded(<<kind, row, n>>, from, to, amount), UNCHANGED rowVars,
           NEW q \in Redemptions, kind # "refund" \/ q # row
    PROVE  RefundFacts(q)'
  <1>1. /\ \A m \in 1..MaxOrders : job'[<<"refund", q, m>>] = job[<<"refund", q, m>>]
        /\ Orders("refund", q)' = Orders("refund", q)
    <2>1. \A m \in 1..MaxOrders : <<"refund", q, m>> \in Jobs
      BY JobKeys
    <2>2. "refund" # kind \/ q # row
      OBVIOUS
    <2> QED
      BY <2>1, <2>2, AddedElsewhere
  <1>2. RefundFacts(q) /\ Orders("refund", q) \subseteq 1..MaxOrders
    BY DEF IInv, OrderFacts, RefundFacts, Orders
  <1> QED
    BY <1>1, <1>2 DEF RefundFacts, rowVars

\* Orders of other settlements are what they were.
LEMMA SettlementsElsewhere ==
    ASSUME IInv, NEW kind, NEW row, NEW n, NEW from, NEW to, NEW amount,
           JobAdded(<<kind, row, n>>, from, to, amount), UNCHANGED rowVars,
           NEW x \in Settlements, kind # "settlement" \/ x # row
    PROVE  SettleFacts(x)' /\ Orders("settlement", x)' = Orders("settlement", x)
  <1>1. /\ \A m \in 1..MaxOrders : job'[<<"settlement", x, m>>] = job[<<"settlement", x, m>>]
        /\ Orders("settlement", x)' = Orders("settlement", x)
    <2>1. \A m \in 1..MaxOrders : <<"settlement", x, m>> \in Jobs
      BY JobKeys
    <2>2. "settlement" # kind \/ x # row
      OBVIOUS
    <2> QED
      BY <2>1, <2>2, AddedElsewhere
  <1>2. SettleFacts(x) /\ Orders("settlement", x) \subseteq 1..MaxOrders
    BY DEF IInv, PaidIsOrdered, SettleFacts, Orders
  <1> QED
    BY <1>1, <1>2 DEF SettleFacts, rowVars

\* The row for which the order is added gains that order.
LEMMA AddedHere ==
    ASSUME NEW kind, NEW row, NEW n \in 1..MaxOrders, NEW from, NEW to, NEW amount,
           JobAdded(<<kind, row, n>>, from, to, amount), \A m \in 1..MaxOrders : <<kind, row, m>> \in Jobs
    PROVE  /\ Orders(kind, row)' = Orders(kind, row) \cup {n}
           /\ \A m \in Orders(kind, row) : job'[<<kind, row, m>>] = job[<<kind, row, m>>]
  <1>1. \A m \in 1..MaxOrders : m # n => job'[<<kind, row, m>>] = job[<<kind, row, m>>]
    BY DEF JobAdded
  <1>2. job[<<kind, row, n>>].state = "none" /\ job'[<<kind, row, n>>].state # "none"
    BY DEF JobAdded
  <1> QED
    BY <1>1, <1>2 DEF Orders

\* A settlement shown as PAID stays accounted for when an order is added.
LEMMA PaidStays ==
    ASSUME IInv, NEW s \in Sessions, OthersStay(s), UNCHANGED <<rowVars, lost>>,
           \A x \in Settlements : Orders("settlement", x) \subseteq Orders("settlement", x)',
           \A x \in Settlements : Running(s, "addPay") /\ session[s].row = x =>
               Orders("settlement", x)' # {},
           \A x \in Settlements : SettleFacts(x)'
    PROVE  PaidIsOrdered'
  <1>1. ASSUME NEW x \in Settlements, settle'[x].status = "PAID"
        PROVE  \/ Orders("settlement", x)' # {}
               \/ x \in lost'
               \/ \E t \in Sessions : Running(t, "addPay")' /\ session'[t].row = x
    <2>1. CASE Orders("settlement", x) # {}
      BY <2>1
    <2>2. CASE x \in lost
      BY <2>2
    <2>3. CASE \E t \in Sessions : Running(t, "addPay") /\ session[t].row = x
      <3>1. PICK t \in Sessions : Running(t, "addPay") /\ session[t].row = x
        BY <2>3
      <3>2. CASE t = s
        BY <1>1, <3>1, <3>2
      <3>3. CASE t # s
        BY <3>1, <3>3 DEF OthersStay, Running
      <3> QED
        BY <3>2, <3>3
    <2> QED
      BY <1>1, <2>1, <2>2, <2>3 DEF IInv, PaidIsOrdered, rowVars
  <1> QED
    BY <1>1 DEF PaidIsOrdered, SettleFacts

\* The order of a sale is its first: one session only is left to add it.
LEMMA AddSaleGood ==
    ASSUME IInv, NEW s \in Sessions, AddSale(s)
    PROVE  GoodStep
  <1>0. PICK r : r = session[s].row
    OBVIOUS
  <1>1. /\ Running(s, "addSale") /\ Finish(s) /\ UNCHANGED <<rowVars, chainVars, lost>>
        /\ Add("sale", r, session[s].user, red[r].store, session[s].amount)
    BY <1>0 DEF AddSale
  <1>2. /\ r \in Redemptions /\ Charged(r) /\ Orders("sale", r) = {}
        /\ session[s].user = red[r].user /\ session[s].amount = red[r].amount
    BY <1>0, <1>1 DEF IInv, LockFacts, SessionOK, Running
  <1>3. red[r].user \in Accounts /\ red[r].store \in Accounts /\ red[r].amount \in Nat
    BY <1>2 DEF IInv, Typed, RedemptionRow, RowFacts, Charged, Accounts
  <1>4. \A m \in 1..MaxOrders : <<"sale", r, m>> \in Jobs
    BY <1>2, JobKeys
  <1>5. PICK n \in 1..MaxOrders : JobAdded(<<"sale", r, n>>, red[r].user, red[r].store, red[r].amount)
    BY <1>1, <1>2, <1>3, <1>4, AddAdds
  <1>6. /\ Typed' /\ RowsMove /\ RowFacts' /\ ChainFacts' /\ HashIsProof'
        /\ OthersStay(s) /\ session'[s].kind = "idle"
        /\ \A t \in Sessions : session'[t] = session[t] \/ SessionOK(session[t])'
        /\ \A j \in Jobs : job'[j].state # "none" =>
              job'[j].from \in Accounts /\ job'[j].to \in Accounts
    BY <1>1, <1>3, <1>5, AddFrame
  <1>7. SaleFacts(r)'
    <2>1. Orders("sale", r)' = {n}
      BY <1>2, <1>4, <1>5, AddedHere
    <2>2. LET o == job'[<<"sale", r, n>>]
          IN o.from = red'[r].user /\ o.to = red'[r].store /\ o.amount = red'[r].amount
      BY <1>1, <1>5 DEF JobAdded, rowVars
    <2> QED
      BY <1>1, <1>2, <2>1, <2>2 DEF SaleFacts, Charged, rowVars
  <1>8. \A q \in Redemptions : q # r => SaleFacts(q)' /\ Orders("sale", q)' = Orders("sale", q)
    BY <1>1, <1>5, SalesElsewhere
  <1>9. \A q \in Redemptions : RefundFacts(q)'
    BY <1>1, <1>5, RefundsElsewhere
  <1>10. OrderFacts'
    BY <1>6, <1>7, <1>8, <1>9 DEF OrderFacts, SaleFacts, RefundFacts
  <1>11. PaidIsOrdered'
    <2>1. \A x \in Settlements : SettleFacts(x)' /\ Orders("settlement", x)' = Orders("settlement", x)
      BY <1>1, <1>5, SettlementsElsewhere
    <2> QED
      BY <1>1, <1>6, <2>1, PaidStays DEF Running
  <1>12. LockFacts'
    <2>1. \A t \in Sessions : t # s /\ Running(t, "addSale") => session[t].row # r
      BY <1>0, <1>1 DEF IInv, LockFacts, Running
    <2>2. \A t \in Sessions : Running(t, "addSale") => session[t].row \in Redemptions
      BY DEF IInv, SessionOK, Running
    <2>3. ASSUME NEW t \in Sessions, session'[t].kind \in {"balance", "commit", "addSale"}
          PROVE  /\ session'[t] = session[t]
                 /\ session[t].kind # "addSale" =>
                       red'[session[t].row].status = red[session[t].row].status
                 /\ session[t].kind = "addSale" =>
                       Orders("sale", session[t].row)' = Orders("sale", session[t].row)
      <3>1. t # s /\ session'[t] = session[t]
        BY <1>6, <2>3 DEF OthersStay
      <3> QED
        BY <1>1, <1>8, <2>1, <2>2, <3>1 DEF Running, rowVars
    <2> QED
      BY <2>3, LocksFrame
  <1> QED
    BY <1>6, <1>10, <1>11, <1>12, StepPreserves

\* A refund is ordered for a REFUNDED code, to the buyer of the sale.
LEMMA AddRefundGood ==
    ASSUME IInv, NEW s \in Sessions, AddRefund(s)
    PROVE  GoodStep
  <1>0. PICK r : r = session[s].row
    OBVIOUS
  <1>1. /\ Running(s, "addRefund") /\ Finish(s) /\ UNCHANGED <<rowVars, chainVars, lost>>
        /\ Add("refund", r, red[r].store, session[s].user, red[r].amount)
    BY <1>0 DEF AddRefund
  <1>2. /\ r \in Redemptions /\ red[r].status = "REFUNDED" /\ session[s].user = red[r].user
    BY <1>0, <1>1 DEF IInv, SessionOK, Running
  <1>3. red[r].user \in Accounts /\ red[r].store \in Accounts /\ red[r].amount \in Nat
    BY <1>2 DEF IInv, Typed, RedemptionRow, RowFacts, Charged, Accounts
  <1>4. \A m \in 1..MaxOrders : <<"refund", r, m>> \in Jobs
    BY <1>2, JobKeys
  <1>5. PICK n \in 1..MaxOrders : JobAdded(<<"refund", r, n>>, red[r].store, red[r].user, red[r].amount)
    BY <1>1, <1>2, <1>3, <1>4, AddAdds
  <1>6. /\ Typed' /\ RowsMove /\ RowFacts' /\ ChainFacts' /\ HashIsProof'
        /\ OthersStay(s) /\ session'[s].kind = "idle"
        /\ \A t \in Sessions : session'[t] = session[t] \/ SessionOK(session[t])'
        /\ \A j \in Jobs : job'[j].state # "none" =>
              job'[j].from \in Accounts /\ job'[j].to \in Accounts
    BY <1>1, <1>3, <1>5, AddFrame
  <1>7. RefundFacts(r)'
    <2>1. /\ Orders("refund", r)' = Orders("refund", r) \cup {n}
          /\ \A m \in Orders("refund", r) : job'[<<"refund", r, m>>] = job[<<"refund", r, m>>]
      BY <1>4, <1>5, AddedHere
    <2>2. LET o == job'[<<"refund", r, n>>]
          IN o.from = red'[r].store /\ o.to = red'[r].user /\ o.amount = red'[r].amount
      BY <1>1, <1>5 DEF JobAdded, rowVars
    <2>3. RefundFacts(r)
      BY <1>2 DEF IInv, OrderFacts, RefundFacts
    <2> QED
      BY <1>1, <1>2, <2>1, <2>2, <2>3 DEF RefundFacts, rowVars
  <1>8. \A q \in Redemptions : SaleFacts(q)' /\ Orders("sale", q)' = Orders("sale", q)
    BY <1>1, <1>5, SalesElsewhere
  <1>9. \A q \in Redemptions : q # r => RefundFacts(q)'
    BY <1>1, <1>5, RefundsElsewhere
  <1>10. OrderFacts'
    BY <1>6, <1>7, <1>8, <1>9 DEF OrderFacts, SaleFacts, RefundFacts
  <1>11. PaidIsOrdered'
    <2>1. \A x \in Settlements : SettleFacts(x)' /\ Orders("settlement", x)' = Orders("settlement", x)
      BY <1>1, <1>5, SettlementsElsewhere
    <2> QED
      BY <1>1, <1>6, <2>1, PaidStays DEF Running
  <1>12. LockFacts'
    <2>2. \A t \in Sessions : Running(t, "addSale") => session[t].row \in Redemptions
      BY DEF IInv, SessionOK, Running
    <2>3. ASSUME NEW t \in Sessions, session'[t].kind \in {"balance", "commit", "addSale"}
          PROVE  /\ session'[t] = session[t]
                 /\ session[t].kind # "addSale" =>
                       red'[session[t].row].status = red[session[t].row].status
                 /\ session[t].kind = "addSale" =>
                       Orders("sale", session[t].row)' = Orders("sale", session[t].row)
      <3>1. t # s /\ session'[t] = session[t]
        BY <1>6, <2>3 DEF OthersStay
      <3> QED
        BY <1>1, <1>8, <2>2, <3>1 DEF Running, rowVars
    <2> QED
      BY <2>3, LocksFrame
  <1> QED
    BY <1>6, <1>10, <1>11, <1>12, StepPreserves

\* A settlement is ordered by the handler that wrote it PAID.
LEMMA AddPayGood ==
    ASSUME IInv, NEW s \in Sessions, AddPay(s)
    PROVE  GoodStep
  <1>0. PICK x : x = session[s].row
    OBVIOUS
  <1>1. /\ Running(s, "addPay") /\ Finish(s) /\ UNCHANGED <<rowVars, chainVars, lost>>
        /\ Add("settlement", x, session[s].user, Treasury, session[s].amount)
    BY <1>0 DEF AddPay
  <1>2. /\ x \in Settlements /\ settle[x].status \notin {"NONE", "PENDING"}
        /\ session[s].user = settle[x].store /\ session[s].amount = settle[x].amount
    BY <1>0, <1>1 DEF IInv, SessionOK, Running
  <1>3. settle[x].store \in Accounts /\ Treasury \in Accounts /\ settle[x].amount \in Nat
    BY <1>2 DEF IInv, Typed, SettlementRow, RowFacts, Accounts
  <1>4. \A m \in 1..MaxOrders : <<"settlement", x, m>> \in Jobs
    BY <1>2, JobKeys
  <1>5. PICK n \in 1..MaxOrders : JobAdded(<<"settlement", x, n>>, settle[x].store, Treasury, settle[x].amount)
    BY <1>1, <1>2, <1>3, <1>4, AddAdds
  <1>6. /\ Typed' /\ RowsMove /\ RowFacts' /\ ChainFacts' /\ HashIsProof'
        /\ OthersStay(s) /\ session'[s].kind = "idle"
        /\ \A t \in Sessions : session'[t] = session[t] \/ SessionOK(session[t])'
        /\ \A j \in Jobs : job'[j].state # "none" =>
              job'[j].from \in Accounts /\ job'[j].to \in Accounts
    BY <1>1, <1>3, <1>5, AddFrame
  <1>7. /\ Orders("settlement", x)' = Orders("settlement", x) \cup {n}
        /\ \A m \in Orders("settlement", x) :
              job'[<<"settlement", x, m>>] = job[<<"settlement", x, m>>]
    BY <1>4, <1>5, AddedHere
  <1>8. SettleFacts(x)'
    <2>1. LET o == job'[<<"settlement", x, n>>]
          IN o.from = settle'[x].store /\ o.to = Treasury /\ o.amount = settle'[x].amount
      BY <1>1, <1>5 DEF JobAdded, rowVars
    <2>2. SettleFacts(x)
      BY <1>2 DEF IInv, PaidIsOrdered, SettleFacts
    <2> QED
      BY <1>1, <1>2, <1>7, <2>1, <2>2 DEF SettleFacts, rowVars
  <1>9. /\ \A q \in Redemptions : SaleFacts(q)' /\ Orders("sale", q)' = Orders("sale", q)
        /\ \A q \in Redemptions : RefundFacts(q)'
    BY <1>1, <1>5, SalesElsewhere, RefundsElsewhere
  <1>10. OrderFacts'
    BY <1>6, <1>9 DEF OrderFacts, SaleFacts, RefundFacts
  <1>11. PaidIsOrdered'
    <2>1. \A y \in Settlements : y # x =>
             SettleFacts(y)' /\ Orders("settlement", y)' = Orders("settlement", y)
      BY <1>1, <1>5, SettlementsElsewhere
    <2>2. \A y \in Settlements : SettleFacts(y)' /\ Orders("settlement", y) \subseteq Orders("settlement", y)'
      BY <1>7, <1>8, <2>1
    <2>3. \A y \in Settlements : Running(s, "addPay") /\ session[s].row = y =>
             Orders("settlement", y)' # {}
      BY <1>0, <1>7
    <2> QED
      BY <1>1, <1>6, <2>2, <2>3, PaidStays
  <1>12. LockFacts'
    <2>2. \A t \in Sessions : Running(t, "addSale") => session[t].row \in Redemptions
      BY DEF IInv, SessionOK, Running
    <2>3. ASSUME NEW t \in Sessions, session'[t].kind \in {"balance", "commit", "addSale"}
          PROVE  /\ session'[t] = session[t]
                 /\ session[t].kind # "addSale" =>
                       red'[session[t].row].status = red[session[t].row].status
                 /\ session[t].kind = "addSale" =>
                       Orders("sale", session[t].row)' = Orders("sale", session[t].row)
      <3>1. t # s /\ session'[t] = session[t]
        BY <1>6, <2>3 DEF OthersStay
      <3> QED
        BY <1>1, <1>9, <2>2, <3>1 DEF Running, rowVars
    <2> QED
      BY <2>3, LocksFrame
  <1> QED
    BY <1>6, <1>10, <1>11, <1>12, StepPreserves

-----------------------------------------------------------------------------
(* The worker and the chain. *)

\* Rows change in their hash alone, and no handler moves.
LEMMA QueueStep ==
    ASSUME IInv, red' \in [Redemptions -> RedemptionRow],
           \A r \in Redemptions :
               /\ red'[r].status = red[r].status
               /\ <<red'[r].user, red'[r].store, red'[r].amount>>
                     = <<red[r].user, red[r].store, red[r].amount>>
               /\ red[r].status = "NONE" => red'[r].hash = "none",
           UNCHANGED <<settle, session, lost>>, job' \in [Jobs -> JobRow], JobsMove,
           chain' \in [Accounts -> Nat], seq' \in [Accounts -> Nat],
           mempool' \subseteq Transaction, ledger' \subseteq Transaction, ChainFacts', HashIsProof'
    PROVE  GoodStep
  <1>1. Typed'
    BY DEF IInv, Typed
  <1>2. RowsMove /\ RowFacts'
    BY DEF IInv, RowsMove, MayBecome, SettlementMoves, RowFacts, Charged
  <1>3. OrderFacts' /\ PaidIsOrdered'
    BY <1>2, OrdersFrame, PaidFrame
  <1>4. LockFacts'
    <2>1. \A s \in Sessions : session[s].kind \in {"balance", "commit", "addSale"} =>
             session[s].row \in Redemptions
      BY DEF IInv, SessionOK
    <2> QED
      BY <2>1, OrdersKept, LocksFrame
  <1> QED
    BY <1>1, <1>2, <1>3, <1>4, StepPreserves

\* A job that exists gets a new state.
LEMMA JobSet ==
    ASSUME IInv, NEW j \in Jobs, job[j].state # "none", NEW new \in JobRow, new.state # "none",
           new.from = job[j].from, new.to = job[j].to, new.amount = job[j].amount,
           job' = [job EXCEPT ![j] = new]
    PROVE  /\ job' \in [Jobs -> JobRow] /\ JobsMove
           /\ \A i \in Jobs : job'[i].state = "confirmed" =>
                 job[i].state = "confirmed" \/ (i = j /\ new.state = "confirmed")
  <1>1. job \in [Jobs -> JobRow]
    BY DEF IInv, Typed
  <1>2. /\ job' \in [Jobs -> JobRow] /\ job'[j] = new
        /\ \A i \in Jobs : i # j => job'[i] = job[i]
    BY <1>1
  <1>3. JobsMove
    BY <1>2 DEF JobsMove
  <1> QED
    BY <1>2, <1>3

\* Only a job changes its state.
LEMMA JobOnly ==
    ASSUME IInv, NEW j \in Jobs, job[j].state # "none", NEW new \in JobRow, new.state # "none",
           new.from = job[j].from, new.to = job[j].to, new.amount = job[j].amount,
           job' = [job EXCEPT ![j] = new],
           new.state = "confirmed" => \E t \in ledger : t.job = j,
           UNCHANGED <<rowVars, session, chain, seq, ledger, lost>>,
           mempool' \subseteq mempool \cup {[job |-> j, seq |-> job[j].seq]}
    PROVE  GoodStep
  <1>1. /\ job' \in [Jobs -> JobRow] /\ JobsMove
        /\ \A i \in Jobs : job'[i].state = "confirmed" =>
              job[i].state = "confirmed" \/ (i = j /\ new.state = "confirmed")
    BY JobSet
  <1>2. mempool' \subseteq Transaction /\ \A t \in mempool' : t \in mempool \/ t.job = j
    BY DEF IInv, Typed, JobRow, Transaction
  <1>3. ChainFacts'
    <2>1. \A t \in mempool' \cup ledger' : t.job \in Jobs /\ job[t.job].state # "none"
      BY <1>2 DEF IInv, Typed, ChainFacts, Transaction
    <2>2. \A t \in mempool' \cup ledger' : job'[t.job].state # "none"
      BY <1>1, <2>1 DEF JobsMove
    <2>3. \A i \in Jobs : job'[i].state = "confirmed" => \E t \in ledger' : t.job = i
      BY <1>1 DEF IInv, ChainFacts
    <2> QED
      BY <2>2, <2>3 DEF ChainFacts
  <1>4. HashIsProof'
    BY HashFrame DEF rowVars
  <1>5. \A r \in Redemptions : red[r].status = "NONE" => red'[r].hash = "none"
    BY DEF IInv, RowFacts, rowVars
  <1> QED
    BY <1>1, <1>2, <1>3, <1>4, <1>5, QueueStep DEF IInv, Typed, rowVars

\* An attempt reads the sequence number.
LEMMA StartAttemptGood ==
    ASSUME IInv, NEW j \in Jobs, StartAttempt(j)
    PROVE  GoodStep
  <1> DEFINE new == [job[j] EXCEPT !.state = "active", !.seq = seq[job[j].from]]
  <1>1. job \in [Jobs -> JobRow] /\ job[j] \in JobRow /\ job[j].state = "waiting"
    BY DEF IInv, Typed, StartAttempt
  <1>2. seq[job[j].from] \in Nat
    BY <1>1 DEF IInv, Typed, OrderFacts
  <1>3. /\ new \in JobRow /\ new.state = "active"
        /\ new.from = job[j].from /\ new.to = job[j].to /\ new.amount = job[j].amount
    BY <1>1, <1>2 DEF JobRow, JobState
  <1>4. job' = [job EXCEPT ![j] = new]
    BY <1>1 DEF StartAttempt
  <1> HIDE DEF new
  <1> QED
    BY <1>1, <1>3, <1>4, JobOnly DEF StartAttempt, chainVars

\* An attempt sends its transaction.
LEMMA SendGood ==
    ASSUME IInv, NEW j \in Jobs, Send(j)
    PROVE  GoodStep
  <1> DEFINE new == [job[j] EXCEPT !.state = "polling"]
  <1>1. job \in [Jobs -> JobRow] /\ job[j] \in JobRow /\ job[j].state = "active"
    BY DEF IInv, Typed, Send
  <1>2. /\ new \in JobRow /\ new.state = "polling"
        /\ new.from = job[j].from /\ new.to = job[j].to /\ new.amount = job[j].amount
    BY <1>1 DEF JobRow, JobState
  <1>3. job' = [job EXCEPT ![j] = new]
    BY <1>1 DEF Send, SetJob
  <1> HIDE DEF new
  <1> QED
    BY <1>1, <1>2, <1>3, JobOnly DEF Send

\* The polling finds the transaction in a ledger.
LEMMA PollSuccessGood ==
    ASSUME IInv, NEW j \in Jobs, PollSuccess(j)
    PROVE  GoodStep
  <1> DEFINE new == [job[j] EXCEPT !.state = "confirmed", !.seq = 0]
  <1>1. job \in [Jobs -> JobRow] /\ job[j] \in JobRow /\ job[j].state = "polling"
    BY DEF IInv, Typed, PollSuccess
  <1>2. /\ new \in JobRow /\ new.state = "confirmed"
        /\ new.from = job[j].from /\ new.to = job[j].to /\ new.amount = job[j].amount
    BY <1>1 DEF JobRow, JobState
  <1>3. job' = [job EXCEPT ![j] = new]
    BY <1>1 DEF PollSuccess
  <1>4. \E t \in ledger : t.job = j
    BY DEF PollSuccess, Confirms
  <1> HIDE DEF new
  <1> QED
    BY <1>1, <1>2, <1>3, <1>4, JobOnly DEF PollSuccess, chainVars

\* An attempt fails, and the job waits or goes to the dead-letter queue.
LEMMA AttemptFailsGood ==
    ASSUME IInv, NEW j \in Jobs, AttemptFails(j)
    PROVE  GoodStep
  <1> DEFINE a == job[j].attempts
             new == [job[j] EXCEPT !.state = NextState(j), !.seq = 0,
                                   !.attempts = IF a < MaxAttempts THEN a + 1 ELSE a]
  <1>1. job \in [Jobs -> JobRow] /\ job[j] \in JobRow /\ job[j].state # "none"
    BY DEF IInv, Typed, AttemptFails, InWork
  <1>2. /\ NextState(j) \in {"waiting", "failed"}
        /\ (IF a < MaxAttempts THEN a + 1 ELSE a) \in 0..MaxAttempts
    BY <1>1, ParametersOK DEF NextState, JobRow
  <1>3. /\ new \in JobRow /\ new.state = NextState(j)
        /\ new.from = job[j].from /\ new.to = job[j].to /\ new.amount = job[j].amount
    BY <1>1, <1>2 DEF JobRow, JobState
  <1>4. job' = [job EXCEPT ![j] = new]
    BY <1>1 DEF AttemptFails, FailAttempt
  <1>5. new.state # "none" /\ new.state # "confirmed"
    BY <1>2, <1>3
  <1> HIDE DEF new, a
  <1> QED
    BY <1>1, <1>3, <1>4, <1>5, JobOnly DEF AttemptFails, chainVars

\* The worker dies, and the job is handed out again once.
LEMMA JobStallsGood ==
    ASSUME IInv, NEW j \in Jobs, JobStalls(j)
    PROVE  GoodStep
  <1> DEFINE next == IF job[j].stalled THEN "failed" ELSE "waiting"
             new == [job[j] EXCEPT !.state = next, !.stalled = TRUE, !.seq = 0]
  <1>1. job \in [Jobs -> JobRow] /\ job[j] \in JobRow /\ job[j].state # "none"
    BY DEF IInv, Typed, JobStalls, InWork
  <1>2. next \in {"waiting", "failed"}
    OBVIOUS
  <1>3. job' = [job EXCEPT ![j] = new]
    BY <1>1 DEF JobStalls
  <1> HIDE DEF next
  <1>4. /\ new \in JobRow /\ new.state # "none" /\ new.state # "confirmed"
        /\ new.from = job[j].from /\ new.to = job[j].to /\ new.amount = job[j].amount
    BY <1>1, <1>2 DEF JobRow, JobState
  <1> HIDE DEF new
  <1> QED
    BY <1>1, <1>3, <1>4, JobOnly DEF JobStalls, chainVars

\* The processor stores the hash of a transfer that has landed.
LEMMA SaveGood ==
    ASSUME IInv, NEW j \in Jobs, Save(j)
    PROVE  GoodStep
  <1> DEFINE new == [job[j] EXCEPT !.state = "done"]
  <1>1. job \in [Jobs -> JobRow] /\ job[j] \in JobRow /\ job[j].state = "confirmed"
    BY DEF IInv, Typed, Save
  <1>2. /\ new \in JobRow /\ new.state = "done"
        /\ new.from = job[j].from /\ new.to = job[j].to /\ new.amount = job[j].amount
    BY <1>1 DEF JobRow, JobState
  <1>3. job' = [job EXCEPT ![j] = new]
    BY <1>1 DEF Save, SetJob
  <1> HIDE DEF new
  <1>4. CASE j[1] = "settlement"
    BY <1>1, <1>2, <1>3, <1>4, JobOnly DEF Save, chainVars, rowVars
  <1>5. CASE j[1] # "settlement"
    <2> DEFINE r == j[2]
               row == [red[r] EXCEPT !.hash = j[1]]
    <2>1. j[1] \in {"sale", "refund"} /\ r \in Redemptions /\ j = <<j[1], r, j[3]>>
          /\ j[3] \in 1..MaxOrders
      BY <1>5, JobKeys
    <2>2. j[3] \in Orders(j[1], r)
      BY <1>1, <2>1 DEF Orders
    <2>3. red[r].status \in {"COMPLETED", "REFUNDED"}
      <3>1. CASE j[1] = "sale"
        BY <2>1, <2>2, <3>1 DEF IInv, OrderFacts, Charged
      <3>2. CASE j[1] = "refund"
        BY <2>1, <2>2, <3>2 DEF IInv, OrderFacts
      <3> QED
        BY <2>1, <3>1, <3>2
    <2>4. red \in [Redemptions -> RedemptionRow] /\ red[r] \in RedemptionRow
      BY <2>1 DEF IInv, Typed
    <2>5. /\ row \in RedemptionRow /\ row.status = red[r].status /\ row.hash = j[1]
          /\ row.user = red[r].user /\ row.store = red[r].store /\ row.amount = red[r].amount
      BY <2>1, <2>4 DEF RedemptionRow
    <2>6. red' = [red EXCEPT ![r] = row]
      BY <1>5, <2>1, <2>4 DEF Save
    <2> HIDE DEF row
    <2>7. red' \in [Redemptions -> RedemptionRow] /\ red'[r] = row
          /\ \A q \in Redemptions : q # r => red'[q] = red[q]
      BY <2>1, <2>4, <2>5, <2>6
    <2>8. \A q \in Redemptions :
             /\ red'[q].status = red[q].status
             /\ <<red'[q].user, red'[q].store, red'[q].amount>>
                   = <<red[q].user, red[q].store, red[q].amount>>
             /\ red[q].status = "NONE" => red'[q].hash = "none"
      BY <2>3, <2>5, <2>7 DEF IInv, RowFacts
    <2>9. job' \in [Jobs -> JobRow] /\ JobsMove
          /\ \A i \in Jobs : job'[i].state = "confirmed" => job[i].state = "confirmed"
      BY <1>1, <1>2, <1>3, JobSet
    <2>10. ChainFacts'
      BY <2>9, ChainFrame DEF Save, chainVars
    <2>11. HashIsProof'
      <3>1. PICK t \in ledger : t.job = j
        BY <1>1 DEF IInv, ChainFacts
      <3>2. t \in Landed(j[1], r)
        BY <3>1 DEF Landed
      <3>3. \A kind, q : Landed(kind, q)' = Landed(kind, q)
        BY DEF Save, chainVars, Landed
      <3>4. ASSUME NEW q \in Redemptions, red'[q].hash # "none"
            PROVE  Landed(red'[q].hash, q) # {}
        BY <2>5, <2>7, <3>2, <3>4 DEF IInv, HashIsProof
      <3> QED
        BY <3>3, <3>4 DEF HashIsProof
    <2> QED
      BY <2>7, <2>8, <2>9, <2>10, <2>11, QueueStep DEF Save, chainVars, IInv, Typed
  <1> QED
    BY <1>4, <1>5

\* The chain applies or drops a transaction; the database does not notice.
LEMMA ChainStep ==
    ASSUME IInv, UNCHANGED <<rowVars, session, job, lost>>,
           chain' \in [Accounts -> Nat], seq' \in [Accounts -> Nat],
           ledger \subseteq ledger', mempool' \cup ledger' \subseteq mempool \cup ledger
    PROVE  GoodStep
  <1>1. JobsMove /\ \A j \in Jobs : job'[j] = job[j]
    BY DEF JobsMove
  <1>2. ChainFacts'
    BY <1>1, ChainFrame
  <1>3. HashIsProof'
    BY HashFrame DEF rowVars
  <1>4. mempool' \subseteq Transaction /\ ledger' \subseteq Transaction
    BY DEF IInv, Typed
  <1>5. \A r \in Redemptions : red[r].status = "NONE" => red'[r].hash = "none"
    BY DEF IInv, RowFacts, rowVars
  <1> QED
    BY <1>1, <1>2, <1>3, <1>4, <1>5, QueueStep DEF IInv, Typed, rowVars

\* The contract moves tokens the sender has.
LEMMA ApplyGood ==
    ASSUME IInv, NEW t \in mempool, Apply(t)
    PROVE  GoodStep
  <1>1. t.job \in Jobs /\ job[t.job].state # "none"
    BY DEF IInv, Typed, Transaction, ChainFacts
  <1> DEFINE from == job[t.job].from
             to == job[t.job].to
             amount == job[t.job].amount
  <1>2. from \in Accounts /\ to \in Accounts /\ amount \in Nat
    BY <1>1 DEF IInv, Typed, JobRow, OrderFacts
  <1>3. chain \in [Accounts -> Nat] /\ seq \in [Accounts -> Nat]
    BY DEF IInv, Typed
  <1>4. /\ amount <= chain[from] /\ seq' = [seq EXCEPT ![from] = @ + 1]
        /\ chain' = [chain EXCEPT ![from] = @ - amount, ![to] = @ + amount]
        /\ mempool' = mempool \ {t} /\ ledger' = ledger \cup {t}
        /\ UNCHANGED <<rowVars, session, job, lost>>
    BY DEF Apply, Funded
  <1> HIDE DEF from, to, amount
  <1>5. chain[from] - amount \in Nat
    BY <1>2, <1>3, <1>4
  <1>6. chain' \in [Accounts -> Nat] /\ seq' \in [Accounts -> Nat]
    BY <1>2, <1>3, <1>4, <1>5
  <1> QED
    BY <1>4, <1>6, ChainStep

\* The chain drops a transaction.
LEMMA DropGood ==
    ASSUME IInv, NEW t \in mempool, Drop(t)
    PROVE  GoodStep
  BY ChainStep DEF Drop, IInv, Typed

-----------------------------------------------------------------------------
(* Every step of the system. *)

\* Nothing happens.
LEMMA StutteringGood ==
    ASSUME IInv, UNCHANGED vars
    PROVE  GoodStep
  BY ChainStep DEF vars, rowVars, IInv, Typed

\* Every step of Next preserves the invariant and moves rows forward only.
LEMMA EveryStepIsGood == IInv /\ [Next]_vars => GoodStep
  <1> SUFFICES ASSUME IInv, [Next]_vars PROVE GoodStep
    OBVIOUS
  <1>1. CASE RedemptionStep
    BY <1>1, GenerateQrGood, ConfirmRedemptionGood, RefundRedemptionGood, ConfirmLockGood,
       ConfirmBalanceGood, ConfirmCommitGood, AddSaleGood, RefundCheckGood, RefundWriteGood,
       AddRefundGood, ExpirePendingGood, AgeGood DEF RedemptionStep
  <1>2. CASE SettlementStep
    BY <1>2, RequestSettlementGood, RequestCreateGood, SettlementCallGood, RequestCheckGood,
       ApproveOrRejectGood, PayWriteGood, AddPayGood DEF SettlementStep
  <1>3. CASE \E s \in Sessions : HandlerEnds(s)
    BY <1>3, HandlerEndsGood
  <1>4. CASE \E j \in Jobs : JobStep(j) \/ JobStalls(j)
    BY <1>4, StartAttemptGood, SendGood, PollSuccessGood, SaveGood, AttemptFailsGood,
       JobStallsGood DEF JobStep
  <1>5. CASE \E t \in mempool : Apply(t) \/ Drop(t)
    BY <1>5, ApplyGood, DropGood
  <1>6. CASE UNCHANGED vars
    BY <1>6, StutteringGood
  <1> QED
    BY <1>1, <1>2, <1>3, <1>4, <1>5, <1>6 DEF Next

\* The inductive invariant: the rows, the locks of confirmRedemption, the orders in
\* the queue and the transactions on chain agree with each other, for any number of
\* redemptions, settlements, users, handlers and attempts.
THEOREM Inductive == Spec => []IInv
  <1>1. IInv /\ [Next]_vars => IInv'
    BY EveryStepIsGood DEF GoodStep
  <1> QED
    BY <1>1, InitIInv, PTL DEF Spec

\* The orders of a code are few.
LEMMA OneOrder == IInv => ChargedOnce
  <1> SUFFICES ASSUME IInv PROVE ChargedOnce
    OBVIOUS
  <1>1. ASSUME NEW r \in Redemptions
        PROVE  Cardinality(Orders("sale", r)) <= 1
    <2>1. \A m, n \in Orders("sale", r) : m = n
      BY <1>1 DEF IInv, OrderFacts
    <2>2. CASE Orders("sale", r) = {}
      BY <2>2, FS_EmptySet
    <2>3. CASE Orders("sale", r) # {}
      <3>1. PICK n : Orders("sale", r) = {n}
        BY <2>1, <2>3
      <3> QED
        BY <3>1, FS_Singleton
    <2> QED
      BY <2>2, <2>3
  <1> QED
    BY <1>1 DEF IInv, OrderFacts, ChargedOnce, Charged

\* confirmRedemption, its locks and the expiry worker charge a code to one buyer
\* at most, for the amount on its row.
THEOREM CodesAreChargedOnce == Spec => []ChargedOnce
  BY Inductive, OneOrder, PTL

\* The hash that the processor stores with a redemption is that of an applied
\* transfer, whatever was lost, retried or sent twice.
THEOREM HashesAreProofs == Spec => []HashIsProof
  BY Inductive, PTL DEF IInv

\* A settlement that paySettlement wrote PAID has its order, or its handler is at
\* it or ended; orders carry the amount and the store of their settlement.
THEOREM PaidSettlementsAreOrdered == Spec => []PaidIsOrdered
  BY Inductive, PTL DEF IInv

\* Confirmations, refunds and the expiry worker, each with its own way of writing,
\* never take a code back nor change a sale.
THEOREM SalesAreFinal == Spec => SaleIsFinal
  <1>1. IInv /\ [Next]_vars => [\A r \in Redemptions : MayBecome(red[r], red'[r])]_vars
    BY EveryStepIsGood DEF GoodStep, RowsMove
  <1> QED
    BY <1>1, Inductive, PTL DEF Spec, SaleIsFinal

-----------------------------------------------------------------------------
(* What the buyers can pay.  The sums are over rows, so what a step does to  *)
(* them is a fact about the rows it writes.                                  *)

Settled(u) == ~Refunded(u) /\ ~ChargedAgain(u)
Bought(u) == {r \in Redemptions : Completed(r) /\ red[r].user = u}
TakenRows == {r \in Redemptions : Landed("sale", r) # {}}
Amount == [r \in Redemptions |-> red[r].amount]
Taken(u) == Sum(Amount, Bought(u) \cap TakenRows)

\* What confirmRedemption's transaction holds on to: the sum it has read is still
\* the sum, and what it is about to commit fits.
PurchaseOK(c) ==
    /\ c.kind = "balance" /\ Settled(c.user) => c.seen = Spent(c.user)
    /\ c.kind = "commit" /\ Settled(c.user) => Spent(c.user) + c.amount <= Means(c.user)

\* Nobody but the holder of a buyer's lock can spend; the chain has given what the
\* applied sales took, each once; a number that is used up comes with no second
\* transaction.
SolvencyInv ==
    /\ \A s, t \in InTransaction : s # t => session[s].user # session[t].user
    /\ \A s \in Sessions : PurchaseOK(session[s])
    /\ \A u \in Buyers : Settled(u) => /\ chain[u] + Taken(u) = Start[u]
                                       /\ Spent(u) <= Means(u)
    /\ IsFiniteSet(ledger)
    /\ \A t \in ledger : t.seq < seq[job[t.job].from]

\* What Total adds up over redemptions is a sum of their amounts.
LEMMA PriceSum == \A S \in SUBSET Redemptions : Total(S, Price) = Sum(Amount, S)
  <1> SUFFICES ASSUME NEW S \in SUBSET Redemptions PROVE Total(S, Price) = Sum(Amount, S)
    OBVIOUS
  <1> DEFINE ByRow(it) == it = [s \in SUBSET S |->
               IF s = {} THEN 0 ELSE red[Pick(s)].amount + it[s \ {Pick(s)}]]
             BySum(it) == it = [s \in SUBSET S |->
               IF s = {} THEN 0 ELSE Amount[Pick(s)] + it[s \ {Pick(s)}]]
  <1>1. Total(S, Price) = (CHOOSE it : ByRow(it))[S]
    BY DEF Total, Price, MapThenSumSet, MapThenFoldSet, Pick
  <1>2. Sum(Amount, S) = (CHOOSE it : BySum(it))[S]
    BY DEF Sum, MapThenSumSet, MapThenFoldSet, Pick
  <1>3. \A it : ByRow(it) <=> BySum(it)
    <2>1. \A s \in SUBSET S : s # {} => Amount[Pick(s)] = red[Pick(s)].amount
      BY PickIn DEF Amount
    <2> QED BY <2>1
  <1> HIDE DEF ByRow, BySum
  <1>4. (CHOOSE it : ByRow(it)) = (CHOOSE it : BySum(it))
    BY <1>3
  <1> QED
    BY <1>1, <1>2, <1>4

\* What a buyer spent has been taken, or is owed.
SpentOrOwed ==
    \A u \in Buyers :
        /\ IsFiniteSet(Bought(u))
        /\ \A r \in Bought(u) : Amount[r] \in Nat
        /\ Spent(u) = Sum(Amount, Bought(u))
        /\ Owed(u) = Sum(Amount, Bought(u) \ TakenRows)
        /\ Taken(u) \in Nat /\ Owed(u) \in Nat /\ Spent(u) = Taken(u) + Owed(u)

LEMMA SumsOfRows == IInv => SpentOrOwed
  <1> SUFFICES ASSUME IInv, NEW u \in Buyers
               PROVE  /\ IsFiniteSet(Bought(u))
                      /\ \A r \in Bought(u) : Amount[r] \in Nat
                      /\ Spent(u) = Sum(Amount, Bought(u))
                      /\ Owed(u) = Sum(Amount, Bought(u) \ TakenRows)
                      /\ Taken(u) \in Nat /\ Owed(u) \in Nat /\ Spent(u) = Taken(u) + Owed(u)
    BY DEF SpentOrOwed
  <1>1. Bought(u) \in SUBSET Redemptions /\ \A r \in Bought(u) : Amount[r] \in Nat
    BY DEF Bought, Amount, IInv, Typed, RedemptionRow
  <1>2. Spent(u) = Sum(Amount, Bought(u))
    <2>1. Spent(u) = Total(Bought(u), Price)
      BY DEF Spent, Bought
    <2> QED BY <1>1, <2>1, PriceSum
  <1>3. Owed(u) = Sum(Amount, Bought(u) \ TakenRows)
    <2>1. Bought(u) \ TakenRows
            = {r \in Redemptions : /\ Completed(r) /\ red[r].user = u
                                   /\ Landed("sale", r) = {}}
      BY DEF Bought, TakenRows
    <2>2. Owed(u) = Total(Bought(u) \ TakenRows, Price)
      BY <2>1 DEF Owed
    <2>3. Bought(u) \ TakenRows \in SUBSET Redemptions
      BY <1>1
    <2> QED BY <2>2, <2>3, PriceSum
  <1>4. \A S \in SUBSET Bought(u) : IsFiniteSet(S) /\ Sum(Amount, S) \in Nat
    <2> SUFFICES ASSUME NEW S \in SUBSET Bought(u) PROVE IsFiniteSet(S) /\ Sum(Amount, S) \in Nat
      OBVIOUS
    <2>1. IsFiniteSet(S)
      BY <1>1, RowsFinite, FS_Subset
    <2> QED BY <1>1, <2>1, SumNat
  <1>5. Sum(Amount, Bought(u)) = Taken(u) + Sum(Amount, Bought(u) \ TakenRows)
    <2> DEFINE A == TakenRows
               B == Bought(u)
    <2>1. IsFiniteSet(B) /\ \A r \in B : Amount[r] \in Int
      BY <1>1, <1>4
    <2>2. /\ Sum(Amount, B) \in Int /\ Sum(Amount, B \cap A) \in Int
          /\ Sum(Amount, B \ A) \in Int
      BY <1>4
    <2> HIDE DEF A, B
    <2>3. Sum(Amount, B) = Sum(Amount, B \cap A) + Sum(Amount, B \ A)
      <3>1. \A S : IsFiniteSet(S) /\ (\A x \in S : Amount[x] \in Int) =>
               \A T : Sum(Amount, S) = Sum(Amount, S \cap T) + Sum(Amount, S \ T)
        BY SumSplit
      <3>2. \A T : Sum(Amount, B) = Sum(Amount, B \cap T) + Sum(Amount, B \ T)
        BY <2>1, <3>1
      <3> QED BY <3>2
    <2> QED BY <2>3 DEF Taken, A, B
  <1>6. Taken(u) \in Nat /\ Sum(Amount, Bought(u) \ TakenRows) \in Nat
    BY <1>4 DEF Taken
  <1> QED
    BY <1>1, <1>2, <1>3, <1>4, <1>5, <1>6

LEMMA SumsOfRowsAfter == IInv' => SpentOrOwed'
  BY SumsOfRows, PTL

\* A sum that is taken over the same rows, whose amounts stay, stays.
LEMMA SameSum ==
    ASSUME NEW S, IsFiniteSet(S), \A r \in S : Amount'[r] = Amount[r]
    PROVE  Sum(Amount', S) = Sum(Amount, S)
  BY SumAgrees

\* A transfer that has landed is that of a charged row.
LEMMA LandedIsCharged ==
    ASSUME IInv, NEW r \in Redemptions, Landed("sale", r) # {}
    PROVE  Charged(r)
  <1>1. PICK t \in ledger : t.job[1] = "sale" /\ t.job[2] = r
    BY DEF Landed
  <1>2. t.job \in Jobs /\ job[t.job].state # "none"
    BY DEF IInv, Typed, Transaction, ChainFacts
  <1>3. t.job = <<"sale", r, t.job[3]>> /\ t.job[3] \in 1..MaxOrders
    BY <1>1, <1>2, JobKeys
  <1>4. t.job[3] \in Orders("sale", r)
    BY <1>2, <1>3 DEF Orders
  <1> QED
    BY <1>4 DEF IInv, OrderFacts

\* Once a buyer has a refund or is charged again, that is so for good.
LEMMA SettledBefore ==
    ASSUME IInv, RowsMove, ledger \subseteq ledger', IsFiniteSet(ledger'),
           NEW u \in Buyers, Settled(u)'
    PROVE  Settled(u)
  <1>1. ~Refunded(u)
    <2> SUFFICES ASSUME NEW r \in Redemptions, red[r].user = u, red[r].status = "REFUNDED"
                 PROVE  FALSE
      BY DEF Refunded
    <2>1. red'[r].user = u /\ red'[r].status = "REFUNDED"
      BY DEF RowsMove, MayBecome
    <2> QED BY <2>1 DEF Settled, Refunded
  <1>2. ~ChargedAgain(u)
    <2> SUFFICES ASSUME NEW r \in Redemptions, red[r].user = u, Cardinality(Landed("sale", r)) > 1
                 PROVE  FALSE
      BY DEF ChargedAgain
    <2>1. Landed("sale", r) # {}
      BY FS_EmptySet
    <2>2. red'[r].user = u
      BY <2>1, LandedIsCharged DEF RowsMove, MayBecome, Charged
    <2>3. Landed("sale", r) \subseteq Landed("sale", r)' /\ Landed("sale", r)' \subseteq ledger'
      BY DEF Landed
    <2>4. IsFiniteSet(Landed("sale", r)')
      BY <2>3, FS_Subset
    <2>5. /\ IsFiniteSet(Landed("sale", r))
          /\ Cardinality(Landed("sale", r)) <= Cardinality(Landed("sale", r)')
      BY <2>3, <2>4, FS_Subset
    <2>6. Cardinality(Landed("sale", r)) \in Nat /\ Cardinality(Landed("sale", r)') \in Nat
      BY <2>4, <2>5, FS_CardinalityType
    <2>7. Cardinality(Landed("sale", r)') > 1
      BY <2>5, <2>6
    <2>8. Cardinality(Landed("sale", r))' > 1
      BY <2>7
    <2> QED BY <2>2, <2>8 DEF Settled, ChargedAgain
  <1> QED
    BY <1>1, <1>2 DEF Settled
\* A buyer to whom no redemption is confirmed, and who has no refunds, has bought
\* the same rows.
BuysNothing(u) == \A r \in Redemptions : Completed(r)' /\ red'[r].user = u => Completed(r)

LEMMA NothingBought ==
    ASSUME IInv, IInv', RowsMove, NEW u \in Buyers, ~Refunded(u)', BuysNothing(u)
    PROVE  /\ Bought(u)' = Bought(u)
           /\ \A r \in Bought(u) : Amount'[r] = Amount[r]
           /\ Spent(u)' = Spent(u)
           /\ ledger' = ledger => Taken(u)' = Taken(u)
  <1>1. ASSUME NEW r \in Bought(u)
        PROVE  r \in Bought(u)' /\ Amount'[r] = Amount[r]
    <2>1. r \in Redemptions /\ red[r].status = "COMPLETED" /\ red[r].user = u
      BY DEF Bought, Completed
    <2>2. /\ red'[r].user = u /\ red'[r].amount = red[r].amount
          /\ red'[r].status \in {"COMPLETED", "REFUNDED"}
      BY <2>1 DEF RowsMove, MayBecome
    <2>3. red'[r].status = "COMPLETED"
      BY <2>1, <2>2 DEF Refunded
    <2> QED BY <2>1, <2>2, <2>3 DEF Bought, Completed, Amount
  <1>2. ASSUME NEW r \in Bought(u)'
        PROVE  r \in Bought(u)
    <2>1. r \in Redemptions /\ Completed(r)' /\ red'[r].user = u
      BY <1>2 DEF Bought, Completed
    <2>2. red[r].status = "COMPLETED"
      BY <2>1 DEF BuysNothing, Completed
    <2>3. red'[r].user = red[r].user
      BY <2>1, <2>2 DEF RowsMove, MayBecome
    <2> QED BY <2>1, <2>2, <2>3 DEF Bought, Completed
  <1>3. Bought(u)' = Bought(u)
    BY <1>1, <1>2
  <1>4. SpentOrOwed /\ SpentOrOwed'
    BY SumsOfRows, SumsOfRowsAfter
  <1>5. IsFiniteSet(Bought(u)) /\ Spent(u) = Sum(Amount, Bought(u))
    BY <1>4 DEF SpentOrOwed
  <1>6. Spent(u)' = Sum(Amount', Bought(u)')
    BY <1>4 DEF SpentOrOwed, Sum, MapThenSumSet, MapThenFoldSet
  <1>7. Spent(u)' = Spent(u)
    <2>1. Sum(Amount', Bought(u)) = Sum(Amount, Bought(u))
      BY <1>1, <1>5, SameSum
    <2> QED BY <1>3, <1>5, <1>6, <2>1
  <1>8. ASSUME ledger' = ledger PROVE Taken(u)' = Taken(u)
    <2>1. TakenRows' = TakenRows
      BY <1>8 DEF TakenRows, Landed
    <2>2. Taken(u)' = Sum(Amount', Bought(u)' \cap TakenRows')
      BY DEF Taken, Sum, MapThenSumSet, MapThenFoldSet
    <2>3. IsFiniteSet(Bought(u) \cap TakenRows)
      BY <1>5, FS_Subset
    <2>4. Sum(Amount', Bought(u) \cap TakenRows) = Sum(Amount, Bought(u) \cap TakenRows)
      BY <1>1, <2>3, SameSum
    <2> QED BY <1>3, <2>1, <2>2, <2>4 DEF Taken
  <1> QED
    BY <1>1, <1>3, <1>7, <1>8

\* A job keeps its sender.
SendersStay == \A j \in Jobs : job[j].state # "none" => job'[j].from = job[j].from

\* Numbers that are used up stay so, while the chain stands still.
LEMMA NumbersStay ==
    ASSUME IInv, SolvencyInv, UNCHANGED <<seq, ledger>>, SendersStay
    PROVE  IsFiniteSet(ledger') /\ \A t \in ledger' : t.seq < seq'[job'[t.job].from]
  <1>1. \A t \in ledger : t.job \in Jobs /\ job[t.job].state # "none"
    BY DEF IInv, Typed, Transaction, ChainFacts
  <1> QED
    BY <1>1 DEF SolvencyInv, SendersStay

\* What the chain and the buyers' rows say of each other, while neither moves.
LEMMA AccountsStay ==
    ASSUME IInv, IInv', RowsMove, SolvencyInv, UNCHANGED <<chain, ledger>>,
           NEW u \in Buyers, Settled(u)', BuysNothing(u)
    PROVE  /\ Settled(u) /\ Spent(u)' = Spent(u)
           /\ chain'[u] + Taken(u)' = Start[u] /\ Spent(u)' <= Means(u)
  <1>1. Settled(u)
    BY SettledBefore DEF SolvencyInv
  <1>2. ~Refunded(u)'
    BY DEF Settled
  <1>3. Spent(u)' = Spent(u) /\ Taken(u)' = Taken(u)
    BY <1>2, NothingBought
  <1>4. chain[u] + Taken(u) = Start[u] /\ Spent(u) <= Means(u)
    BY <1>1 DEF SolvencyInv
  <1> QED
    BY <1>1, <1>3, <1>4

\* A step that confirms nothing and leaves the chain alone.
Calm ==
    /\ \A u \in Buyers : BuysNothing(u)
    /\ UNCHANGED <<chain, seq, ledger>>
    /\ SendersStay

\* It keeps all of the invariant if the handlers that move are in order.
LEMMA CalmKeeps ==
    ASSUME IInv, GoodStep, SolvencyInv, Calm,
           \A s, t \in InTransaction' : s # t => session'[s].user # session'[t].user,
           \A s \in Sessions : session'[s].kind \in {"balance", "commit"} =>
               session'[s] = session[s] \/ PurchaseOK(session[s])'
    PROVE  SolvencyInv'
  <1> USE DEF GoodStep
  <1>1. ASSUME NEW s \in Sessions PROVE PurchaseOK(session[s])'
    <2>1. CASE session'[s].kind \notin {"balance", "commit"}
      BY <2>1 DEF PurchaseOK
    <2>2. CASE session'[s].kind \in {"balance", "commit"} /\ session'[s] = session[s]
      <3>1. session[s].user \in Buyers /\ PurchaseOK(session[s])
        BY <2>2 DEF IInv, SessionOK, SolvencyInv
      <3>2. CASE Settled(session[s].user)'
        <4>1. Settled(session[s].user) /\ Spent(session[s].user)' = Spent(session[s].user)
          BY <2>2, <3>1, <3>2, AccountsStay DEF Calm
        <4> QED BY <2>2, <3>1, <3>2, <4>1 DEF PurchaseOK
      <3>3. CASE ~Settled(session[s].user)'
        BY <2>2, <3>3 DEF PurchaseOK
      <3> QED BY <3>2, <3>3
    <2> QED BY <2>1, <2>2
  <1>2. \A u \in Buyers : Settled(u)' => chain'[u] + Taken(u)' = Start[u] /\ Spent(u)' <= Means(u)
    BY AccountsStay DEF Calm
  <1>3. IsFiniteSet(ledger') /\ \A t \in ledger' : t.seq < seq'[job'[t.job].from]
    BY NumbersStay DEF Calm
  <1> QED
    BY <1>1, <1>2, <1>3 DEF SolvencyInv

\* No handler enters a transaction or goes on in one.
Quiet ==
    /\ Calm
    /\ \A s \in Sessions : session'[s].kind \in {"balance", "commit"} => session'[s] = session[s]

LEMMA QuietKeeps ==
    ASSUME IInv, GoodStep, SolvencyInv, Quiet
    PROVE  SolvencyInv'
  <1>1. \A s, t \in InTransaction' : s # t => session'[s].user # session'[t].user
    BY DEF SolvencyInv, InTransaction, Quiet
  <1> QED
    BY <1>1, CalmKeeps DEF Quiet

-----------------------------------------------------------------------------
(* Most steps are quiet.                                                    *)

\* A handler takes up a continuation outside the transaction of a confirmation.
LEMMA QuietSession ==
    ASSUME IInv, NEW s \in Sessions, NEW c, session' = [session EXCEPT ![s] = c],
           c.kind \notin {"balance", "commit"}, Calm
    PROVE  Quiet
  <1>1. \A t \in Sessions : session'[t] = IF t = s THEN c ELSE session[t]
    BY DEF IInv, Typed
  <1> QED
    BY <1>1 DEF Quiet

LEMMA QuietGoOn ==
    ASSUME IInv, NEW s \in Sessions, NEW k \in Kinds, GoOn(s, k),
           k \notin {"balance", "commit"}, Calm
    PROVE  Quiet
  <1>1. OthersStay(s) /\ session'[s].kind = k
    BY GoesOn
  <1> QED
    BY <1>1 DEF Quiet, OthersStay

LEMMA QuietFinish ==
    ASSUME IInv, NEW s \in Sessions, Finish(s), Calm
    PROVE  Quiet
  BY QuietSession DEF Finish, Idle

\* Rows, jobs and chain as they are.
LEMMA CalmWhenStill == UNCHANGED <<red, job, chain, seq, ledger>> => Calm
  BY DEF Calm, BuysNothing, Completed, SendersStay

\* An order is added in a place that was free.
LEMMA CalmWhenAdding ==
    ASSUME IInv, NEW kind, NEW row, NEW from, NEW to, NEW amount,
           Add(kind, row, from, to, amount), UNCHANGED <<red, chainVars>>
    PROVE  Calm
  <1>1. PICK k, new : job[k].state = "none" /\ job' = [job EXCEPT ![k] = new]
    BY DEF Add
  <1>2. SendersStay
    BY <1>1 DEF IInv, Typed, SendersStay
  <1> QED
    BY <1>2 DEF Calm, BuysNothing, Completed, chainVars

\* Endpoints and workers that write redemptions without confirming one.
LEMMA RedemptionsQuiet ==
    ASSUME IInv
    PROVE  /\ \A st \in Stores, r \in Redemptions, a \in Amounts : GenerateQr(st, r, a) => Quiet
           /\ \A s \in Sessions : RefundWrite(s) => Quiet
           /\ ExpirePending => Quiet
           /\ \A r \in Redemptions : Age(r) => Quiet
  <1>1. red \in [Redemptions -> RedemptionRow]
    BY DEF IInv, Typed
  <1>2. ASSUME UNCHANGED <<job, chainVars>>, \A q \in Redemptions : Completed(q)' => Completed(q)
        PROVE  Calm
    BY <1>2 DEF Calm, BuysNothing, SendersStay, chainVars
  <1>3. session' = session /\ Calm => Quiet
    BY DEF Quiet
  <1>4. ASSUME NEW st \in Stores, NEW r \in Redemptions, NEW a \in Amounts, GenerateQr(st, r, a) PROVE Quiet
    <2> DEFINE new == [NoRedemption EXCEPT !.status = "PENDING", !.store = st, !.amount = a]
    <2>1. new.status = "PENDING" /\ red' = [red EXCEPT ![r] = new]
      BY <1>4 DEF GenerateQr, NoRedemption
    <2> HIDE DEF new
    <2>2. \A q \in Redemptions : Completed(q)' => Completed(q)
      BY <1>1, <2>1 DEF Completed
    <2> QED BY <1>2, <1>3, <1>4, <2>2 DEF GenerateQr
  <1>5. ASSUME NEW s \in Sessions, RefundWrite(s) PROVE Quiet
    <2>1. session[s].row \in Redemptions
      BY <1>5 DEF RefundWrite, Running, IInv, SessionOK
    <2>2. \A q \in Redemptions : Completed(q)' => Completed(q)
      BY <1>1, <1>5, <2>1 DEF RefundWrite, Completed, RedemptionRow
    <2>3. "addRefund" \in Kinds
      BY DEF Kinds
    <2> QED BY <1>2, <1>5, <2>2, <2>3, QuietGoOn DEF RefundWrite
  <1>6. ASSUME ExpirePending PROVE Quiet
    <2>1. ASSUME NEW q \in Redemptions, Completed(q)' PROVE Completed(q)
      <3>1. red'[q] = IF Expirable(q) THEN [red[q] EXCEPT !.status = "EXPIRED"] ELSE red[q]
        BY <1>6 DEF ExpirePending
      <3>2. [red[q] EXCEPT !.status = "EXPIRED"].status = "EXPIRED"
        BY <1>1 DEF RedemptionRow
      <3> QED BY <2>1, <3>1, <3>2 DEF Completed
    <2> QED BY <1>2, <1>3, <1>6, <2>1 DEF ExpirePending
  <1>7. ASSUME NEW r \in Redemptions, Age(r) PROVE Quiet
    <2>1. \A q \in Redemptions : Completed(q)' => Completed(q)
      BY <1>1, <1>7 DEF Age, Completed, RedemptionRow
    <2> QED BY <1>2, <1>3, <1>7, <2>1 DEF Age
  <1> QED
    BY <1>4, <1>5, <1>6, <1>7

\* Endpoints that read, and those that add an order.
LEMMA EndpointsQuiet ==
    ASSUME IInv, NEW s \in Sessions
    PROVE  /\ \A u \in Buyers, r \in Redemptions, extra \in Extras :
                 ConfirmRedemption(s, u, r, extra) => Quiet
           /\ \A r \in Redemptions : RefundRedemption(s, r) => Quiet
           /\ RefundCheck(s) => Quiet
           /\ AddSale(s) \/ AddRefund(s) \/ AddPay(s) \/ HandlerEnds(s) => Quiet
  <1>1. UNCHANGED <<rowVars, job, chainVars>> => Calm
    BY CalmWhenStill DEF rowVars, chainVars
  <1>2. \A u, r, extra : ConfirmRedemption(s, u, r, extra) => Quiet
    BY <1>1, QuietSession DEF ConfirmRedemption, Begin, Call
  <1>3. \A r : RefundRedemption(s, r) => Quiet
    BY <1>1, QuietSession DEF RefundRedemption, Begin, Call
  <1>4. RefundCheck(s) => Quiet
    <2>1. "refundWrite" \in Kinds
      BY DEF Kinds
    <2> QED BY <1>1, <2>1, QuietGoOn, QuietFinish DEF RefundCheck
  <1>5. AddSale(s) => Quiet
    BY CalmWhenAdding, QuietFinish DEF AddSale, rowVars
  <1>6. AddRefund(s) => Quiet
    BY CalmWhenAdding, QuietFinish DEF AddRefund, rowVars
  <1>7. AddPay(s) => Quiet
    BY CalmWhenAdding, QuietFinish DEF AddPay, rowVars
  <1>8. HandlerEnds(s) => Quiet
    BY <1>1, QuietFinish DEF HandlerEnds
  <1> QED
    BY <1>2, <1>3, <1>4, <1>5, <1>6, <1>7, <1>8

\* Settlements move no redemption.
LEMMA SettlementsQuiet ==
    ASSUME IInv, SettlementStep
    PROVE  Quiet
  <1>1. UNCHANGED <<red, job, chainVars>> => Calm
    BY CalmWhenStill DEF chainVars
  <1>2. ASSUME NEW s \in Sessions, NEW st \in Stores, NEW a \in Amounts, RequestSettlement(s, st, a)
        PROVE  Quiet
    <2>1. PICK c : session' = [session EXCEPT ![s] = c] /\ c.kind = "settleSum"
      <3>1. PICK seen : session' = [session EXCEPT ![s] =
                                      [Call("settleSum", None, st, a) EXCEPT !.seen = seen]]
        BY <1>2 DEF RequestSettlement, Begin
      <3>2. [Call("settleSum", None, st, a) EXCEPT !.seen = seen].kind = "settleSum"
        BY DEF Call
      <3> QED BY <3>1, <3>2
    <2> QED BY <1>1, <1>2, <2>1, QuietSession DEF RequestSettlement, rowVars
  <1>3. ASSUME NEW s \in Sessions, NEW x \in Settlements,
               ApproveSettlement(s, x) \/ RejectSettlement(s, x) \/ PaySettlement(s, x)
        PROVE  Quiet
    <2>1. CASE ApproveSettlement(s, x)
      BY <1>1, <2>1, QuietSession DEF ApproveSettlement, Begin, Call, rowVars
    <2>2. CASE RejectSettlement(s, x)
      BY <1>1, <2>2, QuietSession DEF RejectSettlement, Begin, Call, rowVars
    <2>3. CASE PaySettlement(s, x)
      BY <1>1, <2>3, QuietSession DEF PaySettlement, Begin, Call, rowVars
    <2> QED BY <1>3, <2>1, <2>2, <2>3
  <1>4. ASSUME NEW s \in Sessions, RequestCheck(s) PROVE Quiet
    <2>1. "settleCreate" \in Kinds
      BY DEF Kinds
    <2> QED BY <1>1, <1>4, <2>1, QuietGoOn, QuietFinish DEF RequestCheck, rowVars
  <1>5. ASSUME NEW s \in Sessions, NEW x \in Settlements, RequestCreate(s, x) PROVE Quiet
    BY <1>1, <1>5, QuietFinish DEF RequestCreate
  <1>6. ASSUME NEW s \in Sessions, ApproveWrite(s) \/ RejectWrite(s) PROVE Quiet
    BY <1>1, <1>6, QuietFinish DEF ApproveWrite, RejectWrite
  <1>7. ASSUME NEW s \in Sessions, PayWrite(s) PROVE Quiet
    <2>1. "addPay" \in Kinds
      BY DEF Kinds
    <2> QED BY <1>1, <1>7, <2>1, QuietGoOn DEF PayWrite
  <1>8. ASSUME NEW s \in Sessions, AddPay(s) PROVE Quiet
    BY <1>8, CalmWhenAdding, QuietFinish DEF AddPay, rowVars
  <1> QED
    BY <1>2, <1>3, <1>4, <1>5, <1>6, <1>7, <1>8 DEF SettlementStep

\* The workers keep the senders of their jobs and confirm nothing.
LEMMA WorkersQuiet ==
    ASSUME IInv, NEW j \in Jobs, JobStep(j) \/ JobStalls(j)
    PROVE  Quiet
  <1>1. job \in [Jobs -> JobRow] /\ red \in [Redemptions -> RedemptionRow]
    BY DEF IInv, Typed
  <1>2. SendersStay
    <2>1. CASE StartAttempt(j)
      BY <1>1, <2>1 DEF StartAttempt, SendersStay, JobRow
    <2>2. CASE Send(j)
      BY <1>1, <2>2 DEF Send, SetJob, SendersStay, JobRow
    <2>3. CASE PollSuccess(j)
      BY <1>1, <2>3 DEF PollSuccess, SendersStay, JobRow
    <2>4. CASE Save(j)
      BY <1>1, <2>4 DEF Save, SetJob, SendersStay, JobRow
    <2>5. CASE AttemptFails(j)
      BY <1>1, <2>5 DEF AttemptFails, FailAttempt, SendersStay, JobRow
    <2>6. CASE JobStalls(j)
      BY <1>1, <2>6 DEF JobStalls, SendersStay, JobRow
    <2> QED BY <2>1, <2>2, <2>3, <2>4, <2>5, <2>6 DEF JobStep
  <1>3. UNCHANGED <<session, chain, seq, ledger>>
    BY DEF JobStep, JobStalls, StartAttempt, Send, PollSuccess, Save, AttemptFails, chainVars
  <1>4. \A r \in Redemptions : red'[r].status = red[r].status
    <2>1. CASE Save(j)
      BY <1>1, <2>1 DEF Save, RedemptionRow
    <2>2. CASE red' = red
      BY <2>2
    <2> QED BY <2>1, <2>2 DEF JobStep, JobStalls, StartAttempt, Send, PollSuccess, AttemptFails,
                              rowVars
  <1> QED
    BY <1>2, <1>3, <1>4 DEF Quiet, Calm, BuysNothing, Completed

LEMMA DropQuiet ==
    ASSUME IInv, NEW t \in mempool, Drop(t)
    PROVE  Quiet
  BY CalmWhenStill DEF Drop, Quiet, rowVars

LEMMA StutteringQuiet ==
    ASSUME IInv, UNCHANGED vars
    PROVE  Quiet
  BY CalmWhenStill DEF vars, Quiet

-----------------------------------------------------------------------------
(* The transaction of confirmRedemption, and the chain.                     *)

\* The lock finds nobody else spending the buyer's tokens, and the sum is read.
LEMMA ConfirmLockSolvent ==
    ASSUME IInv, GoodStep, SolvencyInv, NEW s \in Sessions, ConfirmLock(s)
    PROVE  SolvencyInv'
  <1>1. Running(s, "lock") /\ UNCHANGED <<rowVars, job, chainVars, lost>>
    BY DEF ConfirmLock
  <1>2. Calm
    BY <1>1, CalmWhenStill DEF rowVars, chainVars
  <1>3. CASE StillPending(session[s].row)
    <2> DEFINE u == session[s].user
    <2>1. /\ session' = [session EXCEPT ![s].kind = "balance", ![s].seen = Spent(u)]
          /\ LocksFree(session[s].user, session[s].row)
      BY <1>3 DEF ConfirmLock
    <2>2. /\ OthersStay(s) /\ session'[s].kind = "balance" /\ session'[s].user = u
          /\ session'[s].seen = Spent(u) /\ u \in Buyers
      <3>1. "balance" \in Kinds
        BY DEF Kinds
      <3>2. OthersStay(s) /\ session'[s].kind = "balance" /\ session'[s].user = u
        BY <2>1, <3>1, GoesOnSeeing
      <3>3. SessionTyped(session[s]) /\ session = [t \in Sessions |-> session[t]]
        BY DEF IInv, Typed
      <3>4. session'[s].seen = Spent(u)
        BY <2>1, <3>3 DEF SessionTyped
      <3>5. u \in Buyers
        BY <1>1 DEF Running, IInv, SessionOK
      <3> QED BY <3>2, <3>4, <3>5
    <2>3. \A a, b \in InTransaction' : a # b => session'[a].user # session'[b].user
      <3>1. InTransaction' \subseteq InTransaction \cup {s}
        BY <2>2 DEF InTransaction, OthersStay
      <3>2. s \notin InTransaction
        BY <1>1 DEF InTransaction, Running
      <3>3. \A a \in InTransaction : session'[a].user = session[a].user /\ session[a].user # u
        BY <2>1, <2>2, <3>2 DEF InTransaction, OthersStay, LocksFree
      <3> QED BY <2>2, <3>1, <3>3 DEF SolvencyInv
    <2>4. PurchaseOK(session[s])'
      <3>1. ASSUME Settled(u)' PROVE Spent(u)' = Spent(u)
        BY <1>2, <2>2, <3>1, AccountsStay DEF Calm, GoodStep
      <3> QED BY <2>2, <3>1 DEF PurchaseOK
    <2> QED BY <1>2, <2>2, <2>3, <2>4, CalmKeeps DEF OthersStay
  <1>4. CASE ~StillPending(session[s].row)
    BY <1>2, <1>4, QuietFinish, QuietKeeps DEF ConfirmLock
  <1> QED
    BY <1>3, <1>4

\* What was read of the balance is no more than what the buyer has to spend.
LEMMA BalanceFits ==
    ASSUME IInv, SolvencyInv, NEW u \in Buyers, Settled(u),
           NEW onChain \in OnChainReads(u), NEW amount \in Nat,
           Balance(u, onChain, Spent(u)) >= amount
    PROVE  Spent(u) + amount <= Means(u)
  <1>1. Taken(u) \in Nat /\ Spent(u) \in Nat
    <2>1. SpentOrOwed
      BY SumsOfRows
    <2>2. Taken(u) \in Nat /\ Owed(u) \in Nat /\ Spent(u) = Taken(u) + Owed(u)
      BY <2>1 DEF SpentOrOwed
    <2> QED BY <2>2
  <1>2. chain[u] \in Nat /\ Start[u] \in Nat /\ Earned[u] \in Nat /\ Means(u) \in Nat
    BY ParametersOK DEF IInv, Typed, Accounts, Means
  <1>3. chain[u] + Taken(u) = Start[u] /\ Spent(u) <= Means(u)
    BY DEF SolvencyInv
  <1>4. chain[u] <= Start[u]
    BY <1>1, <1>2, <1>3
  <1> DEFINE x == IF onChain > 0 THEN onChain ELSE OffChain(u)
  <1>5. x \in Nat /\ x <= Means(u)
    <2>1. OffChain(u) = Earned[u]
      BY RowsApart DEF OffChain
    <2>2. onChain = chain[u] \/ onChain = 0
      BY DEF OnChainReads
    <2>3. Earned[u] <= Means(u) /\ Start[u] <= Means(u)
      BY <1>2 DEF Means
    <2> QED BY <1>2, <1>4, <2>1, <2>2, <2>3
  <1>6. Floor(x - Spent(u)) >= amount
    BY DEF Balance
  <1> HIDE DEF x
  <1> QED
    BY <1>1, <1>2, <1>3, <1>5, <1>6 DEF Floor

\* So what a transaction goes on to commit fits.
LEMMA ConfirmBalanceSolvent ==
    ASSUME IInv, GoodStep, SolvencyInv, NEW s \in Sessions, ConfirmBalance(s)
    PROVE  SolvencyInv'
  <1>1. Running(s, "balance") /\ UNCHANGED <<rowVars, job, chainVars, lost>>
    BY DEF ConfirmBalance
  <1>2. Calm
    BY <1>1, CalmWhenStill DEF rowVars, chainVars
  <1> DEFINE u == session[s].user
             amount == session[s].amount
  <1>3. u \in Buyers /\ amount \in Nat /\ PurchaseOK(session[s])
    BY <1>1 DEF Running, IInv, SessionOK, Typed, SessionTyped, SolvencyInv
  <1>4. PICK onChain \in OnChainReads(u) :
          IF Balance(u, onChain, session[s].seen) >= amount THEN GoOn(s, "commit") ELSE Finish(s)
    BY DEF ConfirmBalance
  <1>5. CASE Balance(u, onChain, session[s].seen) >= amount
    <2>1. GoOn(s, "commit") /\ "commit" \in Kinds
      BY <1>4, <1>5 DEF Kinds
    <2>2. /\ OthersStay(s) /\ session'[s].kind = "commit" /\ session'[s].user = u
          /\ session'[s].amount = amount
      BY <2>1, GoesOn
    <2>3. \A a, b \in InTransaction' : a # b => session'[a].user # session'[b].user
      <3>1. InTransaction' = InTransaction
        BY <1>1, <2>2 DEF InTransaction, OthersStay, Running
      <3>2. \A a \in InTransaction : session'[a].user = session[a].user
        BY <2>2 DEF InTransaction, OthersStay
      <3> QED BY <3>1, <3>2 DEF SolvencyInv
    <2>4. PurchaseOK(session[s])'
      <3>1. ASSUME Settled(u)' PROVE Spent(u)' + amount <= Means(u)
        <4>1. Settled(u) /\ Spent(u)' = Spent(u)
          BY <1>2, <1>3, <2>2, <3>1, AccountsStay DEF Calm, GoodStep
        <4>2. session[s].seen = Spent(u)
          BY <1>1, <1>3, <4>1 DEF Running, PurchaseOK
        <4>3. Spent(u) + amount <= Means(u)
          BY <1>3, <1>5, <4>1, <4>2, BalanceFits
        <4> QED BY <4>1, <4>3
      <3> QED BY <2>2, <3>1 DEF PurchaseOK
    <2> QED BY <1>2, <2>2, <2>3, <2>4, CalmKeeps DEF OthersStay
  <1>6. CASE ~(Balance(u, onChain, session[s].seen) >= amount)
    BY <1>2, <1>4, <1>6, QuietFinish, QuietKeeps
  <1> QED
    BY <1>5, <1>6

\* The commit moves what was checked to what is spent: the row was PENDING, so no
\* transfer of it has landed.
LEMMA ConfirmCommitSolvent ==
    ASSUME IInv, GoodStep, SolvencyInv, NEW s \in Sessions, ConfirmCommit(s)
    PROVE  SolvencyInv'
  <1> USE DEF GoodStep
  <1>1. PICK r \in Redemptions, u \in Buyers, amount \in Nat :
          /\ r = session[s].row /\ u = session[s].user /\ amount = session[s].amount
          /\ red[r].status = "PENDING"
    <2>1. s \in InTransaction
      BY DEF ConfirmCommit, Running, InTransaction
    <2>2. session[s].amount \in Nat
      BY DEF IInv, Typed, SessionTyped
    <2> QED BY <2>1, <2>2, LockedRows
  <1>2. /\ red'[r].status = "COMPLETED" /\ red'[r].user = u /\ red'[r].amount = amount
        /\ \A q \in Redemptions : q # r => red'[q] = red[q]
    <2>1. red \in [Redemptions -> RedemptionRow]
      BY DEF IInv, Typed
    <2> DEFINE row == [red[r] EXCEPT !.status = "COMPLETED", !.user = u, !.amount = amount]
    <2>2. row.status = "COMPLETED" /\ row.user = u /\ row.amount = amount
      BY <2>1 DEF RedemptionRow
    <2>3. red' = [red EXCEPT ![r] = row]
      BY <1>1, <2>1 DEF ConfirmCommit
    <2> HIDE DEF row
    <2> QED BY <2>1, <2>2, <2>3
  <1>3. /\ Running(s, "commit") /\ OthersStay(s) /\ session'[s].kind = "addSale"
        /\ UNCHANGED <<job, chain, seq, ledger>>
    <2>1. "addSale" \in Kinds
      BY DEF Kinds
    <2> QED BY <2>1, GoesOn DEF ConfirmCommit, chainVars
  <1>4. \A a, b \in InTransaction' : a # b => session'[a].user # session'[b].user
    BY <1>3 DEF SolvencyInv, InTransaction, OthersStay
  <1>5. ASSUME NEW v \in Buyers, v # u PROVE BuysNothing(v)
    BY <1>2, <1>5 DEF BuysNothing, Completed
  <1>6. ASSUME NEW t \in Sessions PROVE PurchaseOK(session[t])'
    <2>1. CASE session'[t].kind \notin {"balance", "commit"}
      BY <2>1 DEF PurchaseOK
    <2>2. CASE session'[t].kind \in {"balance", "commit"}
      <3>1. t # s /\ session'[t] = session[t]
        BY <1>3, <2>2 DEF OthersStay
      <3>2. session[t].user # u
        BY <1>1, <1>3, <2>2, <3>1 DEF SolvencyInv, InTransaction, Running
      <3>3. session[t].user \in Buyers /\ PurchaseOK(session[t])
        BY <2>2, <3>1 DEF IInv, SessionOK, SolvencyInv
      <3>4. CASE Settled(session[t].user)'
        <4>1. Settled(session[t].user) /\ Spent(session[t].user)' = Spent(session[t].user)
          BY <1>3, <1>5, <3>1, <3>2, <3>3, <3>4, AccountsStay
        <4> QED BY <2>2, <3>1, <3>3, <3>4, <4>1 DEF PurchaseOK
      <3>5. CASE ~Settled(session[t].user)'
        BY <3>1, <3>5 DEF PurchaseOK
      <3> QED BY <3>4, <3>5
    <2> QED BY <2>1, <2>2
  <1>7. ASSUME Settled(u)'
        PROVE  chain'[u] + Taken(u)' = Start[u] /\ Spent(u)' <= Means(u)
    <2>1. Settled(u)
      BY <1>3, <1>7, SettledBefore DEF SolvencyInv
    <2>2. SpentOrOwed /\ SpentOrOwed'
      BY SumsOfRows, SumsOfRowsAfter
    <2>3. r \notin Bought(u) /\ r \notin TakenRows
      BY <1>1, LandedIsCharged DEF Bought, Completed, TakenRows, Charged
    <2>4. Bought(u)' = Bought(u) \cup {r} /\ TakenRows' = TakenRows
      BY <1>2, <1>3 DEF Bought, Completed, TakenRows, Landed
    <2>5. \A q \in Bought(u) : Amount'[q] = Amount[q]
      BY <1>2, <2>3 DEF Bought, Amount
    <2>6. Amount'[r] = amount
      BY <1>2 DEF Amount
    <2>7. Spent(u)' = amount + Spent(u)
      <3> DEFINE B == Bought(u)'
      <3>1. IsFiniteSet(B) /\ \A q \in B : Amount'[q] \in Nat
        BY <2>2 DEF SpentOrOwed
      <3>2. r \in B /\ B \ {r} = Bought(u)
        BY <2>3, <2>4
      <3>3. \A q \in B : Amount'[q] \in Int
        BY <3>1
      <3> HIDE DEF B
      <3>4. Sum(Amount', B) = Amount'[r] + Sum(Amount', B \ {r})
        BY <3>1, <3>2, <3>3, SumRemove
      <3>5. IsFiniteSet(Bought(u)) /\ Spent(u) = Sum(Amount, Bought(u))
        BY <2>2 DEF SpentOrOwed
      <3>6. Sum(Amount', Bought(u)) = Sum(Amount, Bought(u))
        BY <2>5, <3>5, SameSum
      <3>7. Spent(u)' = Sum(Amount', B)
        BY <2>2 DEF SpentOrOwed, Sum, MapThenSumSet, MapThenFoldSet, B
      <3> QED BY <2>6, <3>2, <3>4, <3>5, <3>6, <3>7
    <2>8. Taken(u)' = Taken(u)
      <3>1. Bought(u)' \cap TakenRows' = Bought(u) \cap TakenRows
        BY <2>3, <2>4
      <3>2. Taken(u)' = Sum(Amount', Bought(u)' \cap TakenRows')
        BY DEF Taken, Sum, MapThenSumSet, MapThenFoldSet
      <3>3. IsFiniteSet(Bought(u) \cap TakenRows)
        BY <2>2, FS_Subset DEF SpentOrOwed
      <3>4. Sum(Amount', Bought(u) \cap TakenRows) = Sum(Amount, Bought(u) \cap TakenRows)
        BY <2>5, <3>3, SameSum
      <3> QED BY <3>1, <3>2, <3>4 DEF Taken
    <2>9. Spent(u) + amount <= Means(u) /\ chain[u] + Taken(u) = Start[u]
      BY <1>1, <1>3, <2>1 DEF SolvencyInv, PurchaseOK, Running
    <2>10. Spent(u) \in Nat
      <3>1. Taken(u) \in Nat /\ Owed(u) \in Nat /\ Spent(u) = Taken(u) + Owed(u)
        BY <2>2 DEF SpentOrOwed
      <3> QED BY <3>1
    <2>11. Spent(u)' <= Means(u)
      BY <2>7, <2>9, <2>10
    <2> QED BY <1>3, <2>8, <2>9, <2>11
  <1>8. ASSUME NEW v \in Buyers, Settled(v)'
        PROVE  chain'[v] + Taken(v)' = Start[v] /\ Spent(v)' <= Means(v)
    <2>1. CASE v = u
      BY <1>7, <1>8, <2>1
    <2>2. CASE v # u
      BY <1>3, <1>5, <1>8, <2>2, AccountsStay
    <2> QED BY <2>1, <2>2
  <1>9. IsFiniteSet(ledger') /\ \A t \in ledger' : t.seq < seq'[job'[t.job].from]
    BY <1>3, NumbersStay DEF SendersStay
  <1> QED
    BY <1>4, <1>6, <1>8, <1>9 DEF SolvencyInv

\* Who loses and who gets tokens: a sale is taken from its buyer for its store, a
\* refund goes the other way, and settlements are between stores and the treasury.
LEMMA PartiesOf ==
    ASSUME IInv, NEW j \in Jobs, job[j].state # "none"
    PROVE  /\ j[1] = "sale" =>
                 /\ j[2] \in Redemptions /\ Charged(j[2]) /\ job[j].from = red[j[2]].user
                 /\ job[j].to \in Stores /\ job[j].amount = red[j[2]].amount
           /\ j[1] = "refund" =>
                 /\ j[2] \in Redemptions /\ job[j].from \in Stores
                 /\ job[j].to \in Buyers => Refunded(job[j].to)
           /\ j[1] = "settlement" => job[j].from \notin Buyers /\ job[j].to \notin Buyers
           /\ j[1] \in {"sale", "refund", "settlement"}
  <1>1. j = <<j[1], j[2], j[3]>> /\ j[3] \in 1..MaxOrders
    BY JobKeys
  <1>2. j[3] \in Orders(j[1], j[2])
    BY <1>1 DEF Orders
  <1>3. ASSUME j[1] = "sale"
        PROVE  /\ j[2] \in Redemptions /\ Charged(j[2]) /\ job[j].from = red[j[2]].user
               /\ job[j].to \in Stores /\ job[j].amount = red[j[2]].amount
    <2>1. j[2] \in Redemptions
      BY <1>3, JobKeys
    <2>2. Charged(j[2]) /\ job[j].from = red[j[2]].user /\ job[j].to = red[j[2]].store
          /\ job[j].amount = red[j[2]].amount
      BY <1>1, <1>2, <1>3, <2>1 DEF IInv, OrderFacts
    <2>3. red[j[2]].store \in Stores
      BY <2>1, <2>2 DEF IInv, RowFacts, Charged
    <2> QED BY <2>1, <2>2, <2>3
  <1>4. ASSUME j[1] = "refund"
        PROVE  /\ j[2] \in Redemptions /\ job[j].from \in Stores
               /\ job[j].to \in Buyers => Refunded(job[j].to)
    <2>1. j[2] \in Redemptions
      BY <1>4, JobKeys
    <2>2. red[j[2]].status = "REFUNDED" /\ job[j].from = red[j[2]].store
          /\ job[j].to = red[j[2]].user
      BY <1>1, <1>2, <1>4, <2>1 DEF IInv, OrderFacts
    <2>3. red[j[2]].store \in Stores
      BY <2>1, <2>2 DEF IInv, RowFacts
    <2> QED BY <2>1, <2>2, <2>3 DEF Refunded
  <1>5. ASSUME j[1] = "settlement" PROVE job[j].from \notin Buyers /\ job[j].to \notin Buyers
    <2>1. j[2] \in Settlements
      BY <1>5, JobKeys
    <2>2. job[j].from = settle[j[2]].store /\ job[j].to = Treasury
      BY <1>1, <1>2, <1>5, <2>1 DEF IInv, PaidIsOrdered
    <2>3. settle[j[2]].store \in Stores \cup {None}
      BY <2>1 DEF IInv, Typed, SettlementRow
    <2> QED BY <2>2, <2>3, RowsApart
  <1>6. j[1] \in {"sale", "refund", "settlement"}
    BY JobKeys
  <1> QED
    BY <1>3, <1>4, <1>5, <1>6

\* The chain takes from a buyer what one more sale of the buyer comes to.
LEMMA ApplySolvent ==
    ASSUME IInv, GoodStep, SolvencyInv, NEW t \in mempool, Apply(t)
    PROVE  SolvencyInv'
  <1> USE DEF GoodStep
  <1>1. t.job \in Jobs /\ job[t.job].state # "none" /\ t \in Transaction
    BY DEF IInv, Typed, Transaction, ChainFacts
  <1>2. PICK j \in Jobs, from \in Accounts, to \in Accounts, amount \in Nat :
          /\ j = t.job /\ from = job[j].from /\ to = job[j].to /\ amount = job[j].amount
          /\ job[j].state # "none"
    BY <1>1 DEF IInv, Typed, JobRow, OrderFacts
  <1>3. chain \in [Accounts -> Nat] /\ seq \in [Accounts -> Nat]
    BY DEF IInv, Typed
  <1>4. /\ t.seq = seq[from] /\ seq' = [seq EXCEPT ![from] = @ + 1]
        /\ chain' = [chain EXCEPT ![from] = @ - amount, ![to] = @ + amount]
        /\ ledger' = ledger \cup {t} /\ UNCHANGED <<red, session, job>>
    BY <1>2 DEF Apply, rowVars
  <1>5. IsFiniteSet(ledger')
    BY <1>4, FS_AddElement DEF SolvencyInv
  <1>6. \A v \in ledger : /\ v.job \in Jobs /\ job[v.job].from \in Accounts
                          /\ v.seq < seq[job[v.job].from] /\ v.seq \in Nat
    BY DEF IInv, Typed, Transaction, ChainFacts, OrderFacts, SolvencyInv
  <1>7. \A v \in ledger' : v.seq < seq'[job'[v.job].from]
    <2>1. \A a \in Accounts : seq'[a] = IF a = from THEN seq[a] + 1 ELSE seq[a]
      BY <1>3, <1>4
    <2>2. \A v \in ledger : v.seq < seq'[job[v.job].from]
      <3> SUFFICES ASSUME NEW v \in ledger PROVE v.seq < seq'[job[v.job].from]
        OBVIOUS
      <3>1. PICK a \in Accounts : a = job[v.job].from
        BY <1>6
      <3>2. v.seq < seq[a] /\ v.seq \in Nat /\ seq[a] \in Nat
        BY <1>3, <1>6, <3>1
      <3> QED BY <2>1, <3>1, <3>2
    <2>3. t.seq < seq'[job[t.job].from]
      BY <1>2, <1>3, <1>4, <2>1
    <2> QED BY <1>4, <2>2, <2>3
  <1>8. t \notin ledger
    BY <1>2, <1>3, <1>4, <1>6
  <1>9. \A u \in Buyers : BuysNothing(u)
    BY <1>4 DEF BuysNothing, Completed
  <1>10. ASSUME NEW u \in Buyers, Settled(u)'
         PROVE  Settled(u) /\ Spent(u)' = Spent(u) /\ Bought(u)' = Bought(u)
                /\ \A r \in Bought(u) : Amount'[r] = Amount[r]
    <2>1. Settled(u) /\ ~Refunded(u)'
      BY <1>4, <1>5, <1>10, SettledBefore DEF Settled
    <2> QED BY <1>9, <2>1, NothingBought
  <1>11. ASSUME NEW s \in Sessions PROVE PurchaseOK(session[s])'
    <2>1. CASE session[s].kind \notin {"balance", "commit"}
      BY <1>4, <2>1 DEF PurchaseOK
    <2>2. CASE session[s].kind \in {"balance", "commit"}
      <3>1. session[s].user \in Buyers /\ PurchaseOK(session[s])
        BY <2>2 DEF IInv, SessionOK, SolvencyInv
      <3>2. CASE Settled(session[s].user)'
        <4>1. Settled(session[s].user) /\ Spent(session[s].user)' = Spent(session[s].user)
          BY <1>4, <1>10, <3>1, <3>2
        <4> QED BY <1>4, <2>2, <3>1, <3>2, <4>1 DEF PurchaseOK
      <3>3. CASE ~Settled(session[s].user)'
        BY <1>4, <3>3 DEF PurchaseOK
      <3> QED BY <3>2, <3>3
    <2> QED BY <2>1, <2>2
  <1>12. \A a, b \in InTransaction' : a # b => session'[a].user # session'[b].user
    BY <1>4 DEF SolvencyInv, InTransaction
  <1>13. ASSUME NEW u \in Buyers, Settled(u)'
         PROVE  chain'[u] + Taken(u)' = Start[u] /\ Spent(u)' <= Means(u)
    <2>1. chain[u] + Taken(u) = Start[u] /\ Spent(u) <= Means(u) /\ Spent(u)' = Spent(u)
      BY <1>10, <1>13 DEF SolvencyInv
    <2>2. Taken(u)' = Sum(Amount', Bought(u)' \cap TakenRows')
      BY DEF Taken, Sum, MapThenSumSet, MapThenFoldSet
    <2>3. SpentOrOwed /\ u \in Accounts /\ ~Refunded(u)
      BY <1>10, <1>13, SumsOfRows DEF Settled, Accounts
    <2>4. IsFiniteSet(Bought(u)) /\ (\A q \in Bought(u) : Amount[q] \in Nat) /\ Taken(u) \in Nat
      BY <2>3 DEF SpentOrOwed
    <2>5. chain[u] \in Nat /\ Start[u] \in Nat
      BY <1>3, <2>3, ParametersOK
    <2>6. ASSUME u # from, u # to, Bought(u) \cap TakenRows' = Bought(u) \cap TakenRows
          PROVE  chain'[u] + Taken(u)' = Start[u]
      <3>1. chain'[u] = chain[u]
        BY <1>3, <1>4, <2>3, <2>6
      <3>2. IsFiniteSet(Bought(u) \cap TakenRows)
        BY <2>4, FS_Subset
      <3>3. Sum(Amount', Bought(u) \cap TakenRows) = Sum(Amount, Bought(u) \cap TakenRows)
        BY <1>10, <1>13, <3>2, SameSum
      <3>4. Taken(u)' = Taken(u)
        BY <1>10, <1>13, <2>2, <2>6, <3>3 DEF Taken
      <3> QED BY <2>1, <3>1, <3>4
    <2>7. CASE j[1] = "sale"
      <3> DEFINE r == j[2]
      <3>1. /\ r \in Redemptions /\ Charged(r) /\ from = red[r].user
            /\ to \in Stores /\ amount = red[r].amount
        BY <1>2, <2>7, PartiesOf
      <3>2. u # to
        BY <3>1, RowsApart
      <3>3. /\ Landed("sale", r)' = Landed("sale", r) \cup {t}
            /\ \A q \in Redemptions : q # r => Landed("sale", q)' = Landed("sale", q)
        BY <1>2, <1>4, <2>7 DEF Landed
      <3>4. TakenRows' = TakenRows \cup {r}
        BY <3>1, <3>3 DEF TakenRows
      <3>5. CASE u # from
        <4>1. r \notin Bought(u)
          BY <3>1, <3>5 DEF Bought
        <4>2. Bought(u) \cap TakenRows' = Bought(u) \cap TakenRows
          BY <3>4, <4>1
        <4> QED BY <2>1, <2>6, <3>2, <3>5, <4>2
      <3>6. CASE u = from
        <4>1. r \in Bought(u)
          BY <2>3, <3>1, <3>6 DEF Bought, Completed, Charged, Refunded
        <4>2. Landed("sale", r) = {}
          <5> SUFFICES ASSUME NEW v \in Landed("sale", r) PROVE FALSE
            OBVIOUS
          <5>1. v \in ledger /\ v # t
            BY <1>8 DEF Landed
          <5>2. {v, t} \subseteq Landed("sale", r)'
            BY <3>3
          <5>3. Landed("sale", r)' \subseteq ledger'
            BY DEF Landed
          <5>4. IsFiniteSet(Landed("sale", r)')
            BY <1>5, <5>3, FS_Subset
          <5>5. Cardinality({v, t}) <= Cardinality(Landed("sale", r)') /\ IsFiniteSet({v, t})
            BY <5>2, <5>4, FS_Subset
          <5>6. Cardinality({v, t}) = 2
            <6>1. IsFiniteSet({v}) /\ Cardinality({v}) = 1
              BY FS_Singleton
            <6>2. {v, t} = {v} \cup {t} /\ t \notin {v}
              BY <5>1
            <6>3. Cardinality({v} \cup {t}) = Cardinality({v}) + 1
              BY <6>1, <6>2, FS_AddElement
            <6> QED BY <6>1, <6>2, <6>3
          <5>7. Cardinality(Landed("sale", r)') \in Nat
            BY <5>4, FS_CardinalityType
          <5>8. Cardinality(Landed("sale", r)') > 1
            BY <5>5, <5>6, <5>7
          <5>9. red'[r].user = u
            BY <1>4, <3>1, <3>6
          <5>10. Cardinality(Landed("sale", r))' > 1
            BY <5>8
          <5>11. ChargedAgain(u)'
            BY <3>1, <5>9, <5>10 DEF ChargedAgain
          <5> QED BY <1>13, <5>11 DEF Settled
        <4>3. r \notin TakenRows
          BY <4>2 DEF TakenRows
        <4>4. chain'[u] = chain[u] - amount
          BY <1>3, <1>4, <2>3, <3>2, <3>6
        <4>5. Taken(u)' = amount + Taken(u)
          <5> DEFINE T == Bought(u) \cap TakenRows
                     N == T \cup {r}
          <5>1. Taken(u)' = Sum(Amount', N)
            <6>1. Bought(u)' \cap TakenRows' = N
              BY <1>10, <1>13, <3>4, <4>1
            <6> QED BY <2>2, <6>1
          <5>2. /\ IsFiniteSet(T) /\ IsFiniteSet(N) /\ r \in N /\ N \ {r} = T
                /\ N \subseteq Bought(u)
            BY <2>4, <4>1, <4>3, FS_Subset
          <5>3. \A q \in N : Amount'[q] \in Int
            BY <1>10, <1>13, <2>4, <5>2
          <5>4. Sum(Amount', T) = Taken(u)
            <6>1. \A q \in T : Amount'[q] = Amount[q]
              BY <1>10, <1>13
            <6>2. Sum(Amount', T) = Sum(Amount, T)
              BY <5>2, <6>1, SameSum
            <6> QED BY <6>2 DEF Taken
          <5>5. Amount'[r] = amount
            BY <1>4, <3>1 DEF Amount
          <5> HIDE DEF T, N
          <5>6. Sum(Amount', N) = Amount'[r] + Sum(Amount', N \ {r})
            BY <5>2, <5>3, SumRemove
          <5> QED BY <5>1, <5>2, <5>4, <5>5, <5>6
        <4>6. chain'[u] + Taken(u)' = Start[u]
          BY <2>1, <2>4, <2>5, <4>4, <4>5
        <4> QED BY <2>1, <4>6
      <3> QED BY <3>5, <3>6
    <2>8. CASE j[1] # "sale"
      <3>1. u # from /\ u # to
        BY <1>2, <2>3, <2>8, PartiesOf, RowsApart
      <3>2. \A q \in Redemptions : Landed("sale", q)' = Landed("sale", q)
        BY <1>2, <1>4, <2>8 DEF Landed
      <3>3. TakenRows' = TakenRows
        BY <3>2 DEF TakenRows
      <3> QED BY <2>1, <2>6, <3>1, <3>3
    <2> QED BY <2>7, <2>8
  <1> QED
    BY <1>5, <1>7, <1>11, <1>12, <1>13 DEF SolvencyInv

\* Nothing is bought and nothing has landed.
LEMMA InitSolvent == Init => SolvencyInv
  <1> SUFFICES ASSUME Init PROVE SolvencyInv
    OBVIOUS
  <1>1. InTransaction = {} /\ \A s \in Sessions : PurchaseOK(session[s])
    BY DEF Init, InTransaction, PurchaseOK, Idle
  <1>2. ASSUME NEW u \in Buyers
        PROVE  chain[u] + Taken(u) = Start[u] /\ Spent(u) <= Means(u)
    <2>1. Bought(u) = {}
      BY DEF Init, Bought, Completed, NoRedemption
    <2>2. Taken(u) = 0
      BY <2>1, SumEmpty DEF Taken
    <2>3. SpentOrOwed
      BY InitIInv, SumsOfRows
    <2>4. Spent(u) = 0
      BY <2>1, <2>3, SumEmpty DEF SpentOrOwed
    <2>5. chain[u] = Start[u] /\ Start[u] \in Nat /\ Means(u) >= 0
      BY RowsApart, ParametersOK DEF Init, Accounts, Means
    <2> QED BY <2>2, <2>4, <2>5
  <1>3. IsFiniteSet(ledger) /\ \A t \in ledger : t.seq < seq[job[t.job].from]
    BY FS_EmptySet DEF Init
  <1> QED
    BY <1>1, <1>2, <1>3 DEF SolvencyInv

\* What is owed is what has been spent and not been taken.
LEMMA OwedFits == IInv /\ SolvencyInv => BuyerSolvent
  <1> SUFFICES ASSUME IInv, SolvencyInv, NEW u \in Buyers, ~Refunded(u), ~ChargedAgain(u)
               PROVE  Owed(u) <= chain[u] + Unminted(u)
    BY DEF BuyerSolvent
  <1>1. chain[u] + Taken(u) = Start[u] /\ Spent(u) <= Means(u)
    BY DEF SolvencyInv, Settled
  <1>2. SpentOrOwed
    BY SumsOfRows
  <1>3. Taken(u) \in Nat /\ Owed(u) \in Nat /\ Spent(u) = Taken(u) + Owed(u)
    BY <1>2 DEF SpentOrOwed
  <1>4. chain[u] \in Nat /\ Start[u] \in Nat /\ Means(u) \in Nat
    BY ParametersOK DEF IInv, Typed, Accounts, Means
  <1> QED
    BY <1>1, <1>3, <1>4 DEF Unminted

\* confirmRedemption and its locks: what a buyer has confirmed and not handed over yet
\* exceeds the tokens of the buyer on chain by no more than what the database counts
\* and the chain never received, at any number of tills and with transfers delayed or
\* lost.  A buyer with a refund or a repeated transfer is the exception BuyerSolvent
\* names.
THEOREM BuyersStaySolvent == Spec => []BuyerSolvent
  <1>1. IInv /\ SolvencyInv /\ [Next]_vars => SolvencyInv'
    <2> SUFFICES ASSUME IInv, SolvencyInv, [Next]_vars PROVE SolvencyInv'
      OBVIOUS
    <2>1. GoodStep
      BY EveryStepIsGood
    <2>2. CASE RedemptionStep
      <3>1. CASE \E s \in Sessions : ConfirmLock(s) \/ ConfirmBalance(s) \/ ConfirmCommit(s)
        BY <2>1, <3>1, ConfirmLockSolvent, ConfirmBalanceSolvent, ConfirmCommitSolvent
      <3>2. CASE ~ \E s \in Sessions : ConfirmLock(s) \/ ConfirmBalance(s) \/ ConfirmCommit(s)
        <4>1. Quiet
          BY <2>2, <3>2, RedemptionsQuiet, EndpointsQuiet DEF RedemptionStep
        <4> QED BY <2>1, <4>1, QuietKeeps
      <3> QED BY <3>1, <3>2
    <2>3. CASE SettlementStep
      BY <2>1, <2>3, QuietKeeps, SettlementsQuiet
    <2>4. CASE \E s \in Sessions : HandlerEnds(s)
      BY <2>1, <2>4, QuietKeeps, EndpointsQuiet
    <2>5. CASE \E j \in Jobs : JobStep(j) \/ JobStalls(j)
      BY <2>1, <2>5, QuietKeeps, WorkersQuiet
    <2>6. CASE \E t \in mempool : Apply(t) \/ Drop(t)
      BY <2>1, <2>6, QuietKeeps, DropQuiet, ApplySolvent
    <2>7. CASE UNCHANGED vars
      BY <2>1, <2>7, QuietKeeps, StutteringQuiet
    <2> QED
      BY <2>2, <2>3, <2>4, <2>5, <2>6, <2>7 DEF Next
  <1> QED
    BY <1>1, InitSolvent, Inductive, OwedFits, PTL DEF Spec

=============================================================================
