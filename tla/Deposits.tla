------------------------------- MODULE Deposits ------------------------------
(***************************************************************************)
(* PaymentsService and the job "izipay-mint-tokens": a collector or a store *)
(* buys tokens through the Izipay gateway.  createSession writes a row and  *)
(* opens a form; the gateway charges the card and notifies; the handler of  *)
(* the notification completes the row and adds a job that mints the tokens. *)
(* The gateway notifies again until it reads OK, and notifications overtake *)
(* each other; a handler reads the row before the updates it makes by id.   *)
(* An administrator may order the mint of a completed row once more, with a *)
(* job of its own.                                                         *)
(* All deposits fall into one window of 24 hours.                           *)
(***************************************************************************)
EXTENDS Naturals, FiniteSets, FiniteSetsExt

CONSTANTS Payers,        \* users who deposit
          Orders,        \* rows payment_transactions (purchaseNumber)
          Notices,       \* deliveries of a notification
          Remints,       \* calls of retryPaymentMint
          Walletless,    \* payers with no walletAddress
          MinDeposit, MaxDeposit, DailyLimit,
          MintAttempts,  \* attempts of a mint job
          MaxStalls      \* times a mint job is given to a new worker (maxStalledCount, 1 in BullMQ)

ASSUME DepositsAssumption ==
  /\ IsFiniteSet(Orders) /\ Orders # {} /\ IsFiniteSet(Notices)
  /\ Payers # {} /\ Walletless \subseteq Payers
  /\ Notices \cap Remints = {}
  /\ {MinDeposit, MaxDeposit, DailyLimit, MintAttempts} \subseteq Nat \ {0}
  /\ MaxStalls \in Nat

VARIABLES deposit,  \* the row of an order, and createSession's place before it exists
          charged,  \* orders the gateway has charged
          notice,   \* a delivery: what it says, how far its handler is
          retry,    \* an administrator's call: its order, how far it is
          mintJob,  \* the job a delivery or an administrator added
          minted,   \* applied mints of an order, on chain
          cutOff,   \* history: orders whose row was left without word of their job: the
                    \* handler died before it added one, or could not write that the
                    \* queue refused it; the job stalled once too often, or could not
                    \* write that it failed; or an administrator's PENDING came after its end
          overtaken \* history: orders two of whose notifications crossed

depositVars == <<deposit, charged, notice, retry, mintJob, minted, cutOff, overtaken>>

NoDeposit == [status |-> "none", payer |-> CHOOSE p \in Payers : TRUE, amount |-> 0,
              formToken |-> FALSE, blockchainStatus |-> "PENDING"]
NoNotice  == [stage |-> "none", order |-> CHOOSE o \in Orders : TRUE, paid |-> FALSE,
              died |-> FALSE]
NoRetry   == [stage |-> "none", order |-> CHOOSE o \in Orders : TRUE]
NoMint    == [state |-> "none", attemptsMade |-> 0, stalls |-> 0]

DepositsInit ==
  /\ deposit = [o \in Orders |-> NoDeposit]
  /\ charged = {}
  /\ notice = [n \in Notices |-> NoNotice]
  /\ retry = [k \in Remints |-> NoRetry]
  /\ mintJob = [j \in Notices \union Remints |-> NoMint]
  /\ minted = [o \in Orders |-> 0]
  /\ cutOff = {}
  /\ overtaken = {}

-----------------------------------------------------------------------------
(* createSession                                                           *)

(* What the payer has completed in the window: PENDING rows do not count    *)
CompletedBy(p) ==
  MapThenSumSet(LAMBDA o : deposit[o].amount,
                {o \in Orders : deposit[o].payer = p /\ deposit[o].status = "COMPLETED"})

CheckDeposit(o, p, amount) ==
  /\ deposit[o].status = "none"
  /\ amount \in MinDeposit..MaxDeposit
  /\ CompletedBy(p) + amount <= DailyLimit
  /\ deposit' = [deposit EXCEPT ![o].status = "checked", ![o].payer = p, ![o].amount = amount]
  /\ UNCHANGED <<charged, notice, mintJob, minted, cutOff, overtaken, retry>>

CreateDeposit(o) ==
  /\ deposit[o].status = "checked"
  /\ deposit' = [deposit EXCEPT ![o].status = "PENDING"]
  /\ UNCHANGED <<charged, notice, mintJob, minted, cutOff, overtaken, retry>>

(* The gateway opened a form.  When it refuses, the row stays as it is.     *)
StoreFormToken(o) ==
  /\ deposit[o].status = "PENDING" /\ ~deposit[o].formToken
  /\ deposit' = [deposit EXCEPT ![o].formToken = TRUE]
  /\ UNCHANGED <<charged, notice, mintJob, minted, cutOff, overtaken, retry>>

-----------------------------------------------------------------------------
(* The gateway                                                             *)

Sent(n, o, paid) ==
  /\ notice[n].stage = "none"
  /\ notice' = [notice EXCEPT ![n] = [NoNotice EXCEPT !.stage = "sent", !.order = o, !.paid = paid]]

(* A card is refused, or charged; a refused payer may try again.  The form  *)
(* outlives the page: the gateway does not ask whether the row is PENDING.  *)
GatewayAnswers(o, n, paid) ==
  /\ deposit[o].formToken /\ o \notin charged
  /\ Sent(n, o, paid)
  /\ charged' = IF paid THEN charged \union {o} ELSE charged
  /\ UNCHANGED <<deposit, mintJob, minted, cutOff, overtaken, retry>>

(* A notification is delivered once more, at any time                      *)
Redeliver(n, again) ==
  /\ notice[n].stage # "none"
  /\ Sent(again, notice[n].order, notice[n].paid)
  /\ UNCHANGED <<deposit, charged, mintJob, minted, cutOff, overtaken, retry>>

-----------------------------------------------------------------------------
(* processIzipayIpn                                                        *)

(* A check that forgets what the first notification did                    *)
NeverProcessed(o) == FALSE

(* The row is read: COMPLETED answers OK at once                            *)
AlreadyProcessed(o) == deposit[o].status = "COMPLETED"

ReadNotice(n) ==
  /\ notice[n].stage = "sent"
  /\ notice' = [notice EXCEPT ![n].stage =
                  IF AlreadyProcessed(notice[n].order) THEN "answered" ELSE "read"]
  /\ UNCHANGED <<deposit, charged, mintJob, minted, cutOff, overtaken, retry>>

(* Not paid: FAILED is written by id, whatever the row is by now            *)
MarkFailed(n) ==
  /\ notice[n].stage = "read" /\ ~notice[n].paid
  /\ deposit' = [deposit EXCEPT ![notice[n].order].status = "FAILED"]
  /\ notice' = [notice EXCEPT ![n].stage = "answered"]
  /\ overtaken' = IF deposit[notice[n].order].status = "COMPLETED"
                    THEN overtaken \union {notice[n].order} ELSE overtaken
  /\ UNCHANGED <<charged, mintJob, minted, cutOff, retry>>

(* Another handler of a paid notification has read the row, and will go on  *)
Crosses(n) ==
  \E other \in Notices \ {n} :
    notice[other].order = notice[n].order /\ notice[other].stage = "read" /\ notice[other].paid

MarkCompleted(n) ==
  /\ notice[n].stage = "read" /\ notice[n].paid
  /\ deposit' = [deposit EXCEPT ![notice[n].order].status = "COMPLETED"]
  /\ notice' = [notice EXCEPT ![n].stage = "completed"]
  /\ overtaken' = IF Crosses(n) THEN overtaken \union {notice[n].order} ELSE overtaken
  /\ UNCHANGED <<charged, mintJob, minted, cutOff, retry>>

(* The job is added with no id of its own, so each handler adds another.    *)
(* With no wallet nothing is added; when the queue refuses, the row says so, *)
(* or an error of that update is dropped                                    *)
AddMint(n) ==
  LET o == notice[n].order
  IN  /\ notice[n].stage = "completed"
      /\ notice' = [notice EXCEPT ![n].stage = "answered"]
      /\ \/ /\ deposit[o].payer \notin Walletless
            /\ mintJob' = [mintJob EXCEPT ![n].state = "waiting"]
            /\ UNCHANGED <<deposit, cutOff>>
         \/ /\ deposit[o].payer \notin Walletless
            /\ deposit' = [deposit EXCEPT ![o].blockchainStatus = "FAILED_BLOCKCHAIN"]
            /\ UNCHANGED <<mintJob, cutOff>>
         \/ /\ deposit[o].payer \notin Walletless
            /\ cutOff' = cutOff \union {o}
            /\ UNCHANGED <<deposit, mintJob>>
         \/ /\ deposit[o].payer \in Walletless
            /\ UNCHANGED <<deposit, mintJob, cutOff>>
      /\ UNCHANGED <<charged, minted, overtaken, retry>>

(* The process dies under the handler.  The gateway has read no OK and      *)
(* notifies again.                                                          *)
HandlerDies(n) ==
  /\ notice[n].stage \in {"read", "completed"} /\ ~notice[n].died
  /\ notice' = [notice EXCEPT ![n].stage = "sent", ![n].died = TRUE]
  /\ cutOff' = IF notice[n].stage = "completed" THEN cutOff \union {notice[n].order} ELSE cutOff
  /\ UNCHANGED <<deposit, charged, mintJob, minted, overtaken, retry>>

-----------------------------------------------------------------------------
(* retryPaymentMint                                                        *)

ReadForRetry(k, o) ==
  /\ retry[k].stage = "none"
  /\ deposit[o].status = "COMPLETED" /\ deposit[o].blockchainStatus # "MINTED"
  /\ deposit[o].payer \notin Walletless
  /\ retry' = [retry EXCEPT ![k] = [stage |-> "read", order |-> o]]
  /\ UNCHANGED <<deposit, charged, notice, mintJob, minted, cutOff, overtaken>>

(* Nobody looks for the order's other jobs                                  *)
AddRetry(k) ==
  /\ retry[k].stage = "read"
  /\ mintJob' = [mintJob EXCEPT ![k].state = "waiting"]
  /\ retry' = [retry EXCEPT ![k].stage = "added"]
  /\ UNCHANGED <<deposit, charged, notice, minted, cutOff, overtaken>>

(* PENDING is written by id, though the job may have ended by now           *)
WritePending(k) ==
  LET o == retry[k].order
  IN  /\ retry[k].stage = "added"
      /\ deposit' = [deposit EXCEPT ![o].blockchainStatus = "PENDING"]
      /\ cutOff' = IF mintJob[k].state \in {"done", "failed"} THEN cutOff \union {o} ELSE cutOff
      /\ retry' = [retry EXCEPT ![k].stage = "answered"]
      /\ UNCHANGED <<charged, notice, mintJob, minted, overtaken>>

(* The queue or the database refuses, or the process dies                  *)
RetryFails(k) ==
  /\ retry[k].stage \in {"read", "added"}
  /\ retry' = [retry EXCEPT ![k].stage = "answered"]
  /\ UNCHANGED <<deposit, charged, notice, mintJob, minted, cutOff, overtaken>>

-----------------------------------------------------------------------------
(* processIzipayMintTokens, of the job of a delivery or of an administrator *)

OrderOf(j) == IF j \in Notices THEN notice[j].order ELSE retry[j].order

TakeMint(j) ==
  /\ mintJob[j].state = "waiting"
  /\ mintJob' = [mintJob EXCEPT ![j].state = "active"]
  /\ UNCHANGED <<deposit, charged, notice, minted, cutOff, overtaken, retry>>

(* mintEcoTokens returns                                                   *)
MintReturns(j) ==
  /\ mintJob[j].state = "active"
  /\ minted' = [minted EXCEPT ![OrderOf(j)] = @ + 1]
  /\ mintJob' = [mintJob EXCEPT ![j].state = "applied"]
  /\ UNCHANGED <<deposit, charged, notice, cutOff, overtaken, retry>>

SaveMint(j) ==
  /\ mintJob[j].state = "applied"
  /\ deposit' = [deposit EXCEPT ![OrderOf(j)].blockchainStatus = "MINTED"]
  /\ mintJob' = [mintJob EXCEPT ![j].state = "done"]
  /\ UNCHANGED <<charged, notice, minted, cutOff, overtaken, retry>>

(* The count is compared as if it already held this attempt                *)
LastAttemptMissed(j) == mintJob[j].attemptsMade >= MintAttempts

LastAttempt(j) == mintJob[j].attemptsMade + 1 >= MintAttempts

(* The attempt fails: the mint throws, applied or not (its polling may give *)
(* up on a transaction that is applied later), or saving its hash throws    *)
(* inside the same try.  The last attempt leaves the row to an administrator,*)
(* unless that write throws too                                             *)
MintFails(j) ==
  LET o == OrderOf(j)
  IN  /\ mintJob[j].state \in {"active", "applied"}
      /\ \/ UNCHANGED minted
         \/ mintJob[j].state = "active" /\ minted' = [minted EXCEPT ![o] = @ + 1]
      /\ \/ /\ ~LastAttempt(j)
            /\ UNCHANGED <<deposit, cutOff>>
         \/ /\ LastAttempt(j)
            /\ deposit' = [deposit EXCEPT ![o].blockchainStatus = "FAILED_BLOCKCHAIN"]
            /\ UNCHANGED cutOff
         \/ /\ LastAttempt(j)
            /\ cutOff' = cutOff \union {o}
            /\ UNCHANGED deposit
      /\ mintJob' = [mintJob EXCEPT
                       ![j].attemptsMade = @ + 1,
                       ![j].state = IF mintJob[j].attemptsMade + 1 >= MintAttempts
                                      THEN "failed" ELSE "waiting"]
      /\ UNCHANGED <<charged, notice, overtaken, retry>>

(* The worker dies and the job is found stalled: another worker has it, or it *)
(* has stalled too often, and BullMQ fails it without running its catch     *)
MintStalls(j) ==
  /\ mintJob[j].state \in {"active", "applied"}
  /\ \/ /\ mintJob[j].stalls < MaxStalls
        /\ mintJob' = [mintJob EXCEPT ![j].state = "waiting", ![j].stalls = @ + 1]
        /\ UNCHANGED cutOff
     \/ /\ mintJob[j].stalls >= MaxStalls
        /\ mintJob' = [mintJob EXCEPT ![j].state = "failed"]
        /\ cutOff' = cutOff \union {OrderOf(j)}
  /\ UNCHANGED <<deposit, charged, notice, minted, overtaken, retry>>

-----------------------------------------------------------------------------
DepositsNext ==
  \/ \E o \in Orders : \/ \E p \in Payers, amount \in MinDeposit..MaxDeposit : CheckDeposit(o, p, amount)
                       \/ CreateDeposit(o) \/ StoreFormToken(o)
  \/ \E o \in Orders, n \in Notices, paid \in BOOLEAN : GatewayAnswers(o, n, paid)
  \/ \E n, again \in Notices : Redeliver(n, again)
  \/ \E n \in Notices :
       \/ ReadNotice(n) \/ MarkFailed(n) \/ MarkCompleted(n) \/ AddMint(n) \/ HandlerDies(n)
  \/ \E k \in Remints :
       \/ \E o \in Orders : ReadForRetry(k, o)
       \/ AddRetry(k) \/ WritePending(k) \/ RetryFails(k)
  \/ \E j \in Notices \union Remints :
       TakeMint(j) \/ MintReturns(j) \/ SaveMint(j) \/ MintFails(j) \/ MintStalls(j)

DepositsSpec == DepositsInit /\ [][DepositsNext]_depositVars

(* The server handles what it receives and the worker takes its jobs        *)
DepositsFairness ==
  /\ \A n \in Notices :
       WF_depositVars(ReadNotice(n) \/ MarkFailed(n) \/ MarkCompleted(n) \/ AddMint(n))
  /\ \A j \in Notices \union Remints :
       WF_depositVars(TakeMint(j) \/ MintReturns(j) \/ SaveMint(j) \/ MintFails(j))

-----------------------------------------------------------------------------
(* Properties                                                              *)

DepositsTypeOK ==
  /\ \A o \in Orders :
       /\ deposit[o].status \in {"none", "checked", "PENDING", "COMPLETED", "FAILED"}
       /\ deposit[o].payer \in Payers
       /\ deposit[o].amount \in 0..MaxDeposit
       /\ deposit[o].blockchainStatus \in {"PENDING", "MINTED", "FAILED_BLOCKCHAIN"}
  /\ charged \subseteq Orders /\ cutOff \union overtaken \subseteq Orders
  /\ \A n \in Notices :
       notice[n].stage \in {"none", "sent", "read", "completed", "answered"}
  /\ \A k \in Remints : retry[k].stage \in {"none", "read", "added", "answered"}
  /\ \A j \in Notices \union Remints :
       /\ mintJob[j].state \in {"none", "waiting", "active", "applied", "done", "failed"}
       /\ mintJob[j].attemptsMade \in 0..MintAttempts
  /\ minted \in [Orders -> Nat]

Decided(o) ==
  \/ deposit[o].blockchainStatus # "PENDING"
  \/ deposit[o].payer \in Walletless
  \/ o \in cutOff

(* What the gateway charged is credited, or is left to an administrator as  *)
(* FAILED_BLOCKCHAIN, whatever notifications overtake each other, whichever *)
(* attempts of the mint fail and whenever it is ordered again: no deposit   *)
(* stays PENDING.  Excepted are a payer without a wallet and an order whose  *)
(* row lost track of its job (cutOff): by a handler that died between its   *)
(* two writes, by a FAILED_BLOCKCHAIN that could not be written, by a job   *)
(* that stalled twice, or by an administrator's PENDING after its end.      *)
CreditDecided == []<>(\A o \in charged : Decided(o))

(* "Idempotencia: Si ya fue completada, responder OK": a charge of the       *)
(* gateway adds a second mint job only if two of its notifications crossed, *)
(* each handler having read the row before the other wrote it, or if a      *)
(* refusal of an earlier try was handled after the charge and overwrote it.  *)
SecondMintHasCause ==
  \A o \in Orders \ overtaken :
    Cardinality({n \in Notices : notice[n].order = o /\ mintJob[n].state # "none"}) <= 1

=============================================================================
