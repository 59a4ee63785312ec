----------------------------- MODULE TokenChain -----------------------------
(***************************************************************************)
(* How the service brings transactions to the ledger: the client of the    *)
(* contract (blockchain.service.ts), the leases of channel accounts and    *)
(* the locks of accounts in Redis (stellar-sequence-manager.service.ts),   *)
(* and the network between them and the contract.                          *)
(*                                                                         *)
(* A request runs in one of several processes.  It leases a channel, takes *)
(* locks, reads the sequence number of the paying account, simulates,      *)
(* signs, sends and polls.  The network admits one transaction of an       *)
(* account at a time, and only with the next number.  Every question goes  *)
(* to one of several nodes, and to the next one when the first is slow     *)
(* (stellar-rpc-manager.service.ts): a node may be behind the ledger, and  *)
(* a transaction may be submitted twice.  The answer to a submission can   *)
(* be lost: then the request fails, may be repeated by its queue or its    *)
(* user, and the transaction may still be applied.                         *)
(***************************************************************************)
EXTENDS EcoTokenRegistry

CONSTANTS
    Requests,    \* calls of the client
    Processes,   \* API replicas and the worker
    Pools,       \* values of STELLAR_CHANNEL_SECRET_KEYS, as sets of addresses
    Tasks,       \* what the requests can be for
    MaxTries     \* times a request is made, with its repetitions

\* What a request asks for is about accounts and batches that are there, and the account
\* of a user, who signs with a key of his own, is no channel of the service.
TaskOK(t) ==
    /\ t.fn \in {"mint", "notarize", "weigh", "delegate", "subsidize", "sponsor"}
    /\ t.fn # "notarize" => t.to \in Addresses
    /\ t.fn \in {"mint", "delegate", "subsidize"} => t.amount \in Int
    /\ t.fn \in {"delegate", "subsidize"} => t.from \in Addresses
    /\ t.fn = "subsidize" => t.from # Primary /\ \A p \in Pools : t.from \notin p
    /\ t.fn \in {"notarize", "weigh"} => t.batch \in BatchIds
    /\ t.fn = "weigh" => t.households \in Seq(Addresses) /\ t.loads \in Deliveries

ASSUME ChainOK ==
    /\ None \notin Requests /\ None \notin Addresses
    /\ \A p \in Pools : p # {} /\ p \subseteq Addresses
    /\ \A t \in Tasks : TaskOK(t)
    /\ MaxTries \in Nat \ {0}

VARIABLES
    pool,       \* channelPool, the same in every process
    task,       \* what a request is for
    inUse,      \* inUseChannels of a process
    lock,       \* stellar:lock:seq:<account>: the request whose value it holds
    run,        \* progress of a request
    sequence,   \* sequence number of an account on the ledger
    mempool,    \* transactions the network has admitted and not applied
    existing,   \* accounts created on the ledger
    \* History.
    applied,    \* transactions of a request the ledger carried out
    succeeded,  \* requests that reported success
    exposed,    \* accounts that were used without the lease and the lock meant for them,
                \* or for which the nodes were out of step
    collided    \* accounts for which a transaction was turned away for its number

clientVars == <<pool, task, inUse, lock, run, sequence, mempool, existing,
                applied, succeeded, exposed, collided>>
vars == <<registryVars, clientVars>>

Idle == [phase |-> "idle", at |-> None, signer |-> None, seq |-> 0, took |-> {},
         again |-> FALSE, plain |-> FALSE, tries |-> 0, outcome |-> "none"]

\* initKeys: without channels in the configuration the pool is the primary key.
ClientInit ==
    /\ pool \in Pools
    /\ task \in [Requests -> Tasks]
    /\ inUse = [p \in Processes |-> {}]
    /\ lock = [a \in Addresses |-> None]
    /\ run = [r \in Requests |-> Idle]
    /\ sequence = [a \in Addresses |-> 0]
    /\ mempool = {}
    /\ existing = {}
    /\ applied = [r \in Requests |-> 0]
    /\ succeeded = {}
    /\ exposed = {} /\ collided = {}

Init == RegistryInit /\ ClientInit

Phases == {"idle", "lockUser", "lease", "lockChannel", "build", "simulate", "send",
           "resend", "poll", "done", "failed"}
TypeOK ==
    /\ RegistryTypeOK
    /\ pool \in Pools /\ task \in [Requests -> Tasks]
    /\ inUse \in [Processes -> SUBSET Addresses]
    /\ lock \in [Addresses -> Requests \cup {None}]
    /\ run \in [Requests -> [phase: Phases, at: Processes \cup {None},
                             signer: Addresses \cup {None}, seq: Nat,
                             took: SUBSET Addresses, again: BOOLEAN, plain: BOOLEAN,
                             tries: 0..MaxTries,
                             outcome: {"none", "success", "failed", "expired"}]]
    /\ sequence \in [Addresses -> Nat]
    /\ \A t \in mempool : t.by \in Requests /\ t.src \in Addresses /\ t.seq \in Nat
    /\ existing \subseteq Addresses
    /\ applied \in [Requests -> Nat] /\ succeeded \subseteq Requests
    /\ exposed \subseteq Addresses /\ collided \subseteq Addresses

-----------------------------------------------------------------------------
(* What the calls of the client ask for. *)

MintTask(to, amount) == [fn |-> "mint", to |-> to, amount |-> amount]
NotarizeTask(b) == [fn |-> "notarize", batch |-> b]
WeighTask(b, to, households, loads) ==
    [fn |-> "weigh", batch |-> b, to |-> to, households |-> households, loads |-> loads]
DelegateTask(from, to, amount, n) ==
    [fn |-> "delegate", from |-> from, to |-> to, amount |-> amount, nonce |-> n]
SubsidizeTask(from, to, amount) ==
    [fn |-> "subsidize", from |-> from, to |-> to, amount |-> amount]
SponsorTask(to) == [fn |-> "sponsor", to |-> to]

Is(r, fn) == task[r].fn = fn
Phase(r) == run[r].phase
GoTo(r, phase) == run' = [run EXCEPT ![r].phase = phase]

\* executeSubsidizedTransfer: the user is the source, the channel pays the fee.
Subsidized(r) == Is(r, "subsidize")
Source(r) == IF Subsidized(r) THEN task[r].from ELSE run[r].signer

\* Operations that are no invocations of the contract: manageData, createAccount.
Classic(r) == Is(r, "sponsor") \/ run[r].plain

\* What is signed and sent for a request.
Transaction(r) ==
    [by |-> r, try |-> run[r].tries, src |-> Source(r), seq |-> run[r].seq,
     task |-> task[r], signer |-> run[r].signer, plain |-> run[r].plain]

\* The contract does not panic on it.
Accepts(x) ==
    LET t == x.task
        caller == x.signer
    IN  \/ x.plain
        \/ t.fn = "sponsor" /\ t.to \notin existing
        \/ t.fn = "mint" /\ Authorized(caller)
        \/ t.fn = "notarize" /\ CanNotarize(caller, t.batch)
        \/ t.fn = "weigh" /\ CanRegisterWeighed(caller, t.batch, t.loads)
        \/ t.fn = "delegate" /\ CanTransferDelegated(caller, t.from, t.amount, t.nonce)
        \/ t.fn = "subsidize" /\ CanTransfer(t.from, t.to, t.amount)

\* What the transaction of a request does on the ledger.
Effect(t, signer, plain) ==
    \/ plain /\ UNCHANGED <<registryVars, existing>>
    \/ t.fn = "sponsor" /\ existing' = existing \cup {t.to} /\ UNCHANGED registryVars
    \/ /\ ~plain
       /\ \/ t.fn = "mint" /\ Mint(signer, t.to, t.amount)
          \/ t.fn = "notarize" /\ NotarizeBatchReceipt(signer, t.batch)
          \/ t.fn = "weigh" /\ RegisterBatchWeighed(signer, t.batch, t.to, t.households, t.loads)
          \/ t.fn = "delegate" /\ TransferDelegated(signer, t.from, t.to, t.amount, t.nonce)
          \/ t.fn = "subsidize" /\ Transfer(t.from, t.to, t.amount)
       /\ UNCHANGED <<invocations, existing>>

-----------------------------------------------------------------------------
(* Leases and locks. *)

\* A task is begun, or repeated after it failed.
Start(r, p) ==
    /\ Phase(r) = "idle"
    /\ run' = [run EXCEPT ![r].phase = IF Subsidized(r) THEN "lockUser" ELSE "lease",
                          ![r].at = p, ![r].tries = @ + 1]
    /\ UNCHANGED <<registryVars, pool, task, inUse, lock, sequence, mempool, existing,
                   applied, succeeded, exposed, collided>>

\* sponsorAccountCreation finds the account, or the test network's friendbot makes it.
AlreadyThere(r) ==
    /\ Is(r, "sponsor") /\ Phase(r) = "lease"
    /\ \/ task[r].to \in existing /\ UNCHANGED existing
       \/ existing' = existing \cup {task[r].to}
    /\ run' = [run EXCEPT ![r] = [Idle EXCEPT !.phase = "done", !.tries = run[r].tries]]
    /\ UNCHANGED <<registryVars, pool, task, inUse, lock, sequence, mempool,
                   applied, succeeded, exposed, collided>>

\* With more than one channel the leases are all there is.
Shared == Cardinality(pool) > 1

AfterLease(r) == IF Subsidized(r) THEN "send" ELSE "build"
Leased(r, a) ==
    run' = [run EXCEPT ![r].signer = a,
                       ![r].phase = IF Shared THEN AfterLease(r) ELSE "lockChannel"]

\* Variant of Free that forgets the channels in use.
AllFree(p) == pool

Free(p) == pool \ inUse[p]

\* acquireChannelAccount: another process may be using the channel too.
LeaseChannel(r, a) ==
    LET p == run[r].at
    IN  /\ Phase(r) = "lease"
        /\ a \in Free(p)
        /\ inUse' = [inUse EXCEPT ![p] = @ \cup {a}]
        /\ Leased(r, a)
        /\ exposed' = IF Shared /\ \E q \in Processes \ {p} : a \in inUse[q]
                      THEN exposed \cup {a} ELSE exposed
        /\ UNCHANGED <<registryVars, pool, task, lock, sequence, mempool, existing,
                       applied, succeeded, collided>>

\* After 15 s without a free channel: the primary key, whoever uses it.
LeaseTimesOut(r) ==
    /\ Phase(r) = "lease"
    /\ Free(run[r].at) = {}
    /\ Leased(r, Primary)
    /\ exposed' = IF Shared THEN exposed \cup {Primary} ELSE exposed
    /\ UNCHANGED <<registryVars, pool, task, inUse, lock, sequence, mempool, existing,
                   applied, succeeded, collided>>

\* withAccountLock, on the sender or on the only channel.
Locking(r) == Phase(r) \in {"lockUser", "lockChannel"}
LockOf(r) == IF Phase(r) = "lockUser" THEN task[r].from ELSE run[r].signer
AfterLock(r) == IF Phase(r) = "lockUser" THEN "build" ELSE AfterLease(r)

TakeLock(r) ==
    LET a == LockOf(r)
    IN  /\ Locking(r)
        /\ lock[a] = None
        /\ lock' = [lock EXCEPT ![a] = r]
        /\ run' = [run EXCEPT ![r].phase = AfterLock(r), ![r].took = @ \cup {a}]
        /\ UNCHANGED <<registryVars, pool, task, inUse, sequence, mempool, existing,
                       applied, succeeded, exposed, collided>>

\* 15 s went by, or Redis failed: on without the lock.
SkipLock(r) ==
    /\ Locking(r)
    /\ GoTo(r, AfterLock(r))
    /\ exposed' = exposed \cup {LockOf(r)}
    /\ UNCHANGED <<registryVars, pool, task, inUse, lock, sequence, mempool, existing,
                   applied, succeeded, collided>>

\* The key lives 15 s, polling takes up to 30 s.
LockExpires(a) ==
    /\ lock[a] # None
    /\ lock' = [lock EXCEPT ![a] = None]
    /\ exposed' = exposed \cup {a}
    /\ UNCHANGED <<registryVars, pool, task, inUse, run, sequence, mempool, existing,
                   applied, succeeded, collided>>

\* The Lua script: the value is still the request's own.
OwnLock(r, a) == lock[a] = r

\* The finally blocks of withAccountLock and withChannelAccount; a request whose
\* transaction may still be applied leaves its account behind in use.
Release(r) ==
    /\ lock' = [a \in Addresses |-> IF a \in run[r].took /\ OwnLock(r, a) THEN None ELSE lock[a]]
    /\ inUse' = [inUse EXCEPT ![run[r].at] = @ \ {run[r].signer}]

\* The queue, or the user, tries again.
AfterFailure(r) == IF run[r].tries < MaxTries THEN "idle" ELSE "failed"

Fails(r) ==
    /\ Release(r)
    /\ run' = [run EXCEPT ![r] = [Idle EXCEPT !.phase = AfterFailure(r), !.tries = run[r].tries]]
    /\ UNCHANGED succeeded
Succeeds(r) ==
    /\ Release(r)
    /\ run' = [run EXCEPT ![r] = [Idle EXCEPT !.phase = "done", !.tries = run[r].tries]]
    /\ succeeded' = succeeded \cup {r}
Abandoned(r) == IF \E t \in mempool' : t.by = r THEN exposed \cup {Source(r)} ELSE exposed

-----------------------------------------------------------------------------
(* Building, simulating and sending. *)

\* getSourceAccount and the builder, which adds one.  The node that answers may know an
\* earlier number of the account, or not know the account at all.
Build(r) ==
    /\ Phase(r) = "build"
    /\ \E n \in 0..sequence[Source(r)] :
          /\ run' = [run EXCEPT ![r].phase = "simulate", ![r].seq = n + 1]
          /\ exposed' = IF n < sequence[Source(r)] THEN exposed \cup {Source(r)} ELSE exposed
    /\ UNCHANGED <<registryVars, pool, task, inUse, lock, sequence, mempool, existing,
                   applied, succeeded, collided>>

\* The number is behind the ledger: the node that gave it may simulate on an earlier one.
Behind(r) == run[r].seq <= sequence[Source(r)]

\* The simulation runs the contract on the ledger as it is, or as a node that is behind
\* knows it.  Sponsoring with the user's key is sent without one.
Simulates(r) ==
    /\ Phase(r) = "simulate"
    /\ Accepts(Transaction(r)) \/ Behind(r) \/ Is(r, "sponsor")
    /\ GoTo(r, IF Subsidized(r) THEN "lease" ELSE "send")
    /\ UNCHANGED <<registryVars, pool, task, inUse, lock, sequence, mempool, existing,
                   applied, succeeded, exposed, collided>>

\* Variant of FallsBack that falls back from the fallback.
AlwaysFallsBack(r) == Is(r, "notarize")

FallsBack(r) == Is(r, "notarize") /\ ~run[r].plain

\* notarizeBatchReceipt takes a panic for a contract without that function and
\* notes the batch with manageData instead; the others fail.  A node may refuse to
\* simulate an operation that is no invocation.
SimulationFails(r) ==
    /\ Phase(r) = "simulate"
    /\ ~Accepts(Transaction(r)) \/ Behind(r) \/ Classic(r)
    /\ IF FallsBack(r)
       THEN /\ run' = [run EXCEPT ![r].phase = "build", ![r].plain = TRUE]
            /\ UNCHANGED <<lock, inUse, succeeded>>
       ELSE Fails(r)
    /\ UNCHANGED <<registryVars, pool, task, sequence, mempool, existing, applied, exposed, collided>>

Next1(a) == sequence[a] + 1
Waiting(a) == \E t \in mempool : t.src = a

\* The network admits the transaction and the node says PENDING; the sponsorship
\* with the user's key does not look at the answer.
SendAdmitted(r) ==
    /\ Phase(r) = "send"
    /\ run[r].seq = Next1(Source(r)) /\ ~Waiting(Source(r))
    /\ mempool' = mempool \cup {Transaction(r)}
    /\ \/ GoTo(r, "poll") /\ UNCHANGED <<lock, inUse, succeeded, exposed>>
       \/ Is(r, "sponsor") /\ Succeeds(r) /\ exposed' = Abandoned(r)
    /\ UNCHANGED <<registryVars, pool, task, sequence, existing, applied, collided>>

\* The node that admitted it has not answered within 3 s: the manager submits it to the
\* next one.
SendTimesOut(r) ==
    /\ Phase(r) = "send"
    /\ run[r].seq = Next1(Source(r)) /\ ~Waiting(Source(r))
    /\ mempool' = mempool \cup {Transaction(r)}
    /\ GoTo(r, "resend")
    /\ exposed' = exposed \cup {Source(r)}
    /\ UNCHANGED <<registryVars, pool, task, inUse, lock, sequence, existing,
                   applied, succeeded, collided>>

\* The next node takes it for a new one and says PENDING.
ResendTaken(r) ==
    /\ Phase(r) = "resend"
    /\ UNCHANGED mempool
    /\ \/ GoTo(r, "poll") /\ UNCHANGED <<lock, inUse, succeeded, exposed>>
       \/ Is(r, "sponsor") /\ Succeeds(r) /\ exposed' = Abandoned(r)
    /\ UNCHANGED <<registryVars, pool, task, sequence, existing, applied, collided>>

\* No node answers, the circuit breaker gives up first, or the next node answers
\* DUPLICATE: an error, whatever becomes of the transaction.
Unanswered(r) ==
    /\ Phase(r) \in {"build", "simulate", "send", "resend"}
    /\ UNCHANGED mempool
    /\ Fails(r)
    /\ exposed' = Abandoned(r)
    /\ UNCHANGED <<registryVars, pool, task, sequence, existing, applied, collided>>

\* tx_bad_seq: two of the calls read the number again and send once more.
Rebuilds(r) == (Is(r, "weigh") \/ Is(r, "notarize")) /\ ~run[r].again

\* Nothing that was sent in this try is waiting.
Settled(r) == \A t \in mempool : t.by = r => t.try # run[r].tries

\* Turned away: the number is not the next one (ERROR, tx_bad_seq), or another
\* transaction of the account is waiting (TRY_AGAIN_LATER).  The next node also turns
\* away what the first one has brought to a ledger.
SendTurnedAway(r) ==
    LET a == Source(r)
    IN  /\ \/ Phase(r) = "send" /\ (run[r].seq # Next1(a) \/ Waiting(a))
           \/ Phase(r) = "resend" /\ run[r].seq # Next1(a) /\ Settled(r)
        /\ collided' = collided \cup {a}
        /\ \/ /\ run[r].seq # Next1(a) /\ Rebuilds(r)
              /\ run' = [run EXCEPT ![r].phase = "build", ![r].again = TRUE, ![r].plain = FALSE,
                                    ![r].outcome = "none"]
              /\ UNCHANGED <<lock, inUse, succeeded>>
           \/ Fails(r)
           \/ Is(r, "sponsor") /\ Succeeds(r)
        /\ UNCHANGED <<registryVars, pool, task, sequence, mempool, existing, applied, exposed>>

\* A ledger closes with the transaction: its number is used up, and it is carried
\* out unless the contract panics now.
Outcome(t, o) ==
    run' = IF Phase(t.by) \in {"resend", "poll"} /\ run[t.by].tries = t.try
           THEN [run EXCEPT ![t.by].outcome = o] ELSE run

LedgerCloses(t) ==
    /\ t \in mempool
    /\ mempool' = mempool \ {t}
    /\ sequence' = [sequence EXCEPT ![t.src] = t.seq]
    /\ IF Accepts(t)
       THEN /\ Effect(t.task, t.signer, t.plain)
            /\ applied' = [applied EXCEPT ![t.by] = @ + 1]
            /\ Outcome(t, "success")
       ELSE /\ Outcome(t, "failed")
            /\ UNCHANGED <<registryVars, existing, applied>>
    /\ UNCHANGED <<pool, task, inUse, lock, succeeded, exposed, collided>>

\* The time bounds of the transaction pass.
Expires(t) ==
    /\ t \in mempool
    /\ mempool' = mempool \ {t}
    /\ Outcome(t, "expired")
    /\ UNCHANGED <<registryVars, pool, task, inUse, lock, sequence, existing,
                   applied, succeeded, exposed, collided>>

-----------------------------------------------------------------------------
(* Polling. *)

\* Variant of Final that takes the end of the polling for the end of the transaction.
NotFailed(r) == run[r].outcome # "failed"

\* txStatus === 'SUCCESS'
Final(r) == run[r].outcome = "success"

PollSucceeds(r) ==
    /\ Phase(r) = "poll"
    /\ Final(r)
    /\ Succeeds(r)
    /\ UNCHANGED <<registryVars, pool, task, sequence, mempool, existing, applied, exposed, collided>>

\* FAILED; or 30 s without an answer, by when a transaction with a bound of 30 s is
\* in a ledger or out of time; or no node answers.
PollFails(r) ==
    /\ Phase(r) = "poll"
    /\ UNCHANGED mempool
    /\ Fails(r)
    /\ exposed' = Abandoned(r)
    /\ UNCHANGED <<registryVars, pool, task, sequence, existing, applied, collided>>

-----------------------------------------------------------------------------
RequestStep(r) ==
    \/ \E a \in pool : LeaseChannel(r, a)
    \/ LeaseTimesOut(r) \/ TakeLock(r) \/ SkipLock(r)
    \/ Build(r) \/ Simulates(r) \/ SimulationFails(r)
    \/ SendAdmitted(r) \/ SendTimesOut(r) \/ ResendTaken(r) \/ SendTurnedAway(r)
    \/ Unanswered(r)
    \/ PollSucceeds(r) \/ PollFails(r)

ClientNext ==
    \/ \E r \in Requests : RequestStep(r) \/ AlreadyThere(r) \/ \E p \in Processes : Start(r, p)
    \/ \E a \in Addresses : LockExpires(a)
    \/ \E t \in mempool : LedgerCloses(t) \/ Expires(t)

Next == ClientNext \/ (AnyoneInvokes /\ UNCHANGED clientVars)

Spec == Init /\ [][Next]_vars

\* Every wait of a request has a limit.
FairSpec == Spec /\ \A r \in Requests : WF_vars(RequestStep(r))

-----------------------------------------------------------------------------
\* Whatever the client sends and anyone invokes, the contract's records keep their
\* types and the balances sum up to the supply (SupplyIsBalances).
LedgerConsistent == TypeOK /\ SupplyIsBalances

\* Leases and locks prevent collisions as long as they are kept and the nodes are in
\* step: an account is only turned away if it was used past them, after a wait or a key
\* ran out, in another process, or by a request that gave up while its transaction was
\* under way; or if a node answered with an old number or was too slow with a
\* transaction, which was then submitted a second time.
CollisionHasCause == collided \subseteq exposed

\* A request that reports success was carried out by the ledger, although answers get
\* lost and time bounds pass; only a sponsorship with the user's key is not confirmed.
SuccessIsApplied == \A r \in succeeded : Is(r, "sponsor") \/ applied[r] > 0

\* However leases and locks are waited for, a request ends, and gives its channel back.
RequestsEnd ==
    \A r \in Requests :
        Phase(r) = "lease" ~> Phase(r) \in {"idle", "done", "failed"}
=============================================================================
