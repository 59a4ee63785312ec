-------------------------- MODULE EcoTokenRegistry --------------------------
(***************************************************************************)
(* The Soroban contract of the EcoToken: balances, allowances and nonces   *)
(* of the token, and the registry of batches that are rewarded or          *)
(* notarized once.                                                         *)
(*                                                                         *)
(* An invocation is atomic: it either carries out all it does or panics    *)
(* and changes nothing, so every entry point is an action whose guard is   *)
(* the absence of a panic.  The time to live of the storage is left out.   *)
(***************************************************************************)
EXTENDS Integers, Sequences, FiniteSets, FiniteSetsExt

CONSTANTS
    Addresses,       \* accounts of the ledger
    Owner,           \* owner given to init
    Primary,         \* worker given to init, the relayer's key
    BatchIds,        \* ids of batches
    Codes,           \* material codes
    Preset,          \* tariffs set by init, per kilogram: [Codes -> Nat \cup {None}]
    DefaultRate,     \* tariff of the other materials
    ShareBps,        \* the collector's share, 2000 in the code
    Amounts,         \* amounts that are minted, moved or approved
    Loads,           \* loads of a batch that anyone delivers
    None,            \* a storage entry that is not there
    MaxInvocations   \* bound on the invocations by anyone

\* The loads of a batch: material codes and weights in grams.
Deliveries == Seq([code: Codes, grams: Int])

ASSUME RegistryOK ==
    /\ {Owner, Primary} \subseteq Addresses /\ IsFiniteSet(Addresses)
    /\ None \notin Nat
    /\ Preset \in [Codes -> Nat \cup {None}] /\ DefaultRate \in Nat
    /\ ShareBps \in 0..10000 /\ Amounts \subseteq Int
    /\ Loads \subseteq Deliveries
    /\ MaxInvocations \in Nat

VARIABLES
    worker,       \* DataKey::Worker
    supply,       \* DataKey::TotalSupply
    balance,      \* DataKey::Balance
    allowance,    \* DataKey::Allowance, by owner and spender
    nonce,        \* DataKey::Nonce
    record,       \* DataKey::ProcessedBatch and BatchDetails
    rate,         \* DataKey::MaterialRate
    invocations,  \* invocations by anyone so far
    doubled,      \* amounts an address sent to itself
    minted,       \* what was minted for a batch
    receipts,     \* batch_received events of a batch
    relayed       \* nonces of the signatures that moved an address's tokens

registryVars == <<worker, supply, balance, allowance, nonce, record, rate, invocations,
                  doubled, minted, receipts, relayed>>
historyVars == <<doubled, minted, receipts, relayed>>

NoRecord == [processed |-> FALSE, reward |-> 0, recipients |-> 0]

\* init and the empty storage
RegistryInit ==
    /\ worker = Primary
    /\ supply = 0
    /\ balance = [a \in Addresses |-> 0]
    /\ allowance = [a \in Addresses |-> [b \in Addresses |-> 0]]
    /\ nonce = [a \in Addresses |-> 0]
    /\ record = [b \in BatchIds |-> NoRecord]
    /\ rate = Preset
    /\ invocations = 0
    /\ doubled = 0
    /\ minted = [b \in BatchIds |-> 0]
    /\ receipts = [b \in BatchIds |-> 0]
    /\ relayed = [a \in Addresses |-> <<>>]

RegistryTypeOK ==
    /\ worker \in Addresses /\ supply \in Int
    /\ balance \in [Addresses -> Int]
    /\ allowance \in [Addresses -> [Addresses -> Int]]
    /\ nonce \in [Addresses -> Nat]
    /\ record \in [BatchIds -> [processed: BOOLEAN, reward: Int, recipients: Nat]]
    /\ rate \in [Codes -> Int \cup {None}]
    /\ invocations \in 0..MaxInvocations

-----------------------------------------------------------------------------
(* Helpers. *)

\* require_worker_or_owner
Authorized(caller) == caller \in {Owner, worker}

\* "Lote ya procesado" otherwise
Unregistered(b) == ~record[b].processed

\* get_effective_rate
EffectiveRate(code) == IF rate[code] = None THEN DefaultRate ELSE rate[code]

\* Payments are sequences of [to, amount].
Total(payments) == MapThenSumSet(LAMBDA i : payments[i].amount, DOMAIN payments)
PaidTo(a, payments) ==
    MapThenSumSet(LAMBDA i : payments[i].amount,
                  {i \in DOMAIN payments : payments[i].to = a})

\* Variant of MintAll that reads the supply once, before the payments.
MintAllSupplyOnce(payments) ==
    /\ balance' = [a \in Addresses |-> balance[a] + PaidTo(a, payments)]
    /\ supply' = IF payments = <<>> THEN supply ELSE supply + payments[Len(payments)].amount

\* internal_mint, for every payment
MintAll(payments) ==
    /\ balance' = [a \in Addresses |-> balance[a] + PaidTo(a, payments)]
    /\ supply' = supply + Total(payments)

\* internal_transfer: neither panic
CanMove(from, amount) == amount > 0 /\ balance[from] >= amount

\* internal_transfer: both balances are read before either is written.
Moved(from, to, amount) ==
    [[balance EXCEPT ![from] = @ - amount] EXCEPT ![to] = balance[to] + amount]

Move(from, to, amount) ==
    /\ CanMove(from, amount)
    /\ balance' = Moved(from, to, amount)
    /\ doubled' = IF from = to THEN doubled + amount ELSE doubled

\* The division of the contract's numbers rounds towards zero; b is positive.
Quot(a, b) == IF a >= 0 THEN a \div b ELSE -((-a) \div b)

\* The reward of a batch: every load at its tariff. Tariffs and weights may be negative.
Reward(loads) ==
    MapThenSumSet(LAMBDA i : Quot(loads[i].grams * EffectiveRate(loads[i].code), 1000),
                  DOMAIN loads)

\* Variant of Share that keeps what does not divide among the households.
ShareWithoutResidue(total, n) ==
    LET cut == Quot(total * ShareBps, 10000)
    IN  IF n = 0 THEN [each |-> 0, collector |-> total]
        ELSE [each |-> Quot(total - cut, n), collector |-> cut]

\* The split between n households and the collector, who gets the residue.
Share(total, n) ==
    LET cut == Quot(total * ShareBps, 10000)
        each == Quot(total - cut, n)
    IN  IF n = 0 THEN [each |-> 0, collector |-> total]
        ELSE [each |-> each, collector |-> total - each * n]

\* "Acunacion": the households' shares and the collector's, each only if it is positive.
Split(collector, households, share) ==
    LET shares == IF share.each > 0
                  THEN [i \in 1..Len(households) |-> [to |-> households[i], amount |-> share.each]]
                  ELSE <<>>
    IN  IF share.collector > 0
        THEN Append(shares, [to |-> collector, amount |-> share.collector]) ELSE shares

Register(b, reward, recipients) ==
    record' = [record EXCEPT ![b] =
                 [processed |-> TRUE, reward |-> reward, recipients |-> recipients]]

-----------------------------------------------------------------------------
(* Entry points. *)

SetWorker(caller, new) ==
    /\ Authorized(caller)
    /\ worker' = new
    /\ UNCHANGED <<supply, balance, allowance, nonce, record, rate, historyVars>>

SetMaterialRate(caller, code, r) ==
    /\ Authorized(caller)
    /\ rate' = [rate EXCEPT ![code] = r]
    /\ UNCHANGED <<worker, supply, balance, allowance, nonce, record, historyVars>>

Approve(from, spender, amount) ==
    /\ allowance' = [allowance EXCEPT ![from][spender] = amount]
    /\ UNCHANGED <<worker, supply, balance, nonce, record, rate, historyVars>>

CanTransfer(from, to, amount) == CanMove(from, amount)
Transfer(from, to, amount) ==
    /\ Move(from, to, amount)
    /\ UNCHANGED <<worker, supply, allowance, nonce, record, rate, minted, receipts, relayed>>

TransferFrom(spender, from, to, amount) ==
    /\ allowance[from][spender] >= amount
    /\ allowance' = [allowance EXCEPT ![from][spender] = @ - amount]
    /\ Move(from, to, amount)
    /\ UNCHANGED <<worker, supply, nonce, record, rate, minted, receipts, relayed>>

Mint(caller, to, amount) ==
    /\ Authorized(caller)
    /\ MintAll(<<[to |-> to, amount |-> amount]>>)
    /\ UNCHANGED <<worker, allowance, nonce, record, rate, historyVars>>

\* The reward of a batch, minted to several payees.
MintForBatch(b, payments) ==
    /\ MintAll(payments)
    /\ minted' = [minted EXCEPT ![b] = @ + Total(payments)]

RegisterBatch(caller, b, payments) ==
    /\ Authorized(caller)
    /\ Unregistered(b)
    /\ payments # <<>>
    /\ MintForBatch(b, payments)
    /\ Register(b, Total(payments), Len(payments))
    /\ UNCHANGED <<worker, allowance, nonce, rate, doubled, receipts, relayed>>

CanRegisterWeighed(caller, b, loads) ==
    Authorized(caller) /\ Unregistered(b) /\ loads # <<>> /\ Reward(loads) # 0

RegisterBatchWeighed(caller, b, collector, households, loads) ==
    LET n == Len(households)
        share == Share(Reward(loads), n)
    IN  /\ CanRegisterWeighed(caller, b, loads)
        /\ MintForBatch(b, Split(collector, households, share))
        /\ Register(b, Reward(loads), n + 1)
        /\ UNCHANGED <<worker, allowance, nonce, rate, doubled, receipts, relayed>>

CanNotarize(caller, b) == Authorized(caller) /\ Unregistered(b)
NotarizeBatchReceipt(caller, b) ==
    /\ CanNotarize(caller, b)
    /\ Register(b, 0, 1)
    /\ receipts' = [receipts EXCEPT ![b] = @ + 1]
    /\ UNCHANGED <<worker, supply, balance, allowance, nonce, rate, doubled, minted, relayed>>

\* Variant of FreshNonce that takes any nonce that is not ahead.
NonceNotAhead(from, n) == n <= nonce[from]

\* "Nonce invalido" otherwise
FreshNonce(from, n) == n = nonce[from]

\* The signature over (from, to, amount, nonce) is the sender's own.
CanTransferDelegated(caller, from, amount, n) ==
    Authorized(caller) /\ FreshNonce(from, n) /\ CanMove(from, amount)
TransferDelegated(caller, from, to, amount, n) ==
    /\ CanTransferDelegated(caller, from, amount, n)
    /\ nonce' = [nonce EXCEPT ![from] = @ + 1]
    /\ relayed' = [relayed EXCEPT ![from] = Append(@, n)]
    /\ Move(from, to, amount)
    /\ UNCHANGED <<worker, supply, allowance, record, rate, minted, receipts>>

\* Anyone invokes the contract; the bound keeps the ledger finite.
AnyoneInvokes ==
    /\ invocations < MaxInvocations
    /\ invocations' = invocations + 1
    /\ \E caller, a, b \in Addresses, n \in Amounts :
          \/ SetWorker(caller, a) \/ Mint(caller, a, n)
          \/ Approve(caller, a, n) \/ Transfer(caller, a, n) \/ TransferFrom(caller, a, b, n)
          \/ \E k \in 0..MaxInvocations : TransferDelegated(caller, a, b, n, k)
          \/ \E id \in BatchIds :
                \/ NotarizeBatchReceipt(caller, id)
                \/ \E payments \in {<<>>, <<[to |-> a, amount |-> n], [to |-> b, amount |-> 1]>>} :
                      RegisterBatch(caller, id, payments)
                \/ \E loads \in Loads, households \in {<<>>, <<b>>, <<a, b>>, <<b, b>>} :
                      RegisterBatchWeighed(caller, id, a, households, loads)
          \/ \E code \in Codes : SetMaterialRate(caller, code, n)

-----------------------------------------------------------------------------
\* "TotalSupply: Suministro total circulante": however tokens are minted, moved,
\* spent on an allowance or moved by signature, the balances sum up to the supply.
\* A transfer to oneself is the one exception: it adds what it moves, since the
\* receiver's balance is read before the sender's is written.
SupplyIsBalances ==
    MapThenSumSet(LAMBDA a : balance[a], Addresses) = supply + doubled

\* The reward of a batch is handed out to the last unit, once, and a batch that was
\* only notarized mints nothing: registered, weighed or notarized again, by whoever
\* is authorized then, minted stays what the record says. The exception is a weighed
\* batch whose tariffs or weights make its reward negative: it is recorded, and
\* nothing is minted for it.
RewardIsMinted ==
    \A b \in BatchIds :
        /\ receipts[b] <= 1
        /\ minted[b] = record[b].reward \/ (record[b].reward < 0 /\ minted[b] = 0)

\* A signature moves tokens at most once, whatever order the relayers bring it in.
SignatureOnce ==
    \A a \in Addresses : \A i, j \in DOMAIN relayed[a] :
        relayed[a][i] = relayed[a][j] => i = j

=============================================================================
