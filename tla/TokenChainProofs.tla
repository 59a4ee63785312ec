-------------------------- MODULE TokenChainProofs --------------------------
(* Proofs about the client of the ledger: what the contract promises holds  *)
(* for all that is sent to it, success is reported for what the ledger      *)
(* carried out, and leases and locks keep the accounts apart while they     *)
(* last.                                                                    *)
EXTENDS TokenChain, EcoTokenRegistryProofs

-----------------------------------------------------------------------------
(* The inductive invariant.                                                 *)

RunRow == [phase: Phases, at: Processes \cup {None}, signer: Addresses \cup {None}, seq: Nat,
           took: SUBSET Addresses, again: BOOLEAN, plain: BOOLEAN, tries: 0..MaxTries,
           outcome: {"none", "success", "failed", "expired"}]
Sent == [by: Requests, try: Nat, src: Addresses, seq: Nat, task: Tasks, signer: Addresses,
         plain: BOOLEAN]

Resting == {"idle", "done", "failed"}
Sending == {"resend", "poll"}

\* What a request in a phase has got.
RunOK(r) ==
    /\ run[r].phase \notin Resting => run[r].at \in Processes
    /\ run[r].phase \in Resting \cup {"lockUser"} => run[r].signer = None
    /\ run[r].phase = "idle" => run[r].tries < MaxTries
    /\ run[r].phase = "lockUser" => Subsidized(r)
    /\ run[r].phase \in {"lockChannel", "send", "resend", "poll"} => run[r].signer \in Addresses
    /\ run[r].phase \in {"build", "simulate"} /\ ~Subsidized(r) => run[r].signer \in Addresses
    /\ run[r].signer \in pool \cup {Primary, None}
    /\ run[r].outcome # "none" => run[r].phase \in Sending

ClientTyped ==
    /\ pool \in Pools /\ task \in [Requests -> Tasks]
    /\ inUse \in [Processes -> SUBSET Addresses]
    /\ lock \in [Addresses -> Requests \cup {None}]
    /\ run \in [Requests -> RunRow] /\ (\A r \in Requests : RunOK(r))
    /\ sequence \in [Addresses -> Nat]
    /\ mempool \subseteq Sent
    /\ existing \subseteq Addresses
    /\ applied \in [Requests -> Nat] /\ succeeded \subseteq Requests
    /\ exposed \subseteq Addresses /\ collided \subseteq Addresses

\* What was sent in a try is the only thing that was, and its outcome is not known yet.
MempoolOK ==
    /\ \A t \in mempool :
          /\ t.try <= run[t.by].tries
          /\ t.try = run[t.by].tries => /\ run[t.by].phase \in Resting \cup Sending
                                        /\ run[t.by].outcome = "none"
    /\ \A t, u \in mempool : t.by = u.by /\ t.try = u.try => t = u

\* What a success stands on.
OutcomesOK == \A r \in Requests : run[r].outcome = "success" => applied[r] > 0

\* The source of a request from the time it is its own until the transaction is over.
Uses(r, a) ==
    /\ Source(r) = a
    /\ run[r].phase \in {"build", "simulate", "send", "poll"}
                          \cup (IF Subsidized(r) THEN {"lease", "lockChannel"} ELSE {})

\* A channel that was never used past its lease has one holder.
LeasesOK ==
    Shared => \A a \in Addresses \ exposed :
        /\ \A r \in Requests : run[r].signer = a => a \in inUse[run[r].at]
        /\ \A r, q \in Requests : run[r].signer = a /\ run[q].signer = a => r = q

\* An account that is used under its lock is locked by its user.
LocksOK ==
    \A a \in Addresses \ exposed : \A r \in Requests :
        Uses(r, a) /\ (Subsidized(r) \/ ~Shared) => lock[a] = r

\* The number a user has read is still the next one, and only his transaction is waiting.
\* Who submits twice has left his account exposed.
Numbered == {"simulate", "lease", "lockChannel", "send"}
NumbersOK ==
    \A a \in Addresses \ exposed :
        /\ \A r \in Requests : Uses(r, a) /\ run[r].phase \in Numbered => run[r].seq = Next1(a)
        /\ \A t \in mempool : t.src = a => /\ Uses(t.by, a) /\ run[t.by].phase = "poll"
                                           /\ run[t.by].tries = t.try
        /\ \A r \in Requests : run[r].phase = "resend" => Source(r) # a

RegistryPart == LedgerInv /\ invocations \in 0..MaxInvocations
ClientInv ==
    /\ ClientTyped /\ MempoolOK /\ OutcomesOK /\ LeasesOK /\ LocksOK /\ NumbersOK
    /\ SuccessIsApplied /\ CollisionHasCause
ChainInv == RegistryPart /\ ClientInv

LEMMA InvIsConsistent == ChainInv => LedgerConsistent
  <1> SUFFICES ASSUME ChainInv PROVE LedgerConsistent
    OBVIOUS
  <1>1. RegistryTypeOK
    BY InvIsTyped DEF ChainInv, RegistryPart
  <1>2. TypeOK
    BY <1>1 DEF TypeOK, ChainInv, ClientInv, ClientTyped, RunRow, Sent
  <1> QED
    BY <1>2 DEF LedgerConsistent, ChainInv, RegistryPart, LedgerInv

LEMMA InitChain == Init => ChainInv
  <1> SUFFICES ASSUME Init PROVE ChainInv
    OBVIOUS
  <1> USE DEF Init, ClientInit
  <1>1. RegistryPart
    BY InitLedger DEF RegistryPart
  <1>2. \A r \in Requests : run[r] = Idle
    OBVIOUS
  <1>3. ClientTyped
    <2>1. Idle \in RunRow
      BY ChainOK DEF ChainOK, Idle, RunRow, Phases
    <2>2. \A r \in Requests : RunOK(r)
      BY <1>2, ChainOK DEF ChainOK, RunOK, Idle, Resting
    <2> QED BY <2>1, <2>2 DEF ClientTyped
  <1>4. MempoolOK /\ SuccessIsApplied /\ CollisionHasCause
    BY DEF MempoolOK, SuccessIsApplied, CollisionHasCause
  <1>5. OutcomesOK
    BY <1>2 DEF OutcomesOK, Idle
  <1>6. \A r \in Requests : run[r].signer = None /\ run[r].phase = "idle"
    BY <1>2 DEF Idle
  <1>7. LeasesOK
    BY <1>6, ChainOK DEF LeasesOK, ChainOK
  <1>8. LocksOK /\ NumbersOK
    BY <1>6 DEF LocksOK, NumbersOK, Uses
  <1> QED
    BY <1>1, <1>3, <1>4, <1>5, <1>7, <1>8 DEF ChainInv, ClientInv

-----------------------------------------------------------------------------
(* Who uses what.                                                           *)

LEMMA SignerIsNoUser ==
    ASSUME ClientTyped, NEW r \in Requests, Subsidized(r), NEW q \in Requests
    PROVE  task[r].from \in Addresses /\ run[q].signer # task[r].from
  <1>1. TaskOK(task[r]) /\ pool \in Pools
    BY ChainOK DEF ChainOK, ClientTyped
  <1>2. task[r].from \in Addresses /\ task[r].from # Primary /\ task[r].from \notin pool
    BY <1>1 DEF TaskOK, Subsidized, Is
  <1>3. run[q].signer \in pool \cup {Primary, None}
    BY DEF ClientTyped, RunOK
  <1> QED
    BY <1>2, <1>3, ChainOK DEF ChainOK

LEMMA SourceTyped ==
    ASSUME ClientTyped, NEW r \in Requests,
           Subsidized(r) \/ run[r].phase \in {"build", "simulate", "send", "resend", "poll"}
    PROVE  Source(r) \in Addresses
  <1>1. RunOK(r)
    BY DEF ClientTyped
  <1> QED
    BY <1>1, SignerIsNoUser DEF Source, RunOK

\* An account that was never used past its lease and its lock has one user.
LEMMA OneUser ==
    ASSUME ClientTyped, LeasesOK, LocksOK, NEW a \in Addresses \ exposed,
           NEW r \in Requests, NEW q \in Requests, Uses(r, a), Uses(q, a)
    PROVE  r = q
  <1>1. CASE ~Shared
    BY <1>1 DEF LocksOK
  <1>2. CASE Shared /\ Subsidized(r) /\ Subsidized(q)
    BY <1>2 DEF LocksOK
  <1>3. CASE Shared /\ ~Subsidized(r) /\ ~Subsidized(q)
    BY <1>3 DEF LeasesOK, Uses, Source
  <1>4. CASE Subsidized(r) /\ ~Subsidized(q)
    BY <1>4, SignerIsNoUser DEF Uses, Source
  <1>5. CASE ~Subsidized(r) /\ Subsidized(q)
    BY <1>5, SignerIsNoUser DEF Uses, Source
  <1> QED
    BY <1>1, <1>2, <1>3, <1>4, <1>5

-----------------------------------------------------------------------------
(* One request goes on: the rows of the others stay.                        *)

Moves(r, row) ==
    /\ run' = [run EXCEPT ![r] = row]
    /\ row \in RunRow
Settings == <<pool, task>>

LEMMA MovesRow ==
    ASSUME ClientTyped, NEW r \in Requests, NEW row, Moves(r, row)
    PROVE  /\ run' \in [Requests -> RunRow] /\ run'[r] = row
           /\ \A q \in Requests \ {r} : run'[q] = run[q]
  BY DEF Moves, ClientTyped

LEMMA RowTyped == ASSUME ClientTyped, NEW r \in Requests PROVE run[r] \in RunRow /\ RunOK(r)
  BY DEF ClientTyped

\* What does not depend on the rows.
LEMMA SettingsKept ==
    ASSUME UNCHANGED Settings
    PROVE  /\ Shared' = Shared
           /\ \A r \in Requests : \A fn : Is(r, fn)' = Is(r, fn)
           /\ \A r \in Requests : Subsidized(r)' = Subsidized(r)
  BY DEF Settings, Shared, Is, Subsidized

LEMMA UsesKept ==
    ASSUME UNCHANGED Settings, NEW q \in Requests, run'[q] = run[q], NEW a
    PROVE  Uses(q, a)' = Uses(q, a) /\ RunOK(q)' = RunOK(q) /\ Source(q)' = Source(q)
  BY DEF Settings, Uses, Source, Subsidized, Is, RunOK

\* The invariants of a request that goes on while accounts, locks and ledger stay.
LEMMA TypesKept ==
    ASSUME ClientTyped, NEW r \in Requests, NEW row, Moves(r, row), RunOK(r)',
           UNCHANGED <<pool, task, sequence, applied>>, existing' \subseteq Addresses,
           inUse' \in [Processes -> SUBSET Addresses],
           lock' \in [Addresses -> Requests \cup {None}],
           mempool' \subseteq Sent, succeeded' \subseteq Requests,
           exposed' \subseteq Addresses, collided' \subseteq Addresses
    PROVE  ClientTyped'
  <1>1. run' \in [Requests -> RunRow] /\ \A q \in Requests \ {r} : run'[q] = run[q]
    BY MovesRow
  <1>2. \A q \in Requests \ {r} : RunOK(q)'
    BY <1>1, UsesKept DEF Settings, ClientTyped
  <1> QED
    BY <1>1, <1>2 DEF ClientTyped

LEMMA MempoolKept ==
    ASSUME ClientTyped, MempoolOK, NEW r \in Requests, NEW row, Moves(r, row),
           mempool' = mempool, row.outcome \in {"none", run[r].outcome},
           \/ row.tries > run[r].tries
           \/ row.tries = run[r].tries /\ row.phase \in Resting \cup Sending
           \/ row.tries = run[r].tries /\ run[r].phase \notin Resting \cup Sending
           \/ row.tries = run[r].tries /\ Settled(r)
    PROVE  MempoolOK'
  <1>1. run'[r] = row /\ (\A q \in Requests \ {r} : run'[q] = run[q])
        /\ row \in RunRow /\ run[r] \in RunRow
    BY MovesRow, RowTyped DEF Moves
  <1>2. ASSUME NEW t \in mempool
        PROVE  /\ t.try <= run'[t.by].tries
               /\ t.try = run'[t.by].tries => /\ run'[t.by].phase \in Resting \cup Sending
                                              /\ run'[t.by].outcome = "none"
    <2>1. t.by \in Requests /\ t.try \in Nat
      BY DEF ClientTyped, Sent
    <2>2. /\ t.try <= run[t.by].tries
          /\ t.try = run[t.by].tries => /\ run[t.by].phase \in Resting \cup Sending
                                        /\ run[t.by].outcome = "none"
      BY DEF MempoolOK
    <2>3. CASE t.by # r
      BY <1>1, <2>1, <2>2, <2>3
    <2>4. CASE t.by = r
      <3>1. row.tries \in Int /\ run[r].tries \in Int
        BY <1>1, ChainOK DEF RunRow, ChainOK
      <3>2. Settled(r) => t.try # run[r].tries
        BY <2>4 DEF Settled
      <3> QED BY <1>1, <2>1, <2>2, <2>4, <3>1, <3>2
    <2> QED BY <2>3, <2>4
  <1> QED
    BY <1>2 DEF MempoolOK

LEMMA OutcomesKept ==
    ASSUME ClientTyped, OutcomesOK, NEW r \in Requests, NEW row, Moves(r, row), applied' = applied,
           row.outcome \in {"none", run[r].outcome}
    PROVE  OutcomesOK'
  BY MovesRow DEF OutcomesOK

\* The leases of the others stay, and the request keeps its own or has none.
LEMMA LeasesKept ==
    ASSUME ClientTyped, LeasesOK, NEW r \in Requests, NEW row, Moves(r, row), UNCHANGED Settings,
           inUse' = inUse, exposed \subseteq exposed',
           \/ row.signer = None
           \/ row.signer = run[r].signer /\ row.at = run[r].at
    PROVE  LeasesOK'
  <1>1. run'[r] = row /\ \A q \in Requests \ {r} : run'[q] = run[q]
    BY MovesRow
  <1>2. ASSUME NEW a \in Addresses \ exposed', NEW q \in Requests, run'[q].signer = a
        PROVE  run[q].signer = a /\ run'[q].at = run[q].at
    BY <1>1, <1>2, ChainOK DEF ChainOK
  <1>3. ASSUME Shared', NEW a \in Addresses \ exposed'
        PROVE  /\ \A q \in Requests : run'[q].signer = a => a \in inUse'[run'[q].at]
               /\ \A p, q \in Requests : run'[p].signer = a /\ run'[q].signer = a => p = q
    <2>1. Shared /\ a \in Addresses \ exposed
      BY <1>3, SettingsKept
    <2>2. /\ \A q \in Requests : run[q].signer = a => a \in inUse[run[q].at]
          /\ \A p, q \in Requests : run[p].signer = a /\ run[q].signer = a => p = q
      BY <2>1 DEF LeasesOK
    <2> QED BY <1>2, <2>2
  <1> QED
    BY <1>3 DEF LeasesOK

\* The others keep their locks, and the request keeps its own, gets it or needs none.
LEMMA LocksKept ==
    ASSUME ClientTyped, LocksOK, NEW r \in Requests, NEW row, Moves(r, row), UNCHANGED Settings,
           exposed \subseteq exposed',
           \A a \in Addresses, q \in Requests \ {r} : lock[a] = q => lock'[a] = q,
           \A a \in Addresses \ exposed' :
              Uses(r, a)' /\ (Subsidized(r) \/ ~Shared) =>
                 (Uses(r, a) /\ lock'[a] = lock[a]) \/ lock'[a] = r
    PROVE  LocksOK'
  <1>1. run'[r] = row /\ \A q \in Requests \ {r} : run'[q] = run[q]
    BY MovesRow
  <1>2. ASSUME NEW a \in Addresses \ exposed', NEW q \in Requests, Uses(q, a)',
               Subsidized(q)' \/ ~Shared'
        PROVE  lock'[a] = q
    <2>1. Subsidized(q) \/ ~Shared
      BY <1>2, SettingsKept
    <2>2. CASE q = r
      BY <1>2, <2>1, <2>2 DEF LocksOK
    <2>3. CASE q # r
      <3>1. Uses(q, a)
        BY <1>1, <1>2, <2>3, UsesKept
      <3> QED BY <1>2, <2>1, <2>3, <3>1 DEF LocksOK
    <2> QED BY <2>2, <2>3
  <1> QED
    BY <1>2 DEF LocksOK

\* The numbers of the others stay, and the request keeps its own, or reads it, or needs none.
LEMMA NumbersKept ==
    ASSUME ClientTyped, NumbersOK, NEW r \in Requests, NEW row, Moves(r, row), UNCHANGED Settings,
           exposed \subseteq exposed', sequence' = sequence,
           \A a \in Addresses \ exposed' : Uses(r, a)' /\ row.phase \in Numbered =>
              \/ Uses(r, a) /\ run[r].phase \in Numbered /\ row.seq = run[r].seq
              \/ row.seq = Next1(a),
           \A t \in mempool' : t.src \notin exposed' =>
              \/ t \in mempool /\ t.by # r
              \/ /\ t.by = r /\ Uses(r, t.src)'
                 /\ row.phase = "poll" /\ row.tries = t.try,
           row.phase = "resend" => Source(r)' \in exposed'
    PROVE  NumbersOK'
  <1>1. run'[r] = row /\ \A q \in Requests \ {r} : run'[q] = run[q]
    BY MovesRow
  <1>2. ASSUME NEW a \in Addresses \ exposed', NEW q \in Requests, Uses(q, a)',
               run'[q].phase \in Numbered
        PROVE  run'[q].seq = Next1(a)'
    <2>1. Next1(a)' = Next1(a)
      BY DEF Next1
    <2>2. CASE q = r
      BY <1>1, <1>2, <2>1, <2>2 DEF NumbersOK
    <2>3. CASE q # r
      <3>1. Uses(q, a)
        BY <1>1, <1>2, <2>3, UsesKept
      <3> QED BY <1>1, <1>2, <2>1, <2>3, <3>1 DEF NumbersOK
    <2> QED BY <2>2, <2>3
  <1>3. ASSUME NEW a \in Addresses \ exposed', NEW t \in mempool', t.src = a
        PROVE  Uses(t.by, a)' /\ run'[t.by].phase = "poll" /\ run'[t.by].tries = t.try
    <2>1. CASE t \in mempool /\ t.by # r
      <3>1. Uses(t.by, a) /\ run[t.by].phase = "poll" /\ run[t.by].tries = t.try /\ t.by \in Requests
        BY <1>3, <2>1 DEF NumbersOK, ClientTyped, Sent
      <3> QED BY <1>1, <2>1, <3>1, UsesKept
    <2>2. CASE t.by = r /\ Uses(r, t.src)' /\ row.phase = "poll" /\ row.tries = t.try
      BY <1>1, <1>3, <2>2
    <2> QED BY <1>3, <2>1, <2>2
  <1>4. ASSUME NEW a \in Addresses \ exposed', NEW q \in Requests, run'[q].phase = "resend"
        PROVE  Source(q)' # a
    <2>1. CASE q = r
      BY <1>1, <1>4, <2>1
    <2>2. CASE q # r
      <3>1. run[q].phase = "resend" /\ Source(q)' = Source(q)
        BY <1>1, <1>4, <2>2 DEF Source, Settings, Subsidized, Is
      <3> QED BY <1>4, <3>1 DEF NumbersOK
    <2> QED BY <2>1, <2>2
  <1> QED
    BY <1>2, <1>3, <1>4 DEF NumbersOK

\* A transaction that waits under an account of good standing is of a request that polls.
LEMMA WaitingPolls ==
    ASSUME ClientTyped, NumbersOK, NEW t \in mempool, t.src \notin exposed
    PROVE  t.by \in Requests /\ run[t.by].phase = "poll" /\ Uses(t.by, t.src)
           /\ run[t.by].tries = t.try
  <1>1. t.src \in Addresses /\ t.by \in Requests
    BY DEF ClientTyped, Sent
  <1> QED
    BY <1>1 DEF NumbersOK

-----------------------------------------------------------------------------
(* The steps of a request before it sends.                                  *)

\* A request that neither polls nor comes to poll, and leaves leases and ledger alone.
LEMMA StepBeforePolling ==
    ASSUME ClientInv, NEW r \in Requests, NEW row, Moves(r, row), RunOK(r)',
           UNCHANGED <<pool, task, inUse, sequence, mempool, applied, succeeded, collided>>,
           existing' \subseteq Addresses, lock' \in [Addresses -> Requests \cup {None}],
           exposed \subseteq exposed', exposed' \subseteq Addresses,
           run[r].phase # "poll", row.phase # "resend", row.outcome = "none",
           \/ row.tries > run[r].tries
           \/ row.tries = run[r].tries /\ row.phase \in Resting \cup Sending
           \/ row.tries = run[r].tries /\ run[r].phase \notin Resting \cup Sending,
           \/ row.signer = None
           \/ row.signer = run[r].signer /\ row.at = run[r].at,
           \A a \in Addresses, q \in Requests \ {r} : lock[a] = q => lock'[a] = q,
           \A a \in Addresses \ exposed' :
              Uses(r, a)' /\ (Subsidized(r) \/ ~Shared) =>
                 (Uses(r, a) /\ lock'[a] = lock[a]) \/ lock'[a] = r,
           \A a \in Addresses \ exposed' : Uses(r, a)' /\ row.phase \in Numbered =>
              \/ Uses(r, a) /\ run[r].phase \in Numbered /\ row.seq = run[r].seq
              \/ row.seq = Next1(a)
    PROVE  ClientInv'
  <1> USE DEF ClientInv
  <1>1. ClientTyped'
    BY TypesKept DEF ClientTyped
  <1>2. MempoolOK' /\ OutcomesOK'
    BY MempoolKept, OutcomesKept
  <1>3. LeasesOK' /\ LocksOK'
    BY LeasesKept, LocksKept DEF Settings
  <1>4. NumbersOK'
    <2>1. \A t \in mempool' : t.src \notin exposed' => t \in mempool /\ t.by # r
      BY WaitingPolls
    <2> QED BY <2>1, NumbersKept DEF Settings
  <1>5. SuccessIsApplied' /\ CollisionHasCause'
    BY SettingsKept DEF SuccessIsApplied, CollisionHasCause, Is
  <1> QED
    BY <1>1, <1>2, <1>3, <1>4, <1>5

\* A request goes on, or ends, and the leases and the mempool have been seen to.
LEMMA RequestMoves ==
    ASSUME ClientInv, NEW r \in Requests, NEW row, Moves(r, row), RunOK(r)',
           UNCHANGED <<pool, task, sequence, existing, applied>>,
           row.outcome \in {"none", run[r].outcome},
           row.phase = "resend" => Source(r)' \in exposed',
           inUse' \in [Processes -> SUBSET Addresses],
           lock' \in [Addresses -> Requests \cup {None}],
           mempool' \subseteq Sent, succeeded' \subseteq Requests,
           exposed \subseteq exposed', exposed' \subseteq Addresses, collided' \subseteq Addresses,
           \A a \in Addresses, q \in Requests \ {r} : lock[a] = q => lock'[a] = q,
           \A a \in Addresses \ exposed' :
              Uses(r, a)' /\ (Subsidized(r) \/ ~Shared) =>
                 (Uses(r, a) /\ lock'[a] = lock[a]) \/ lock'[a] = r,
           \A a \in Addresses \ exposed' : Uses(r, a)' /\ row.phase \in Numbered =>
              \/ Uses(r, a) /\ run[r].phase \in Numbered /\ row.seq = run[r].seq
              \/ row.seq = Next1(a),
           \A t \in mempool' : t.src \notin exposed' =>
              \/ t \in mempool /\ t.by # r
              \/ /\ t.by = r /\ Uses(r, t.src)'
                 /\ row.phase = "poll" /\ row.tries = t.try,
           LeasesOK', MempoolOK', SuccessIsApplied', CollisionHasCause'
    PROVE  ClientInv'
  <1> USE DEF ClientInv
  <1>1. ClientTyped'
    BY TypesKept DEF ClientTyped
  <1>2. OutcomesOK'
    BY OutcomesKept
  <1>3. LocksOK' /\ NumbersOK'
    BY LocksKept, NumbersKept DEF Settings
  <1> QED
    BY <1>1, <1>2, <1>3

LEMMA StartKeepsInv ==
    ASSUME ClientInv, NEW r \in Requests, NEW p \in Processes, Start(r, p)
    PROVE  ClientInv'
  <1> USE DEF ClientInv
  <1> DEFINE phase == IF Subsidized(r) THEN "lockUser" ELSE "lease"
             row == [run[r] EXCEPT !.phase = phase, !.at = p, !.tries = @ + 1]
  <1>1. run[r] \in RunRow /\ RunOK(r) /\ run[r].phase = "idle"
    BY RowTyped DEF Start, Phase
  <1>2. run[r].tries \in 0..MaxTries /\ run[r].tries < MaxTries /\ run[r].signer = None
        /\ run[r].outcome = "none" /\ MaxTries \in Nat
    BY <1>1, ChainOK DEF RunRow, RunOK, Resting, Sending, ChainOK
  <1>3. row \in RunRow
    <2>1. run[r].tries + 1 \in 0..MaxTries /\ phase \in Phases
      BY <1>2 DEF Phases
    <2> QED BY <1>1, <2>1 DEF RunRow
  <1>4. /\ row.phase = phase /\ row.at = p /\ row.tries = run[r].tries + 1
        /\ row.signer = None /\ row.outcome = "none"
    BY <1>1, <1>2 DEF RunRow
  <1>5. run' = [run EXCEPT ![r] = row]
    BY <1>1 DEF Start, ClientTyped
  <1> HIDE DEF row
  <1>6. Moves(r, row) /\ run'[r] = row
    BY <1>3, <1>5, MovesRow DEF Moves
  <1>7. UNCHANGED <<pool, task, inUse, lock, sequence, mempool, existing, applied, succeeded,
                    exposed, collided>>
    BY DEF Start
  <1>8. Subsidized(r)' = Subsidized(r)
    BY <1>7, SettingsKept DEF Settings
  <1>9. RunOK(r)'
    BY <1>4, <1>6, <1>8 DEF RunOK, Resting
  <1>10. \A a : ~Uses(r, a)'
    BY <1>4, <1>6, <1>8 DEF Uses
  <1>11. row.tries > run[r].tries
    BY <1>2, <1>4
  <1> QED
    BY <1>1, <1>4, <1>6, <1>7, <1>9, <1>10, <1>11, StepBeforePolling DEF ClientTyped

LEMMA AlreadyThereKeepsInv ==
    ASSUME ClientInv, NEW r \in Requests, AlreadyThere(r)
    PROVE  ClientInv'
  <1> USE DEF ClientInv
  <1> DEFINE row == [Idle EXCEPT !.phase = "done", !.tries = run[r].tries]
  <1>1. run[r] \in RunRow /\ RunOK(r) /\ run[r].phase = "lease"
    BY RowTyped DEF AlreadyThere, Phase
  <1>2. /\ row.phase = "done" /\ row.tries = run[r].tries /\ row.signer = None
        /\ row.outcome = "none" /\ row \in RunRow
    BY <1>1 DEF Idle, RunRow, Phases
  <1>3. run' = [run EXCEPT ![r] = row]
        /\ UNCHANGED <<pool, task, inUse, lock, sequence, mempool, applied, succeeded, exposed, collided>>
    BY DEF AlreadyThere
  <1>4. existing' \subseteq Addresses
    <2>1. TaskOK(task[r]) /\ task[r].fn = "sponsor"
      BY ChainOK DEF ChainOK, ClientTyped, AlreadyThere, Is
    <2> QED BY <2>1 DEF AlreadyThere, TaskOK, ClientTyped
  <1> HIDE DEF row
  <1>5. Moves(r, row) /\ run'[r] = row
    BY <1>2, <1>3, MovesRow DEF Moves
  <1>6. RunOK(r)' /\ \A a : ~Uses(r, a)'
    BY <1>2, <1>5 DEF RunOK, Resting, Uses
  <1> QED
    BY <1>1, <1>2, <1>3, <1>4, <1>5, <1>6, StepBeforePolling DEF ClientTyped, Resting

\* A request goes on to another phase, as it is.
LEMMA GoesTo ==
    ASSUME ClientTyped, NEW r \in Requests, NEW phase \in Phases, GoTo(r, phase)
    PROVE  \E row \in RunRow :
              /\ Moves(r, row) /\ run'[r] = row /\ row.phase = phase
              /\ row.at = run[r].at /\ row.signer = run[r].signer /\ row.seq = run[r].seq
              /\ row.tries = run[r].tries /\ row.outcome = run[r].outcome
  <1> DEFINE row == [run[r] EXCEPT !.phase = phase]
  <1>1. run[r] \in RunRow
    BY RowTyped
  <1>2. /\ row \in RunRow /\ row.phase = phase
        /\ row.at = run[r].at /\ row.signer = run[r].signer /\ row.seq = run[r].seq
        /\ row.tries = run[r].tries /\ row.outcome = run[r].outcome
    BY <1>1 DEF RunRow
  <1>3. run' = [run EXCEPT ![r] = row]
    BY DEF GoTo
  <1> HIDE DEF row
  <1> QED
    BY <1>2, <1>3, MovesRow DEF Moves

\* Both branches of withAccountLock: the lock is there, or the request goes on without it.
LEMMA LockingKeepsInv ==
    ASSUME ClientInv, NEW r \in Requests, TakeLock(r) \/ SkipLock(r)
    PROVE  ClientInv'
  <1> USE DEF ClientInv
  <1> DEFINE a == LockOf(r)
             next == AfterLock(r)
  <1>1. run[r] \in RunRow /\ RunOK(r) /\ run[r].phase \in {"lockUser", "lockChannel"}
    BY RowTyped DEF TakeLock, SkipLock, Locking, Phase
  <1>2. a \in Addresses
    BY <1>1, SignerIsNoUser DEF LockOf, Phase, RunOK
  <1>3. next = IF run[r].phase = "lockUser" THEN "build"
               ELSE IF Subsidized(r) THEN "send" ELSE "build"
    BY DEF AfterLock, AfterLease, Phase
  <1>4. \E row \in RunRow :
          /\ Moves(r, row) /\ run'[r] = row /\ row.phase = next
          /\ row.at = run[r].at /\ row.signer = run[r].signer /\ row.seq = run[r].seq
          /\ row.tries = run[r].tries /\ row.outcome = run[r].outcome
    <2>1. next \in Phases
      BY <1>3 DEF Phases
    <2>2. CASE SkipLock(r)
      BY <2>1, <2>2, GoesTo DEF SkipLock
    <2>3. CASE TakeLock(r)
      <3> DEFINE row == [run[r] EXCEPT !.phase = next, !.took = @ \cup {a}]
      <3>1. /\ row \in RunRow /\ row.phase = next
            /\ row.at = run[r].at /\ row.signer = run[r].signer /\ row.seq = run[r].seq
            /\ row.tries = run[r].tries /\ row.outcome = run[r].outcome
        BY <1>1, <1>2, <2>1 DEF RunRow
      <3>2. run' = [run EXCEPT ![r] = row]
        BY <2>3 DEF TakeLock
      <3> HIDE DEF row
      <3> QED BY <3>1, <3>2, MovesRow DEF Moves
    <2> QED BY <2>2, <2>3
  <1>5. PICK row \in RunRow :
          /\ Moves(r, row) /\ run'[r] = row /\ row.phase = next
          /\ row.at = run[r].at /\ row.signer = run[r].signer /\ row.seq = run[r].seq
          /\ row.tries = run[r].tries /\ row.outcome = run[r].outcome
    BY <1>4
  <1>6. UNCHANGED <<pool, task, inUse, sequence, mempool, existing, applied, succeeded, collided>>
    BY DEF TakeLock, SkipLock
  <1>7. \/ /\ lock[a] = None /\ lock' = [lock EXCEPT ![a] = r] /\ exposed' = exposed
        \/ lock' = lock /\ exposed' = exposed \cup {a}
    BY DEF TakeLock, SkipLock
  <1>8. Subsidized(r)' = Subsidized(r) /\ task' = task
    BY <1>6, SettingsKept DEF Settings
  <1>9. RunOK(r)'
    BY <1>1, <1>3, <1>5, <1>6, <1>8 DEF RunOK, Resting, Sending
  <1>10. /\ run[r].outcome = "none" /\ run[r].phase \notin Resting \cup Sending
         /\ run[r].phase # "poll" /\ next # "resend"
    BY <1>1, <1>3 DEF RunOK, Resting, Sending
  <1>11. \A d : Uses(r, d)' =>
            \/ Uses(r, d) /\ run[r].phase = "lockChannel" /\ Subsidized(r)
            \/ d = a /\ next = "build"
    <2>1. Source(r)' = Source(r)
      BY <1>5, <1>8 DEF Source
    <2>2. CASE run[r].phase = "lockUser"
      BY <1>1, <1>3, <2>1, <2>2 DEF RunOK, Source, LockOf, Uses, Phase
    <2>3. CASE run[r].phase = "lockChannel" /\ Subsidized(r)
      BY <1>1, <2>1, <2>3 DEF Uses
    <2>4. CASE run[r].phase = "lockChannel" /\ ~Subsidized(r)
      BY <1>3, <2>1, <2>4 DEF Uses, Source, LockOf, Phase
    <2> QED BY <1>1, <2>2, <2>3, <2>4
  <1>12. lock \in [Addresses -> Requests \cup {None}] /\ exposed \subseteq Addresses
    BY DEF ClientTyped
  <1>13. lock' \in [Addresses -> Requests \cup {None}] /\ exposed' \subseteq Addresses
         /\ exposed \subseteq exposed'
    BY <1>2, <1>7, <1>12
  <1>14. \A d \in Addresses, q \in Requests \ {r} : lock[d] = q => lock'[d] = q
    BY <1>2, <1>7, <1>12, ChainOK DEF ChainOK
  <1>15. ASSUME NEW d \in Addresses \ exposed', Uses(r, d)', Subsidized(r) \/ ~Shared
         PROVE  (Uses(r, d) /\ lock'[d] = lock[d]) \/ lock'[d] = r
    BY <1>2, <1>7, <1>11, <1>12, <1>15
  <1>16. ASSUME NEW d \in Addresses \ exposed', Uses(r, d)', row.phase \in Numbered
         PROVE  Uses(r, d) /\ run[r].phase \in Numbered /\ row.seq = run[r].seq
    BY <1>5, <1>11, <1>16 DEF Numbered
  <1> HIDE DEF next, a
  <1> QED
    BY <1>5, <1>6, <1>9, <1>10, <1>13, <1>14, <1>15, <1>16, StepBeforePolling DEF ClientTyped, Resting

-----------------------------------------------------------------------------
(* Leasing.                                                                 *)

\* A channel that no process has in use, or one that is exposed by its use.
LEMMA LeaseOf ==
    ASSUME ClientInv, NEW r \in Requests, NEW c \in pool \cup {Primary},
           run[r].phase = "lease", Leased(r, c),
           UNCHANGED <<registryVars, pool, task, lock, sequence, mempool, existing,
                       applied, succeeded, collided>>,
           inUse' \in [Processes -> SUBSET Addresses],
           \A p \in Processes : inUse[p] \subseteq inUse'[p],
           exposed \subseteq exposed', exposed' \subseteq exposed \cup {c},
           Shared /\ c \notin exposed' =>
              c \in inUse'[run[r].at] /\ \A p \in Processes : c \notin inUse[p]
    PROVE  ClientInv'
  <1> USE DEF ClientInv
  <1> DEFINE phase == IF Shared THEN AfterLease(r) ELSE "lockChannel"
             row == [run[r] EXCEPT !.signer = c, !.phase = phase]
  <1>1. c \in Addresses
    BY ChainOK, RegistryOK DEF ChainOK, RegistryOK, ClientTyped
  <1>2. run[r] \in RunRow /\ RunOK(r)
    BY RowTyped
  <1>3. phase \in {"build", "send", "lockChannel"}
        /\ (phase = "build" => ~Subsidized(r) /\ Shared) /\ (phase = "send" => Subsidized(r))
    BY DEF AfterLease
  <1>4. /\ row \in RunRow /\ row.phase = phase /\ row.at = run[r].at /\ row.signer = c
        /\ row.seq = run[r].seq /\ row.tries = run[r].tries /\ row.outcome = run[r].outcome
    BY <1>1, <1>2, <1>3 DEF RunRow, Phases
  <1>5. run' = [run EXCEPT ![r] = row]
    BY <1>2 DEF Leased, ClientTyped
  <1> HIDE DEF row, phase
  <1>6. Moves(r, row) /\ run'[r] = row /\ \A q \in Requests \ {r} : run'[q] = run[q]
    BY <1>4, <1>5, MovesRow DEF Moves
  <1>7. Subsidized(r)' = Subsidized(r) /\ Shared' = Shared /\ UNCHANGED Settings
    BY SettingsKept DEF Settings
  <1>8. run[r].at \in Processes /\ run[r].outcome = "none"
    BY <1>2 DEF RunOK, Resting, Sending
  <1>9. RunOK(r)' /\ row.phase # "resend"
    BY <1>1, <1>3, <1>4, <1>6, <1>8 DEF RunOK, Resting, Sending
  <1>10. \A a : Uses(r, a)' => \/ Uses(r, a) /\ Subsidized(r)
                               \/ Shared /\ ~Subsidized(r) /\ phase = "build"
    <2>1. CASE Subsidized(r)
      BY <1>3, <1>4, <1>6, <1>7, <2>1 DEF Uses, Source
    <2>2. CASE ~Subsidized(r)
      BY <1>3, <1>4, <1>6, <1>7, <2>2 DEF Uses
    <2> QED BY <2>1, <2>2
  <1>11. LeasesOK'
    <2> SUFFICES ASSUME Shared, NEW a \in Addresses \ exposed'
                 PROVE  /\ \A q \in Requests : run'[q].signer = a => a \in inUse'[run'[q].at]
                        /\ \A p, q \in Requests : run'[p].signer = a /\ run'[q].signer = a => p = q
      BY <1>7 DEF LeasesOK
    <2>1. /\ \A q \in Requests : run[q].signer = a => a \in inUse[run[q].at]
          /\ \A p, q \in Requests : run[p].signer = a /\ run[q].signer = a => p = q
      BY DEF LeasesOK
    <2>2. \A q \in Requests : run[q].signer = a => run[q].at \in Processes
      <3>1. \A q \in Requests : RunOK(q)
        BY DEF ClientTyped
      <3> QED BY <3>1, ChainOK DEF RunOK, ChainOK
    <2>3. CASE a = c
      <3>1. \A q \in Requests : run[q].signer # a
        BY <2>1, <2>2, <2>3
      <3> QED BY <1>4, <1>6, <2>3, <3>1
    <2>4. CASE a # c
      BY <1>4, <1>6, <2>1, <2>2, <2>4
    <2> QED BY <2>3, <2>4
  <1>12. MempoolOK'
    BY <1>4, <1>6, <1>8, MempoolKept DEF Resting, Sending
  <1>13. SuccessIsApplied' /\ CollisionHasCause'
    BY <1>7 DEF SuccessIsApplied, CollisionHasCause, Is, Settings
  <1>14. ASSUME NEW a \in Addresses \ exposed', Uses(r, a)', Subsidized(r) \/ ~Shared
         PROVE  (Uses(r, a) /\ lock'[a] = lock[a]) \/ lock'[a] = r
    BY <1>10, <1>14
  <1>15. ASSUME NEW a \in Addresses \ exposed', Uses(r, a)', row.phase \in Numbered
         PROVE  Uses(r, a) /\ run[r].phase \in Numbered /\ row.seq = run[r].seq
    BY <1>4, <1>10, <1>15 DEF Numbered
  <1>16. \A t \in mempool' : t.src \notin exposed' => t \in mempool /\ t.by # r
    BY WaitingPolls
  <1>17. lock' \in [Addresses -> Requests \cup {None}] /\ mempool' \subseteq Sent
         /\ succeeded' \subseteq Requests /\ exposed' \subseteq Addresses
         /\ collided' \subseteq Addresses
    BY <1>1 DEF ClientTyped
  <1> QED
    BY <1>4, <1>6, <1>8, <1>9, <1>11, <1>12, <1>13, <1>14, <1>15, <1>16, <1>17, RequestMoves

LEMMA LeasingKeepsInv ==
    ASSUME ClientInv, NEW r \in Requests, (\E a \in pool : LeaseChannel(r, a)) \/ LeaseTimesOut(r)
    PROVE  ClientInv'
  <1> USE DEF ClientInv
  <1>1. CASE LeaseTimesOut(r)
    <2>1. run[r].phase = "lease" /\ Leased(r, Primary) /\ inUse' = inUse
          /\ exposed' = IF Shared THEN exposed \cup {Primary} ELSE exposed
      BY <1>1 DEF LeaseTimesOut, Phase
    <2> QED BY <1>1, <2>1, LeaseOf DEF LeaseTimesOut, ClientTyped
  <1>2. ASSUME NEW a \in pool, LeaseChannel(r, a)
        PROVE  ClientInv'
    <2> DEFINE p == run[r].at
    <2>1. run[r].phase = "lease" /\ RunOK(r)
      BY <1>2, RowTyped DEF LeaseChannel, Phase
    <2>2. p \in Processes /\ a \in Addresses
      BY <2>1, ChainOK DEF RunOK, Resting, ChainOK, ClientTyped
    <2>3. /\ a \notin inUse[p]
          /\ inUse' = [inUse EXCEPT ![p] = @ \cup {a}]
          /\ Leased(r, a)
          /\ exposed' = IF Shared /\ \E q \in Processes \ {p} : a \in inUse[q]
                       THEN exposed \cup {a} ELSE exposed
          /\ UNCHANGED <<registryVars, pool, task, lock, sequence, mempool, existing,
                         applied, succeeded, collided>>
      BY <1>2 DEF LeaseChannel, Free
    <2>4. inUse \in [Processes -> SUBSET Addresses]
      BY DEF ClientTyped
    <2>5. inUse' \in [Processes -> SUBSET Addresses] /\ a \in inUse'[p]
          /\ \A q \in Processes : inUse[q] \subseteq inUse'[q]
      BY <2>2, <2>3, <2>4
    <2> QED BY <2>1, <2>2, <2>3, <2>5, LeaseOf
  <1> QED
    BY <1>1, <1>2

\* The key of a lock runs out: its account is exposed.
LEMMA LockExpiresKeepsInv ==
    ASSUME ClientInv, NEW c \in Addresses, LockExpires(c)
    PROVE  ClientInv'
  <1> USE DEF ClientInv
  <1>1. /\ lock' = [lock EXCEPT ![c] = None] /\ exposed' = exposed \cup {c}
        /\ UNCHANGED <<registryVars, pool, task, inUse, run, sequence, mempool, existing,
                       applied, succeeded, collided>>
    BY DEF LockExpires
  <1>2. UNCHANGED Settings /\ Shared' = Shared
        /\ \A q \in Requests : /\ \A a : Uses(q, a)' = Uses(q, a)
                                /\ RunOK(q)' = RunOK(q) /\ Subsidized(q)' = Subsidized(q)
                                /\ Source(q)' = Source(q)
    BY <1>1, SettingsKept, UsesKept DEF Settings
  <1>3. ClientTyped'
    BY <1>1, <1>2 DEF ClientTyped
  <1>4. MempoolOK' /\ OutcomesOK' /\ SuccessIsApplied' /\ CollisionHasCause'
    BY <1>1 DEF MempoolOK, OutcomesOK, SuccessIsApplied, CollisionHasCause, Is
  <1>5. LeasesOK'
    BY <1>1, <1>2 DEF LeasesOK
  <1>6. \A a \in Addresses \ exposed' : a \in Addresses \ exposed /\ lock'[a] = lock[a]
    BY <1>1 DEF ClientTyped
  <1>7. LocksOK'
    BY <1>2, <1>6 DEF LocksOK
  <1>8. NumbersOK'
    <2>1. \A a : Next1(a)' = Next1(a)
      BY <1>1 DEF Next1
    <2>2. \A t \in mempool : t.by \in Requests
      BY DEF ClientTyped, Sent
    <2> QED BY <1>1, <1>2, <1>6, <2>1, <2>2 DEF NumbersOK
  <1> QED
    BY <1>3, <1>4, <1>5, <1>7, <1>8

-----------------------------------------------------------------------------
(* Building and simulating.                                                 *)

\* A request goes back to building, or has built: its signer stays.
LEMMA RebuildKeepsInv ==
    ASSUME ClientInv, NEW r \in Requests, NEW row \in RunRow, Moves(r, row),
           \/ run[r].phase \in {"build", "simulate", "send"}
           \/ run[r].phase = "resend" /\ Settled(r),
           row.phase \in {"build", "simulate"},
           row.phase = "simulate" => row.seq = Next1(Source(r)) \/ Source(r) \in exposed',
           row.at = run[r].at, row.signer = run[r].signer, row.tries = run[r].tries,
           row.outcome = "none",
           UNCHANGED <<pool, task, inUse, lock, sequence, mempool, existing, applied, succeeded>>,
           exposed \subseteq exposed', exposed' \subseteq Addresses,
           CollisionHasCause', collided' \subseteq Addresses
    PROVE  ClientInv'
  <1> USE DEF ClientInv
  <1>1. RunOK(r) /\ run'[r] = row /\ Subsidized(r)' = Subsidized(r) /\ UNCHANGED Settings
        /\ Shared' = Shared
    BY RowTyped, MovesRow, SettingsKept DEF Settings
  <1>2. RunOK(r)'
    BY <1>1 DEF RunOK, Resting
  <1>3. \A a \in Addresses \ exposed' : Uses(r, a)' => Uses(r, a) /\ a = Source(r)
    <2>1. \A a : Uses(r, a)' => a = Source(r)
      BY <1>1 DEF Uses, Source
    <2>2. CASE run[r].phase \in {"build", "simulate", "send"}
      BY <2>1, <2>2 DEF Uses
    <2>3. CASE run[r].phase = "resend"
      <3>1. \A a \in Addresses \ exposed : Source(r) # a
        BY <2>3 DEF NumbersOK
      <3> QED BY <2>1, <3>1
    <2> QED BY <2>2, <2>3
  <1>5. MempoolOK'
    BY MempoolKept DEF Resting, Sending
  <1>6. LeasesOK'
    BY <1>1, LeasesKept
  <1>7. SuccessIsApplied'
    BY <1>1 DEF SuccessIsApplied, Settings, Is
  <1>8. \A t \in mempool' : t.src \notin exposed' => t \in mempool /\ t.by # r
    BY WaitingPolls
  <1>9. ASSUME NEW a \in Addresses \ exposed', Uses(r, a)', row.phase \in Numbered
        PROVE  row.seq = Next1(a)
    BY <1>3, <1>9 DEF Numbered
  <1>10. inUse' \in [Processes -> SUBSET Addresses] /\ mempool' \subseteq Sent
         /\ lock' \in [Addresses -> Requests \cup {None}] /\ exposed' \subseteq Addresses
         /\ succeeded' \subseteq Requests
    BY DEF ClientTyped
  <1> QED
    BY <1>2, <1>3, <1>5, <1>6, <1>7, <1>8, <1>9, <1>10, RequestMoves

LEMMA BuildKeepsInv ==
    ASSUME ClientInv, NEW r \in Requests, Build(r)
    PROVE  ClientInv'
  <1> USE DEF ClientInv
  <1>1. run[r] \in RunRow /\ run[r].phase = "build" /\ RunOK(r)
    BY RowTyped DEF Build, Phase
  <1>2. Source(r) \in Addresses /\ sequence[Source(r)] \in Nat
    BY <1>1, SourceTyped DEF ClientTyped
  <1>3. PICK n \in 0..sequence[Source(r)] :
          /\ run' = [run EXCEPT ![r].phase = "simulate", ![r].seq = n + 1]
          /\ exposed' = IF n < sequence[Source(r)] THEN exposed \cup {Source(r)} ELSE exposed
    BY DEF Build
  <1>4. n + 1 \in Nat /\ (n + 1 = Next1(Source(r)) \/ Source(r) \in exposed')
        /\ exposed \subseteq exposed' /\ exposed' \subseteq Addresses
    <2>1. exposed \subseteq Addresses
      BY DEF ClientTyped
    <2> QED BY <1>2, <1>3, <2>1 DEF Next1
  <1> DEFINE row == [run[r] EXCEPT !.phase = "simulate", !.seq = n + 1]
  <1>5. /\ row \in RunRow /\ row.phase = "simulate" /\ row.seq = n + 1
        /\ row.at = run[r].at /\ row.signer = run[r].signer /\ row.tries = run[r].tries
        /\ row.outcome = "none"
    BY <1>1, <1>4 DEF RunRow, Phases, RunOK, Sending
  <1>6. run' = [run EXCEPT ![r] = row]
    BY <1>1, <1>3 DEF ClientTyped
  <1> HIDE DEF row
  <1>7. Moves(r, row)
    BY <1>5, <1>6 DEF Moves
  <1>8. UNCHANGED <<pool, task, inUse, lock, sequence, mempool, existing, applied, succeeded, collided>>
    BY DEF Build
  <1>9. CollisionHasCause' /\ collided' \subseteq Addresses
    BY <1>4, <1>8 DEF CollisionHasCause, ClientTyped
  <1> QED
    BY <1>1, <1>4, <1>5, <1>7, <1>8, <1>9, RebuildKeepsInv

\* What was simulated is sent, or waits for the channel that pays for it.
LEMMA SimulatesKeepsInv ==
    ASSUME ClientInv, NEW r \in Requests, Simulates(r)
    PROVE  ClientInv'
  <1> USE DEF ClientInv
  <1> DEFINE next == IF Subsidized(r) THEN "lease" ELSE "send"
  <1>1. run[r].phase = "simulate" /\ GoTo(r, next) /\ RunOK(r)
        /\ UNCHANGED <<pool, task, inUse, lock, sequence, mempool, existing, applied, succeeded,
                       exposed, collided>>
    BY RowTyped DEF Simulates, Phase
  <1>2. next \in Phases
    BY DEF Phases
  <1>3. PICK row \in RunRow :
          /\ Moves(r, row) /\ run'[r] = row /\ row.phase = next
          /\ row.at = run[r].at /\ row.signer = run[r].signer /\ row.seq = run[r].seq
          /\ row.tries = run[r].tries /\ row.outcome = run[r].outcome
    BY <1>1, <1>2, GoesTo
  <1>4. Subsidized(r)' = Subsidized(r) /\ task' = task
    BY <1>1, SettingsKept DEF Settings
  <1>5. RunOK(r)' /\ run[r].outcome = "none" /\ next # "resend"
    BY <1>1, <1>3, <1>4 DEF RunOK, Resting, Sending
  <1>6. \A a : Uses(r, a)' => Uses(r, a)
    BY <1>1, <1>3, <1>4 DEF Uses, Source
  <1>7. run[r].phase \in Numbered /\ run[r].phase \notin Resting \cup Sending
    BY <1>1 DEF Numbered, Resting, Sending
  <1>8. existing' \subseteq Addresses /\ exposed' \subseteq Addresses
        /\ lock' \in [Addresses -> Requests \cup {None}]
    BY <1>1 DEF ClientTyped
  <1> HIDE DEF next
  <1> QED
    BY <1>1, <1>3, <1>5, <1>6, <1>7, <1>8, StepBeforePolling

-----------------------------------------------------------------------------
(* The end of a try.                                                        *)

\* What a request that has ended is left with.
EndRow(r, row) ==
    /\ Moves(r, row) /\ run'[r] = row
    /\ row.phase \in Resting /\ row.signer = None /\ row.outcome = "none"
    /\ row.tries = run[r].tries /\ (row.phase = "idle" => row.tries < MaxTries)

LEMMA Ends ==
    ASSUME ClientTyped, NEW r \in Requests, Fails(r) \/ Succeeds(r)
    PROVE  \E row \in RunRow : EndRow(r, row)
  <1> DEFINE phase == IF Fails(r) THEN AfterFailure(r) ELSE "done"
             row == [Idle EXCEPT !.phase = phase, !.tries = run[r].tries]
  <1>1. run[r] \in RunRow
    BY RowTyped
  <1>2. phase \in Resting /\ (phase = "idle" => run[r].tries < MaxTries)
    BY DEF AfterFailure, Resting
  <1>3. /\ row \in RunRow /\ row.phase = phase /\ row.signer = None
        /\ row.outcome = "none" /\ row.tries = run[r].tries
    BY <1>1, <1>2 DEF Idle, RunRow, Phases, Resting
  <1>4. run' = [run EXCEPT ![r] = row]
    BY DEF Fails, Succeeds
  <1> HIDE DEF row, phase
  <1>5. Moves(r, row) /\ run'[r] = row
    BY <1>3, <1>4, MovesRow DEF Moves
  <1> QED
    BY <1>2, <1>3, <1>5 DEF EndRow

LEMMA Released ==
    ASSUME ClientTyped, NEW r \in Requests, run[r].phase \notin Resting, Release(r)
    PROVE  /\ run[r].at \in Processes
           /\ inUse' \in [Processes -> SUBSET Addresses]
           /\ lock' \in [Addresses -> Requests \cup {None}]
           /\ \A a \in Addresses, q \in Requests \ {r} : lock[a] = q => lock'[a] = q
           /\ \A p \in Processes : \A a \in inUse[p] :
                 a \in inUse'[p] \/ (p = run[r].at /\ a = run[r].signer)
  <1>1. run[r].at \in Processes
    BY RowTyped DEF RunOK
  <1>2. inUse \in [Processes -> SUBSET Addresses] /\ lock \in [Addresses -> Requests \cup {None}]
    BY DEF ClientTyped
  <1>3. inUse' = [inUse EXCEPT ![run[r].at] = @ \ {run[r].signer}]
        /\ lock' = [a \in Addresses |-> IF a \in run[r].took /\ OwnLock(r, a) THEN None ELSE lock[a]]
    BY DEF Release
  <1>4. lock' \in [Addresses -> Requests \cup {None}]
        /\ \A a \in Addresses, q \in Requests \ {r} : lock[a] = q => lock'[a] = q
    BY <1>2, <1>3 DEF OwnLock
  <1>5. inUse' \in [Processes -> SUBSET Addresses]
        /\ \A p \in Processes : \A a \in inUse[p] :
              a \in inUse'[p] \/ (p = run[r].at /\ a = run[r].signer)
    BY <1>1, <1>2, <1>3
  <1> QED
    BY <1>1, <1>4, <1>5

\* The finally blocks give back what was leased and locked, and leave what others hold.
LEMMA EndKeepsInv ==
    ASSUME ClientInv, NEW r \in Requests, Fails(r) \/ Succeeds(r), run[r].phase \notin Resting,
           UNCHANGED <<pool, task, sequence, existing, applied>>,
           mempool' \subseteq Sent, MempoolOK',
           exposed \subseteq exposed', exposed' \subseteq Addresses,
           \A t \in mempool' : t.src \notin exposed' => t \in mempool /\ t.by # r,
           collided' \subseteq Addresses, CollisionHasCause', SuccessIsApplied'
    PROVE  ClientInv'
  <1> USE DEF ClientInv
  <1>1. PICK row \in RunRow : EndRow(r, row)
    BY Ends
  <1>2. /\ Moves(r, row) /\ run'[r] = row
        /\ row.phase \in Resting /\ row.signer = None /\ row.outcome = "none"
        /\ row.tries = run[r].tries /\ (row.phase = "idle" => row.tries < MaxTries)
    BY <1>1 DEF EndRow
  <1>3. /\ run[r].at \in Processes
        /\ inUse' \in [Processes -> SUBSET Addresses]
        /\ lock' \in [Addresses -> Requests \cup {None}]
        /\ \A a \in Addresses, q \in Requests \ {r} : lock[a] = q => lock'[a] = q
        /\ \A p \in Processes : \A a \in inUse[p] :
              a \in inUse'[p] \/ (p = run[r].at /\ a = run[r].signer)
    BY Released DEF Fails, Succeeds
  <1>4. \A q \in Requests \ {r} : run'[q] = run[q]
    BY <1>2, MovesRow
  <1>5. Shared' = Shared /\ UNCHANGED Settings
    BY SettingsKept DEF Settings
  <1>6. RunOK(r)' /\ \A a : ~Uses(r, a)'
    BY <1>2 DEF RunOK, Resting, Uses
  <1>7. LeasesOK'
    <2> SUFFICES ASSUME Shared, NEW a \in Addresses \ exposed'
                 PROVE  /\ \A q \in Requests : run'[q].signer = a => a \in inUse'[run'[q].at]
                        /\ \A p, q \in Requests : run'[p].signer = a /\ run'[q].signer = a => p = q
      BY <1>5 DEF LeasesOK
    <2>1. /\ \A q \in Requests : run[q].signer = a => a \in inUse[run[q].at]
          /\ \A p, q \in Requests : run[p].signer = a /\ run[q].signer = a => p = q
      BY DEF LeasesOK
    <2>2. ASSUME NEW q \in Requests, run'[q].signer = a
          PROVE  q # r /\ run[q].signer = a /\ run'[q].at = run[q].at
      BY <1>2, <1>4, <2>2, ChainOK DEF ChainOK
    <2>3. ASSUME NEW q \in Requests, run'[q].signer = a
          PROVE  a \in inUse'[run'[q].at]
      <3>1. run[q].at \in Processes
        <4>1. RunOK(q)
          BY DEF ClientTyped
        <4> QED BY <2>2, <2>3, <4>1, ChainOK DEF RunOK, ChainOK
      <3> QED BY <1>3, <2>1, <2>2, <2>3, <3>1
    <2> QED BY <2>1, <2>2, <2>3
  <1>8. succeeded' \subseteq Requests
    BY DEF Fails, Succeeds, ClientTyped
  <1>9. row.phase \notin Numbered /\ row.phase # "resend"
    BY <1>2 DEF Resting, Numbered
  <1> QED
    BY <1>2, <1>3, <1>6, <1>7, <1>8, <1>9, RequestMoves

-----------------------------------------------------------------------------
(* Sending.                                                                 *)

\* A try sends once: it has nothing under way when its transaction is admitted.
LEMMA MempoolGrows ==
    ASSUME ClientTyped, MempoolOK, NEW r \in Requests, run[r].phase = "send",
           mempool' = mempool \cup {Transaction(r)}, NEW row, Moves(r, row),
           row.phase \in Resting \cup Sending, row.tries = run[r].tries, row.outcome = "none"
    PROVE  MempoolOK' /\ mempool' \subseteq Sent
  <1> DEFINE x == Transaction(r)
  <1>1. run[r] \in RunRow /\ Source(r) \in Addresses /\ task[r] \in Tasks
        /\ run[r].signer \in Addresses /\ run[r].tries \in Nat
    <2>1. run[r] \in RunRow /\ RunOK(r)
      BY RowTyped
    <2> QED BY <2>1, SourceTyped, ChainOK DEF ClientTyped, RunOK, RunRow, ChainOK
  <1>2. x \in Sent /\ x.by = r /\ x.try = run[r].tries
    BY <1>1 DEF Transaction, Sent, RunRow
  <1>3. mempool' \subseteq Sent
    BY <1>2 DEF ClientTyped
  <1>4. run'[r] = row /\ (\A q \in Requests \ {r} : run'[q] = run[q])
    BY MovesRow
  <1>5. \A t \in mempool : t.by \in Requests /\ (t.by = r => t.try # run[r].tries)
    BY DEF MempoolOK, ClientTyped, Sent, Resting, Sending
  <1> HIDE DEF x
  <1>6. ASSUME NEW t \in mempool'
        PROVE  /\ t.try <= run'[t.by].tries
               /\ t.try = run'[t.by].tries => /\ run'[t.by].phase \in Resting \cup Sending
                                              /\ run'[t.by].outcome = "none"
    <2>1. CASE t \in mempool /\ t.by # r
      BY <1>4, <1>5, <2>1 DEF MempoolOK
    <2>2. CASE t \in mempool /\ t.by = r
      BY <1>4, <1>5, <2>2 DEF MempoolOK
    <2>3. CASE t = x
      BY <1>1, <1>2, <1>4, <2>3
    <2> QED BY <2>1, <2>2, <2>3 DEF x
  <1>7. ASSUME NEW t \in mempool', NEW u \in mempool', t.by = u.by, t.try = u.try
        PROVE  t = u
    <2>1. (t \in mempool \/ t = x) /\ (u \in mempool \/ u = x)
      BY DEF x
    <2> QED BY <1>2, <1>5, <1>7, <2>1 DEF MempoolOK
  <1> QED
    BY <1>3, <1>6, <1>7 DEF MempoolOK

\* A request that gives up leaves its account behind as exposed if it has sent anything.
LEMMA Abandons ==
    ASSUME ClientTyped, NEW r \in Requests,
           run[r].phase \in {"build", "simulate", "send", "resend", "poll"},
           exposed' = Abandoned(r)
    PROVE  /\ exposed \subseteq exposed' /\ exposed' \subseteq Addresses
           /\ \A t \in mempool' : t.by = r => Source(r) \in exposed'
  BY SourceTyped DEF Abandoned, ClientTyped

\* The node answers that it has the transaction, or is too slow and the next one is asked.
LEMMA AdmittedKeepsInv ==
    ASSUME ClientInv, NEW r \in Requests, run[r].phase = "send",
           \/ GoTo(r, "poll") /\ exposed' = exposed
           \/ GoTo(r, "resend") /\ exposed' = exposed \cup {Source(r)},
           mempool' = mempool \cup {Transaction(r)},
           UNCHANGED <<pool, task, inUse, lock, sequence, existing, applied, succeeded, collided>>
    PROVE  ClientInv'
  <1> USE DEF ClientInv
  <1>1. RunOK(r) /\ run[r] \in RunRow
    BY RowTyped
  <1>2. PICK row \in RunRow :
          /\ Moves(r, row) /\ run'[r] = row
          /\ \/ row.phase = "poll" /\ exposed' = exposed
             \/ row.phase = "resend" /\ exposed' = exposed \cup {Source(r)}
          /\ row.at = run[r].at /\ row.signer = run[r].signer /\ row.seq = run[r].seq
          /\ row.tries = run[r].tries /\ row.outcome = run[r].outcome
    <2>1. "poll" \in Phases /\ "resend" \in Phases
      BY DEF Phases
    <2> QED BY <2>1, GoesTo
  <1>3. Subsidized(r)' = Subsidized(r) /\ UNCHANGED Settings /\ Shared' = Shared
    BY SettingsKept DEF Settings
  <1>4. RunOK(r)' /\ run[r].outcome = "none"
    BY <1>1, <1>2, <1>3 DEF RunOK, Resting, Sending
  <1>5. Source(r)' = Source(r) /\ Source(r) \in Addresses
    BY <1>2, <1>3, SourceTyped DEF Source, Settings
  <1>6. \A a : Uses(r, a)' => Uses(r, a)
    BY <1>2, <1>5 DEF Uses
  <1>7. MempoolOK' /\ mempool' \subseteq Sent
    BY <1>2, <1>4, MempoolGrows DEF Sending
  <1>8. LeasesOK'
    BY <1>2, <1>3, LeasesKept
  <1>9. SuccessIsApplied' /\ CollisionHasCause'
    BY <1>2, <1>3 DEF SuccessIsApplied, CollisionHasCause, Is, Settings
  <1>10. ASSUME NEW t \in mempool', t.src \notin exposed'
         PROVE  \/ t \in mempool /\ t.by # r
                \/ /\ t.by = r /\ Uses(r, t.src)'
                   /\ row.phase = "poll" /\ row.tries = t.try
    <2>1. CASE t \in mempool
      BY <1>2, <1>10, <2>1, WaitingPolls
    <2>2. CASE t = Transaction(r)
      <3>1. t.by = r /\ t.src = Source(r) /\ t.try = run[r].tries
        BY <2>2 DEF Transaction
      <3> QED BY <1>2, <1>5, <1>10, <3>1 DEF Uses
    <2> QED BY <2>1, <2>2
  <1>11. inUse' \in [Processes -> SUBSET Addresses] /\ lock' \in [Addresses -> Requests \cup {None}]
         /\ succeeded' \subseteq Requests /\ exposed' \subseteq Addresses
         /\ collided' \subseteq Addresses /\ exposed \subseteq exposed'
    BY <1>2, <1>5 DEF ClientTyped
  <1>12. row.phase \notin Numbered /\ (row.phase = "resend" => Source(r)' \in exposed')
    BY <1>2, <1>5 DEF Numbered
  <1>13. row.outcome = "none"
    BY <1>2, <1>4
  <1> QED
    BY <1>2, <1>4, <1>6, <1>7, <1>8, <1>9, <1>10, <1>11, <1>12, <1>13, RequestMoves

\* The next node takes the transaction too, whatever has become of it.
LEMMA TakenKeepsInv ==
    ASSUME ClientInv, NEW r \in Requests, run[r].phase = "resend", GoTo(r, "poll"),
           UNCHANGED <<pool, task, inUse, lock, sequence, mempool, existing, applied, succeeded,
                       exposed, collided>>
    PROVE  ClientInv'
  <1> USE DEF ClientInv
  <1>1. RunOK(r)
    BY RowTyped
  <1>2. PICK row \in RunRow :
          /\ Moves(r, row) /\ run'[r] = row /\ row.phase = "poll"
          /\ row.at = run[r].at /\ row.signer = run[r].signer /\ row.seq = run[r].seq
          /\ row.tries = run[r].tries /\ row.outcome = run[r].outcome
    BY GoesTo DEF Phases
  <1>3. Subsidized(r)' = Subsidized(r) /\ UNCHANGED Settings /\ Shared' = Shared
    BY SettingsKept DEF Settings
  <1>4. RunOK(r)'
    BY <1>1, <1>2, <1>3 DEF RunOK, Resting, Sending
  <1>5. Source(r)' = Source(r) /\ \A a \in Addresses \ exposed : Source(r) # a
    BY <1>2, <1>3 DEF Source, Settings, NumbersOK
  <1>6. \A a \in Addresses \ exposed' : ~Uses(r, a)'
    BY <1>5 DEF Uses
  <1>7. MempoolOK'
    BY <1>2, MempoolKept DEF Sending
  <1>8. LeasesOK'
    BY <1>2, <1>3, LeasesKept
  <1>9. SuccessIsApplied' /\ CollisionHasCause'
    BY <1>3 DEF SuccessIsApplied, CollisionHasCause, Is, Settings
  <1>10. \A t \in mempool' : t.src \notin exposed' => t \in mempool /\ t.by # r
    BY WaitingPolls
  <1>11. inUse' \in [Processes -> SUBSET Addresses] /\ lock' \in [Addresses -> Requests \cup {None}]
         /\ succeeded' \subseteq Requests /\ exposed' \subseteq Addresses
         /\ collided' \subseteq Addresses /\ mempool' \subseteq Sent
    BY DEF ClientTyped
  <1> QED
    BY <1>2, <1>4, <1>6, <1>7, <1>8, <1>9, <1>10, <1>11, RequestMoves

\* The request ends although its transaction may be under way.
LEMMA GivesUpKeepsInv ==
    ASSUME ClientInv, NEW r \in Requests,
           run[r].phase \in {"build", "simulate", "send", "resend", "poll"},
           Fails(r) \/ Succeeds(r), exposed' = Abandoned(r),
           \/ mempool' = mempool
           \/ run[r].phase = "send" /\ mempool' = mempool \cup {Transaction(r)},
           UNCHANGED <<pool, task, sequence, existing, applied, collided>>,
           SuccessIsApplied'
    PROVE  ClientInv'
  <1> USE DEF ClientInv
  <1>1. /\ exposed \subseteq exposed' /\ exposed' \subseteq Addresses
        /\ \A t \in mempool' : t.by = r => Source(r) \in exposed'
    BY Abandons
  <1>2. PICK row \in RunRow : EndRow(r, row)
    BY Ends
  <1>3. MempoolOK' /\ mempool' \subseteq Sent
    <2>1. CASE mempool' = mempool
      BY <1>2, <2>1, MempoolKept DEF EndRow, ClientTyped
    <2>2. CASE run[r].phase = "send" /\ mempool' = mempool \cup {Transaction(r)}
      BY <1>2, <2>2, MempoolGrows DEF EndRow
    <2> QED BY <2>1, <2>2
  <1>4. ASSUME NEW t \in mempool', t.src \notin exposed'
        PROVE  t \in mempool /\ t.by # r
    <2>1. CASE t \in mempool
      <3>1. Uses(t.by, t.src)
        BY <1>1, <1>4, <2>1, WaitingPolls
      <3> QED BY <1>1, <1>4, <2>1, <3>1 DEF Uses
    <2>2. CASE t = Transaction(r)
      BY <1>1, <1>4, <2>2 DEF Transaction
    <2> QED BY <2>1, <2>2
  <1>5. CollisionHasCause' /\ collided' \subseteq Addresses
    BY <1>1 DEF CollisionHasCause, ClientTyped
  <1>6. run[r].phase \notin Resting
    BY DEF Resting
  <1> QED
    BY <1>1, <1>3, <1>4, <1>5, <1>6, EndKeepsInv

\* The request ends with nothing of its own under way.
LEMMA ComesToRest ==
    ASSUME ClientInv, NEW r \in Requests,
           run[r].phase \in {"simulate", "send", "resend", "poll"},
           Fails(r) \/ Succeeds(r),
           run[r].phase = "poll" => run[r].outcome # "none",
           UNCHANGED <<pool, task, sequence, mempool, existing, applied, exposed>>,
           CollisionHasCause', collided' \subseteq Addresses, SuccessIsApplied'
    PROVE  ClientInv'
  <1> USE DEF ClientInv
  <1>1. PICK row \in RunRow : EndRow(r, row)
    BY Ends
  <1>2. MempoolOK'
    BY <1>1, MempoolKept DEF EndRow
  <1>3. \A t \in mempool' : t.src \notin exposed' => t \in mempool /\ t.by # r
    BY WaitingPolls DEF MempoolOK
  <1>4. run[r].phase \notin Resting
    BY DEF Resting
  <1> QED
    BY <1>2, <1>3, <1>4, EndKeepsInv DEF ClientTyped

LEMMA SuccessKept ==
    ASSUME ClientInv, NEW r \in Requests, UNCHANGED <<task, applied>>,
           \/ succeeded' = succeeded
           \/ succeeded' = succeeded \cup {r} /\ (Is(r, "sponsor") \/ applied[r] > 0)
    PROVE  SuccessIsApplied'
  BY DEF ClientInv, SuccessIsApplied, Is

\* A simulation that fails is the end of a try, or sends notarizeBatchReceipt to manageData.
LEMMA SimulationFailsKeepsInv ==
    ASSUME ClientInv, NEW r \in Requests, SimulationFails(r)
    PROVE  ClientInv'
  <1>1. run[r].phase = "simulate" /\ ClientTyped /\ CollisionHasCause
        /\ UNCHANGED <<registryVars, pool, task, sequence, mempool, existing, applied, exposed, collided>>
    BY DEF SimulationFails, Phase, ClientInv
  <1>2. /\ CollisionHasCause' /\ collided' \subseteq Addresses
        /\ exposed \subseteq exposed' /\ exposed' \subseteq Addresses
    BY <1>1 DEF CollisionHasCause, ClientTyped
  <1>3. CASE FallsBack(r)
    <2> DEFINE row == [run[r] EXCEPT !.phase = "build", !.plain = TRUE]
    <2>1. run[r] \in RunRow /\ RunOK(r)
      BY <1>1, RowTyped
    <2>2. /\ row \in RunRow /\ row.phase = "build" /\ row.at = run[r].at
          /\ row.signer = run[r].signer /\ row.tries = run[r].tries /\ row.outcome = "none"
      BY <1>1, <2>1 DEF RunRow, Phases, RunOK, Sending
    <2>3. run' = [run EXCEPT ![r] = row] /\ UNCHANGED <<lock, inUse, succeeded>>
      BY <1>1, <1>3 DEF SimulationFails, ClientTyped
    <2> HIDE DEF row
    <2>4. Moves(r, row)
      BY <2>2, <2>3 DEF Moves
    <2> QED BY <1>1, <1>2, <2>2, <2>3, <2>4, RebuildKeepsInv
  <1>4. CASE ~FallsBack(r)
    <2>1. Fails(r)
      BY <1>4 DEF SimulationFails
    <2>2. SuccessIsApplied'
      BY <1>1, <2>1, SuccessKept DEF Fails
    <2> QED BY <1>1, <1>2, <2>1, <2>2, ComesToRest
  <1> QED
    BY <1>3, <1>4

LEMMA SendAdmittedKeepsInv ==
    ASSUME ClientInv, NEW r \in Requests, SendAdmitted(r)
    PROVE  ClientInv'
  <1>1. run[r].phase = "send" /\ mempool' = mempool \cup {Transaction(r)}
        /\ UNCHANGED <<registryVars, pool, task, sequence, existing, applied, collided>>
    BY DEF SendAdmitted, Phase
  <1>2. CASE GoTo(r, "poll") /\ UNCHANGED <<lock, inUse, succeeded, exposed>>
    BY <1>1, <1>2, AdmittedKeepsInv
  <1>3. CASE Is(r, "sponsor") /\ Succeeds(r) /\ exposed' = Abandoned(r)
    <2>1. SuccessIsApplied'
      BY <1>1, <1>3, SuccessKept DEF Succeeds
    <2> QED BY <1>1, <1>3, <2>1, GivesUpKeepsInv
  <1> QED
    BY <1>2, <1>3 DEF SendAdmitted

LEMMA SendTimesOutKeepsInv ==
    ASSUME ClientInv, NEW r \in Requests, SendTimesOut(r)
    PROVE  ClientInv'
  BY AdmittedKeepsInv DEF SendTimesOut, Phase

LEMMA ResendTakenKeepsInv ==
    ASSUME ClientInv, NEW r \in Requests, ResendTaken(r)
    PROVE  ClientInv'
  <1>1. run[r].phase = "resend"
        /\ UNCHANGED <<registryVars, pool, task, sequence, mempool, existing, applied, collided>>
    BY DEF ResendTaken, Phase
  <1>2. CASE GoTo(r, "poll") /\ UNCHANGED <<lock, inUse, succeeded, exposed>>
    BY <1>1, <1>2, TakenKeepsInv
  <1>3. CASE Is(r, "sponsor") /\ Succeeds(r) /\ exposed' = Abandoned(r)
    <2>1. SuccessIsApplied'
      BY <1>1, <1>3, SuccessKept DEF Succeeds
    <2> QED BY <1>1, <1>3, <2>1, GivesUpKeepsInv
  <1> QED
    BY <1>2, <1>3 DEF ResendTaken

LEMMA UnansweredKeepsInv ==
    ASSUME ClientInv, NEW r \in Requests, Unanswered(r)
    PROVE  ClientInv'
  <1>1. run[r].phase \in {"build", "simulate", "send", "resend"}
        /\ Fails(r) /\ exposed' = Abandoned(r)
        /\ UNCHANGED <<registryVars, pool, task, sequence, mempool, existing, applied, collided>>
    BY DEF Unanswered, Phase
  <1>2. SuccessIsApplied'
    BY <1>1, SuccessKept DEF Fails
  <1> QED
    BY <1>1, <1>2, GivesUpKeepsInv

\* Under the lease or the lock that was meant for it the number is the next one, and
\* nothing else of the account is waiting: who is turned away was exposed.
LEMMA TurnedAwayIsExposed ==
    ASSUME ClientInv, NEW r \in Requests, SendTurnedAway(r)
    PROVE  Source(r) \in exposed
  <1> USE DEF ClientInv
  <1> SUFFICES ASSUME Source(r) \notin exposed PROVE FALSE
    OBVIOUS
  <1>1. run[r].phase = "send" /\ (run[r].seq # Next1(Source(r)) \/ Waiting(Source(r)))
    <2>1. run[r].phase \in {"send", "resend"}
      BY DEF SendTurnedAway, Phase
    <2>2. run[r].phase # "resend"
      BY <2>1, SourceTyped DEF NumbersOK
    <2> QED BY <2>1, <2>2 DEF SendTurnedAway, Phase
  <1>2. Source(r) \in Addresses /\ Uses(r, Source(r))
    BY <1>1, SourceTyped DEF Uses
  <1>3. run[r].seq = Next1(Source(r))
    BY <1>1, <1>2 DEF NumbersOK, Numbered
  <1>4. PICK t \in mempool : t.src = Source(r)
    BY <1>1, <1>3 DEF Waiting
  <1>5. t.by \in Requests /\ run[t.by].phase = "poll" /\ Uses(t.by, Source(r))
    BY <1>4, WaitingPolls
  <1>6. t.by = r
    BY <1>2, <1>5, OneUser
  <1> QED
    BY <1>1, <1>5, <1>6

LEMMA SendTurnedAwayKeepsInv ==
    ASSUME ClientInv, NEW r \in Requests, SendTurnedAway(r)
    PROVE  ClientInv'
  <1>1. /\ \/ run[r].phase = "send"
           \/ run[r].phase = "resend" /\ Settled(r)
        /\ collided' = collided \cup {Source(r)} /\ ClientTyped /\ CollisionHasCause
        /\ UNCHANGED <<registryVars, pool, task, sequence, mempool, existing, applied, exposed>>
    BY DEF SendTurnedAway, Phase, ClientInv
  <1>2. /\ CollisionHasCause' /\ collided' \subseteq Addresses
        /\ exposed \subseteq exposed' /\ exposed' \subseteq Addresses
    BY <1>1, TurnedAwayIsExposed DEF CollisionHasCause, ClientTyped
  <1>3. CASE Fails(r) \/ (Is(r, "sponsor") /\ Succeeds(r))
    <2>1. SuccessIsApplied'
      BY <1>1, <1>3, SuccessKept DEF Fails, Succeeds
    <2> QED BY <1>1, <1>2, <1>3, <2>1, ComesToRest
  <1>4. CASE /\ run' = [run EXCEPT ![r].phase = "build", ![r].again = TRUE, ![r].plain = FALSE,
                                  ![r].outcome = "none"]
             /\ UNCHANGED <<lock, inUse, succeeded>>
    <2> DEFINE row == [run[r] EXCEPT !.phase = "build", !.again = TRUE, !.plain = FALSE,
                             !.outcome = "none"]
    <2>1. run[r] \in RunRow
      BY <1>1, RowTyped
    <2>2. /\ row \in RunRow /\ row.phase = "build" /\ row.at = run[r].at
          /\ row.signer = run[r].signer /\ row.tries = run[r].tries /\ row.outcome = "none"
      BY <2>1 DEF RunRow, Phases
    <2>3. run' = [run EXCEPT ![r] = row]
      BY <1>1, <1>4 DEF ClientTyped
    <2> HIDE DEF row
    <2>4. Moves(r, row)
      BY <2>2, <2>3 DEF Moves
    <2> QED BY <1>1, <1>2, <1>4, <2>2, <2>4, RebuildKeepsInv
  <1> QED
    BY <1>3, <1>4 DEF SendTurnedAway

-----------------------------------------------------------------------------
(* Polling.                                                                 *)

LEMMA PollingKeepsInv ==
    ASSUME ClientInv, NEW r \in Requests, PollSucceeds(r) \/ PollFails(r)
    PROVE  ClientInv'
  <1>1. run[r].phase = "poll" /\ ClientTyped /\ CollisionHasCause /\ OutcomesOK
        /\ UNCHANGED <<registryVars, pool, task, sequence, mempool, existing, applied, collided>>
    BY DEF PollSucceeds, PollFails, Phase, ClientInv
  <1>2. CASE PollSucceeds(r)
    <2>1. Succeeds(r) /\ exposed' = exposed /\ run[r].outcome = "success"
      BY <1>2 DEF PollSucceeds, Final
    <2>2. SuccessIsApplied'
      BY <1>1, <2>1, SuccessKept DEF Succeeds, OutcomesOK
    <2>3. CollisionHasCause' /\ collided' \subseteq Addresses
      BY <1>1, <2>1 DEF CollisionHasCause, ClientTyped
    <2> QED BY <1>1, <2>1, <2>2, <2>3, ComesToRest
  <1>3. CASE PollFails(r)
    <2>1. Fails(r) /\ exposed' = Abandoned(r)
      BY <1>3 DEF PollFails
    <2>2. SuccessIsApplied'
      BY <1>1, <2>1, SuccessKept DEF Fails
    <2> QED BY <1>1, <2>1, <2>2, GivesUpKeepsInv
  <1> QED
    BY <1>2, <1>3

-----------------------------------------------------------------------------
(* The ledger.                                                              *)

LEMMA LedgerStays ==
    ASSUME RegistryPart, UNCHANGED registryVars
    PROVE  RegistryPart'
  <1>1. LedgerTyped'
    BY DEF RegistryPart, LedgerInv, LedgerTyped, registryVars
  <1> QED
    BY <1>1, SettingsKeepLedger DEF RegistryPart, registryVars, historyVars

\* Whatever the client asks for, the contract carries it out as it does for anyone.
LEMMA EffectKeepsLedger ==
    ASSUME RegistryPart, existing \subseteq Addresses,
           NEW t \in Tasks, NEW signer \in Addresses, NEW plain, Effect(t, signer, plain)
    PROVE  RegistryPart' /\ existing' \subseteq Addresses
  <1>1. TaskOK(t) /\ LedgerInv /\ invocations \in 0..MaxInvocations
    BY ChainOK DEF ChainOK, RegistryPart
  <1>2. CASE UNCHANGED <<registryVars, existing>>
    BY <1>2, LedgerStays
  <1>3. CASE t.fn = "sponsor" /\ existing' = existing \cup {t.to} /\ UNCHANGED registryVars
    BY <1>1, <1>3, LedgerStays DEF TaskOK
  <1>4. CASE t.fn = "mint" /\ Mint(signer, t.to, t.amount) /\ UNCHANGED <<invocations, existing>>
    <2>1. t.to \in Addresses /\ t.amount \in Int
      BY <1>1, <1>4 DEF TaskOK
    <2> QED BY <1>1, <1>4, <2>1, MintKeepsLedger DEF RegistryPart
  <1>5. CASE t.fn = "notarize" /\ NotarizeBatchReceipt(signer, t.batch)
             /\ UNCHANGED <<invocations, existing>>
    <2>1. t.batch \in BatchIds
      BY <1>1, <1>5 DEF TaskOK
    <2> QED BY <1>1, <1>5, <2>1, NotarizeKeepsLedger DEF RegistryPart
  <1>6. CASE t.fn = "weigh" /\ RegisterBatchWeighed(signer, t.batch, t.to, t.households, t.loads)
             /\ UNCHANGED <<invocations, existing>>
    <2>1. /\ t.batch \in BatchIds /\ t.to \in Addresses
          /\ t.households \in Seq(Addresses) /\ t.loads \in Deliveries
      BY <1>1, <1>6 DEF TaskOK
    <2> QED BY <1>1, <1>6, <2>1, RegisterWeighedKeepsLedger DEF RegistryPart
  <1>7. CASE t.fn = "delegate" /\ TransferDelegated(signer, t.from, t.to, t.amount, t.nonce)
             /\ UNCHANGED <<invocations, existing>>
    <2>1. t.from \in Addresses /\ t.to \in Addresses /\ t.amount \in Int
      BY <1>1, <1>7 DEF TaskOK
    <2> QED BY <1>1, <1>7, <2>1, DelegatedKeepsLedger DEF RegistryPart
  <1>8. CASE t.fn = "subsidize" /\ Transfer(t.from, t.to, t.amount)
             /\ UNCHANGED <<invocations, existing>>
    <2>1. t.from \in Addresses /\ t.to \in Addresses /\ t.amount \in Int
      BY <1>1, <1>8 DEF TaskOK
    <2> QED BY <1>1, <1>8, <2>1, TransferKeepsLedger DEF RegistryPart
  <1> QED
    BY <1>2, <1>3, <1>4, <1>5, <1>6, <1>7, <1>8 DEF Effect

\* A transaction leaves the mempool, with an outcome for the try that polls for it.
LEMMA SettledKeepsInv ==
    ASSUME ClientInv, NEW t \in mempool, mempool' = mempool \ {t},
           NEW o \in {"success", "failed", "expired"}, Outcome(t, o),
           sequence' \in [Addresses -> Nat],
           \A a \in Addresses \ {t.src} : sequence'[a] = sequence[a],
           existing' \subseteq Addresses,
           applied' \in [Requests -> Nat], \A q \in Requests : applied'[q] >= applied[q],
           o = "success" => applied'[t.by] > 0,
           UNCHANGED <<pool, task, inUse, lock, succeeded, exposed, collided>>
    PROVE  ClientInv'
  <1> USE DEF ClientInv
  <1> DEFINE r == t.by
             told == run[r].phase \in Sending /\ run[r].tries = t.try
             row == [run[r] EXCEPT !.outcome = IF told THEN o ELSE @]
  <1>1. r \in Requests /\ t.src \in Addresses
    BY DEF ClientTyped, Sent
  <1>2. run[r] \in RunRow /\ RunOK(r)
    BY <1>1, RowTyped
  <1>3. /\ row \in RunRow /\ row.outcome = (IF told THEN o ELSE run[r].outcome)
        /\ row.phase = run[r].phase /\ row.at = run[r].at /\ row.signer = run[r].signer
        /\ row.seq = run[r].seq /\ row.tries = run[r].tries
    BY <1>2 DEF RunRow
  <1>4. run' = [run EXCEPT ![r] = row]
    <2>1. CASE told
      BY <1>2, <2>1 DEF Outcome, Phase, ClientTyped, Sending
    <2>2. CASE ~told
      <3>1. row = run[r]
        BY <1>2, <2>2 DEF RunRow
      <3>2. run' = run
        BY <2>2 DEF Outcome, Phase, Sending
      <3> HIDE DEF row
      <3> QED BY <1>1, <3>1, <3>2 DEF ClientTyped
    <2> QED BY <2>1, <2>2
  <1>5. told => run[r].phase \in Sending /\ run[r].tries = t.try
    OBVIOUS
  <1> HIDE DEF row, told
  <1>6. run' \in [Requests -> RunRow] /\ run'[r] = row
        /\ \A q \in Requests \ {r} : run'[q] = run[q]
    BY <1>1, <1>3, <1>4, MovesRow DEF Moves
  <1> HIDE DEF r
  <1>7. \A q \in Requests : /\ run'[q].phase = run[q].phase /\ run'[q].at = run[q].at
                            /\ run'[q].signer = run[q].signer /\ run'[q].seq = run[q].seq
                            /\ run'[q].tries = run[q].tries
    BY <1>3, <1>6
  <1>8. Shared' = Shared /\ \A q \in Requests : Subsidized(q)' = Subsidized(q)
    BY SettingsKept DEF Settings
  <1>9. \A q \in Requests : Source(q)' = Source(q) /\ \A a : Uses(q, a)' = Uses(q, a)
    <2> SUFFICES ASSUME NEW q \in Requests
                 PROVE  Source(q)' = Source(q) /\ \A a : Uses(q, a)' = Uses(q, a)
      OBVIOUS
    <2>1. Source(q)' = Source(q)
      BY <1>7, <1>8 DEF Source
    <2> QED BY <1>7, <1>8, <2>1 DEF Uses
  <1>10. \A q \in Requests : RunOK(q)'
    <2> SUFFICES ASSUME NEW q \in Requests PROVE RunOK(q)'
      OBVIOUS
    <2>1. RunOK(q) /\ (run'[q].outcome # "none" => run[q].phase \in Sending)
      BY <1>3, <1>5, <1>6 DEF ClientTyped, RunOK
    <2> QED BY <1>7, <1>8, <2>1 DEF RunOK
  <1>11. ClientTyped'
    BY <1>6, <1>10 DEF ClientTyped
  <1>12. MempoolOK'
    <2>1. ASSUME NEW u \in mempool'
          PROVE  /\ u.try <= run'[u.by].tries
                 /\ u.try = run'[u.by].tries => /\ run'[u.by].phase \in Resting \cup Sending
                                                /\ run'[u.by].outcome = "none"
      <3>1. u \in mempool /\ u # t /\ u.by \in Requests
        BY DEF ClientTyped, Sent
      <3>2. u.by = r /\ told => u.try # run[r].tries
        BY <1>5, <3>1 DEF MempoolOK, r
      <3>3. /\ u.try <= run[u.by].tries
            /\ u.try = run[u.by].tries => /\ run[u.by].phase \in Resting \cup Sending
                                          /\ run[u.by].outcome = "none"
        BY <3>1 DEF MempoolOK
      <3> QED BY <1>3, <1>6, <1>7, <3>1, <3>2, <3>3
    <2> QED BY <2>1 DEF MempoolOK
  <1>13. OutcomesOK'
    <2> SUFFICES ASSUME NEW q \in Requests, run'[q].outcome = "success" PROVE applied'[q] > 0
      BY DEF OutcomesOK
    <2>1. CASE q = r /\ told
      BY <1>3, <1>6, <2>1 DEF r
    <2>2. CASE ~(q = r /\ told)
      <3>1. applied[q] > 0
        BY <1>3, <1>6, <2>2 DEF OutcomesOK
      <3> QED BY <3>1 DEF ClientTyped
    <2> QED BY <2>1, <2>2
  <1>14. LeasesOK'
    BY <1>7, <1>8 DEF LeasesOK
  <1>15. LocksOK'
    BY <1>8, <1>9 DEF LocksOK
  <1>16. NumbersOK'
    <2>1. ASSUME NEW a \in Addresses \ exposed', NEW q \in Requests, Uses(q, a)',
                 run'[q].phase \in Numbered
          PROVE  run'[q].seq = Next1(a)'
      <3>1. Uses(q, a) /\ run[q].phase \in Numbered /\ run'[q].seq = run[q].seq
        BY <1>7, <1>9, <2>1
      <3>2. run[q].seq = Next1(a)
        BY <3>1 DEF NumbersOK
      <3>3. a # t.src
        <4> SUFFICES ASSUME a = t.src PROVE FALSE
          OBVIOUS
        <4>1. t.by \in Requests /\ Uses(t.by, a) /\ run[t.by].phase = "poll"
          BY WaitingPolls
        <4>2. t.by = q
          BY <3>1, <4>1, OneUser
        <4> QED BY <3>1, <4>1, <4>2 DEF Numbered
      <3> QED BY <3>1, <3>2, <3>3 DEF Next1
    <2>2. ASSUME NEW a \in Addresses \ exposed', NEW u \in mempool', u.src = a
          PROVE  Uses(u.by, a)' /\ run'[u.by].phase = "poll" /\ run'[u.by].tries = u.try
      BY <1>7, <1>9, <2>2, WaitingPolls
    <2>3. \A a \in Addresses \ exposed', q \in Requests : run'[q].phase = "resend" => Source(q)' # a
      BY <1>7, <1>9 DEF NumbersOK
    <2> QED BY <2>1, <2>2, <2>3 DEF NumbersOK
  <1>17. SuccessIsApplied'
    <2> SUFFICES ASSUME NEW q \in succeeded, ~Is(q, "sponsor") PROVE applied'[q] > 0
      BY DEF SuccessIsApplied, Is
    <2>1. applied[q] > 0 /\ q \in Requests
      BY DEF SuccessIsApplied, ClientTyped
    <2> QED BY <2>1 DEF ClientTyped
  <1>18. CollisionHasCause'
    BY DEF CollisionHasCause
  <1> QED
    BY <1>11, <1>12, <1>13, <1>14, <1>15, <1>16, <1>17, <1>18

LEMMA LedgerClosesKeepsInv ==
    ASSUME ChainInv, NEW t \in mempool, LedgerCloses(t)
    PROVE  ChainInv'
  <1>1. /\ mempool' = mempool \ {t} /\ sequence' = [sequence EXCEPT ![t.src] = t.seq]
        /\ UNCHANGED <<pool, task, inUse, lock, succeeded, exposed, collided>>
    BY DEF LedgerCloses
  <1>2. /\ t.by \in Requests /\ t.src \in Addresses /\ t.seq \in Nat
        /\ t.task \in Tasks /\ t.signer \in Addresses
    BY DEF ChainInv, ClientInv, ClientTyped, Sent
  <1>3. /\ sequence \in [Addresses -> Nat] /\ existing \subseteq Addresses
        /\ applied \in [Requests -> Nat]
    BY DEF ChainInv, ClientInv, ClientTyped
  <1>4. sequence' \in [Addresses -> Nat]
        /\ \A a \in Addresses \ {t.src} : sequence'[a] = sequence[a]
    BY <1>1, <1>2, <1>3
  <1>5. CASE Accepts(t)
    <2>1. /\ Effect(t.task, t.signer, t.plain) /\ Outcome(t, "success")
          /\ applied' = [applied EXCEPT ![t.by] = @ + 1]
      BY <1>5 DEF LedgerCloses
    <2>2. RegistryPart' /\ existing' \subseteq Addresses
      BY <1>2, <1>3, <2>1, EffectKeepsLedger DEF ChainInv
    <2>3. applied' \in [Requests -> Nat] /\ (\A q \in Requests : applied'[q] >= applied[q])
          /\ applied'[t.by] > 0
      BY <1>2, <1>3, <2>1
    <2>4. ClientInv'
      BY <1>1, <1>4, <2>1, <2>2, <2>3, SettledKeepsInv DEF ChainInv
    <2> QED BY <2>2, <2>4 DEF ChainInv
  <1>6. CASE ~Accepts(t)
    <2>1. Outcome(t, "failed") /\ UNCHANGED <<registryVars, existing, applied>>
      BY <1>6 DEF LedgerCloses
    <2>2. RegistryPart'
      BY <2>1, LedgerStays DEF ChainInv
    <2>3. \A q \in Requests : applied'[q] >= applied[q]
      BY <1>3, <2>1
    <2>4. ClientInv'
      BY <1>1, <1>3, <1>4, <2>1, <2>3, SettledKeepsInv DEF ChainInv
    <2> QED BY <2>2, <2>4 DEF ChainInv
  <1> QED
    BY <1>5, <1>6

LEMMA ExpiresKeepsInv ==
    ASSUME ClientInv, NEW t \in mempool, Expires(t)
    PROVE  ClientInv'
  <1>1. /\ sequence \in [Addresses -> Nat] /\ existing \subseteq Addresses
        /\ applied \in [Requests -> Nat]
    BY DEF ClientInv, ClientTyped
  <1>2. /\ mempool' = mempool \ {t} /\ Outcome(t, "expired")
        /\ UNCHANGED <<pool, task, inUse, lock, sequence, existing, applied, succeeded, exposed,
                       collided>>
    BY DEF Expires
  <1>3. \A q \in Requests : applied'[q] >= applied[q]
    BY <1>1, <1>2
  <1> QED
    BY <1>1, <1>2, <1>3, SettledKeepsInv

-----------------------------------------------------------------------------
(* The invariant holds, and with it what the runs check.                    *)

LEMMA RequestStepKeepsInv ==
    ASSUME ClientInv, NEW r \in Requests, RequestStep(r)
    PROVE  ClientInv'
  BY LeasingKeepsInv, LockingKeepsInv, BuildKeepsInv, SimulatesKeepsInv,
     SimulationFailsKeepsInv, SendAdmittedKeepsInv, SendTimesOutKeepsInv, ResendTakenKeepsInv, UnansweredKeepsInv,
     SendTurnedAwayKeepsInv, PollingKeepsInv DEF RequestStep

LEMMA RequestLeavesLedger ==
    ASSUME NEW r \in Requests,
           RequestStep(r) \/ AlreadyThere(r) \/ \E p \in Processes : Start(r, p)
    PROVE  UNCHANGED registryVars
  BY DEF RequestStep, AlreadyThere, Start, LeaseChannel, LeaseTimesOut, TakeLock, SkipLock, Build,
         Simulates, SimulationFails, SendAdmitted, SendTimesOut, ResendTaken, Unanswered,
         SendTurnedAway, PollSucceeds, PollFails

LEMMA StepKeepsInv == ChainInv /\ [Next]_vars => ChainInv'
  <1> SUFFICES ASSUME ChainInv, [Next]_vars PROVE ChainInv'
    OBVIOUS
  <1>1. ASSUME NEW r \in Requests,
               RequestStep(r) \/ AlreadyThere(r) \/ \E p \in Processes : Start(r, p)
        PROVE  ChainInv'
    <2>1. RegistryPart'
      BY <1>1, RequestLeavesLedger, LedgerStays DEF ChainInv
    <2>2. ClientInv'
      BY <1>1, RequestStepKeepsInv, AlreadyThereKeepsInv, StartKeepsInv DEF ChainInv
    <2> QED BY <2>1, <2>2 DEF ChainInv
  <1>2. ASSUME NEW a \in Addresses, LockExpires(a)
        PROVE  ChainInv'
    <2>1. RegistryPart'
      BY <1>2, LedgerStays DEF LockExpires, ChainInv
    <2> QED BY <1>2, <2>1, LockExpiresKeepsInv DEF ChainInv
  <1>3. ASSUME NEW t \in mempool, Expires(t)
        PROVE  ChainInv'
    <2>1. RegistryPart'
      BY <1>3, LedgerStays DEF Expires, ChainInv
    <2> QED BY <1>3, <2>1, ExpiresKeepsInv DEF ChainInv
  <1>4. ASSUME UNCHANGED clientVars
        PROVE  ClientInv'
    <2>1. UNCHANGED Settings /\ Shared' = Shared
          /\ \A q \in Requests : /\ \A a : Uses(q, a)' = Uses(q, a)
                                  /\ RunOK(q)' = RunOK(q) /\ Subsidized(q)' = Subsidized(q)
                                  /\ Source(q)' = Source(q)
      BY <1>4, SettingsKept, UsesKept DEF clientVars, Settings
    <2>2. ClientTyped' /\ MempoolOK' /\ OutcomesOK'
      BY <1>4, <2>1 DEF ChainInv, ClientInv, ClientTyped, MempoolOK, OutcomesOK, clientVars
    <2>3. LeasesOK' /\ LocksOK' /\ NumbersOK'
      <3>1. \A a : Next1(a)' = Next1(a)
        BY <1>4 DEF Next1, clientVars
      <3>2. \A t \in mempool : t.by \in Requests
        BY DEF ChainInv, ClientInv, ClientTyped, Sent
      <3>3. LeasesOK' /\ LocksOK'
        BY <1>4, <2>1 DEF ChainInv, ClientInv, LeasesOK, LocksOK, clientVars
      <3>4. NumbersOK'
        BY <1>4, <2>1, <3>1, <3>2 DEF ChainInv, ClientInv, NumbersOK, clientVars
      <3> QED BY <3>3, <3>4
    <2>4. SuccessIsApplied' /\ CollisionHasCause'
      BY <1>4 DEF ChainInv, ClientInv, SuccessIsApplied, CollisionHasCause, Is, clientVars
    <2> QED BY <2>2, <2>3, <2>4 DEF ClientInv
  <1>5. CASE AnyoneInvokes /\ UNCHANGED clientVars
    BY <1>4, <1>5, AnyoneKeepsLedger DEF ChainInv, RegistryPart
  <1>6. CASE UNCHANGED vars
    BY <1>4, <1>6, LedgerStays DEF vars, ChainInv
  <1> QED
    BY <1>1, <1>2, <1>3, <1>5, <1>6, LedgerClosesKeepsInv DEF Next, ClientNext

\* The invariant of the client and of the contract, in every state of every run, with
\* any number of requests, processes, channels and repetitions.
THEOREM ChainInductive == Spec => []ChainInv
  BY InitChain, StepKeepsInv, PTL DEF Spec

\* lib.rs keeps "TotalSupply: Suministro total circulante": the balances sum up to the
\* supply, but for what addresses sent to themselves, whatever the client and anyone send.
THEOREM ChainLedgerConsistent == Spec => []LedgerConsistent
  BY InvIsConsistent, ChainInductive, PTL

\* register_batch, register_batch_weighed and notarize_batch_receipt: a batch is minted
\* what its record says, once, to the last unit, and nothing of a negative reward.
THEOREM ChainRewardIsMinted == Spec => []RewardIsMinted
  <1>1. ChainInv => RewardIsMinted
    BY InvMeansMinted DEF ChainInv, RegistryPart
  <1> QED
    BY <1>1, ChainInductive, PTL

\* transfer_delegated: the nonce of a signature that moved tokens is never taken again.
THEOREM ChainSignatureOnce == Spec => []SignatureOnce
  <1>1. ChainInv => SignatureOnce
    BY InvMeansOnce DEF ChainInv, RegistryPart
  <1> QED
    BY <1>1, ChainInductive, PTL

\* acquireChannelAccount, withAccountLock and executeWithFailover: the network turns a
\* transaction away for its number only for an account that was used past its lease or
\* its lock, or for which the nodes were out of step.
THEOREM ChainCollisionHasCause == Spec => []CollisionHasCause
  <1>1. ChainInv => CollisionHasCause
    BY DEF ChainInv, ClientInv
  <1> QED
    BY <1>1, ChainInductive, PTL

\* The polling of blockchain.service.ts: a success is reported for what a ledger has
\* carried out, whatever answers were lost and whatever was repeated.
THEOREM ChainSuccessIsApplied == Spec => []SuccessIsApplied
  <1>1. ChainInv => SuccessIsApplied
    BY DEF ChainInv, ClientInv
  <1> QED
    BY <1>1, ChainInductive, PTL
=============================================================================
