---------------------------- MODULE ServicesProofs ---------------------------
(* Proofs about the services that share only their process.  Those that    *)
(* meet a request, a notification or a transaction more than once come      *)
(* first: the Idempotency-Key, the number of a complaint, the mint of a     *)
(* deposit.  Then the RPC servers, ratings, pushes and profiles, and all    *)
(* services together.                                                      *)
EXTENDS MCServices, AccountsProofs, FiniteSums, FiniteSetTheorems, SequenceTheorems, TLAPS

-----------------------------------------------------------------------------
(* Idempotency keys.                                                       *)

Markers == {NoMarker} \union {Processing(r) : r \in Requests} \union {Stored(r) : r \in Requests}
RequestRow == [stage : {"unsent", "unmarked", "conflict", "running", "committed", "storing",
                        "answered", "failed"},
               key : IdemKeys, answer : Requests \union {NoRun}]

IdemTyped ==
  /\ marker \in [IdemKeys -> Markers]
  /\ request \in [Requests -> RequestRow]
  /\ ran \in [IdemKeys -> SUBSET Requests]
  /\ expired \in [IdemKeys -> 0..MaxExpiries]
  /\ torn \in [IdemKeys -> Nat]

\* Requests that were let through: their handler runs, or has committed.
Begun(k) == ran[k] \union {r \in Requests : request[r].stage = "running" /\ request[r].key = k}
Held(k) == IF marker[k] = NoMarker THEN 0 ELSE 1

RanIsOver == \A k \in IdemKeys : \A r \in ran[k] : request[r].stage \in {"committed", "storing", "answered", "failed"}

\* A request is let through for the marker that is there, for every one that ran out, and
\* for every one that was deleted although its handler had committed.
Freed(k) == expired[k] + torn[k]
BegunIsPaidFor == \A k \in IdemKeys : Cardinality(Begun(k)) <= Freed(k) + Held(k)

IdemInv == IdemTyped /\ RanIsOver /\ BegunIsPaidFor

LEMMA BegunFinite ==
  ASSUME IdemTyped, NEW k \in IdemKeys
  PROVE  /\ IsFiniteSet(Begun(k)) /\ Cardinality(Begun(k)) \in Nat
         /\ \A S \in SUBSET Begun(k) : Cardinality(S) \in Nat /\ Cardinality(S) <= Cardinality(Begun(k))
  <1>1. Begun(k) \in SUBSET Requests
    BY DEF Begun, IdemTyped
  <1>2. IsFiniteSet(Begun(k)) /\ Cardinality(Begun(k)) \in Nat
    BY <1>1, IdempotencyAssumption, FS_Subset, FS_CardinalityType DEF IdempotencyAssumption
  <1> QED
    BY <1>2, FS_Subset, FS_CardinalityType

LEMMA FreedTyped ==
  ASSUME IdemTyped, NEW k \in IdemKeys
  PROVE  expired[k] \in Nat /\ torn[k] \in Nat /\ Freed(k) \in Nat /\ Held(k) \in {0, 1}
  BY IdempotencyAssumption DEF IdemTyped, IdempotencyAssumption, Freed, Held

LEMMA IdemInvImplies == IdemInv => RepeatHasCause
  <1> SUFFICES ASSUME IdemInv, NEW k \in IdemKeys
               PROVE  Cardinality(ran[k]) <= 1 + expired[k] + torn[k]
    BY DEF RepeatHasCause
  <1>1. ran[k] \in SUBSET Begun(k)
    BY DEF Begun
  <1>2. Cardinality(ran[k]) \in Nat /\ Cardinality(Begun(k)) \in Nat
        /\ Cardinality(ran[k]) <= Cardinality(Begun(k))
    BY <1>1, BegunFinite DEF IdemInv
  <1>3. Cardinality(Begun(k)) <= Freed(k) + Held(k)
    BY DEF IdemInv, BegunIsPaidFor
  <1> QED
    BY <1>2, <1>3, FreedTyped DEF IdemInv, Freed

LEMMA IdemInitInv == IdemInit => IdemInv
  <1> SUFFICES ASSUME IdemInit PROVE IdemInv
    OBVIOUS
  <1>1. (CHOOSE k \in IdemKeys : TRUE) \in IdemKeys
    BY IdempotencyAssumption DEF IdempotencyAssumption
  <1>2. IdemTyped
    BY <1>1, IdempotencyAssumption
    DEF IdempotencyAssumption, IdemTyped, IdemInit, NotSent, RequestRow, Markers
  <1>3. RanIsOver
    BY DEF RanIsOver, IdemInit
  <1>4. \A k \in IdemKeys : Begun(k) = {} /\ Held(k) = 0 /\ Freed(k) = 0
    BY DEF Begun, Held, Freed, IdemInit, NotSent
  <1> QED
    BY <1>2, <1>3, <1>4, FS_EmptySet DEF IdemInv, BegunIsPaidFor

\* Nobody is let through, and no marker goes.
LEMMA NobodyBegins ==
  ASSUME IdemInv, IdemTyped', UNCHANGED <<expired, torn>>,
         \A k \in IdemKeys : Begun(k)' \subseteq Begun(k) /\ (marker[k] # NoMarker => marker'[k] # NoMarker)
  PROVE  BegunIsPaidFor'
  <1> SUFFICES ASSUME NEW k \in IdemKeys PROVE Cardinality(Begun(k)') <= Freed(k) + Held(k)'
    BY DEF BegunIsPaidFor, Freed
  <1>1. Cardinality(Begun(k)) <= Freed(k) + Held(k) /\ Cardinality(Begun(k)) \in Nat
        /\ Cardinality(Begun(k)') \in Nat /\ Cardinality(Begun(k)') <= Cardinality(Begun(k))
    BY BegunFinite DEF IdemInv, BegunIsPaidFor
  <1>2. Held(k) \in {0, 1} /\ Held(k)' \in {0, 1} /\ Held(k) <= Held(k)' /\ Freed(k) \in Nat
    BY FreedTyped DEF IdemInv, Held
  <1> QED
    BY <1>1, <1>2

LEMMA ReadKeyKeepsInv ==
  ASSUME IdemInv, NEW r \in Requests, NEW k \in IdemKeys, ReadKey(r, k)
  PROVE  IdemInv'
  <1> USE DEF IdemInv
  <1>1. marker[k].run \in Requests \union {NoRun}
    BY DEF IdemTyped, Markers, NoMarker, Processing, Stored
  <1>2. PICK stage \in {"conflict", "answered", "unmarked"} :
          request' = [request EXCEPT ![r] = [key |-> k, answer |-> marker[k].run, stage |-> stage]]
    BY DEF ReadKey
  <1>3. request[r].stage = "unsent" /\ UNCHANGED <<marker, ran, expired, torn>>
    BY DEF ReadKey
  <1>4. IdemTyped'
    BY <1>1, <1>2, <1>3 DEF IdemTyped, RequestRow
  <1>5. RanIsOver'
    BY <1>2, <1>3 DEF RanIsOver, IdemTyped
  <1>6. \A d \in IdemKeys : Begun(d)' \subseteq Begun(d)
    BY <1>2, <1>3 DEF Begun, IdemTyped
  <1> QED
    BY <1>3, <1>4, <1>5, <1>6, NobodyBegins

LEMMA MarkKeyKeepsInv ==
  ASSUME IdemInv, NEW r \in Requests, MarkKey(r)
  PROVE  IdemInv'
  <1> USE DEF IdemInv
  <1>0. PICK k \in IdemKeys : k = request[r].key
    BY DEF IdemTyped, RequestRow
  <1>1. k \in IdemKeys /\ request[r].stage = "unmarked" /\ UNCHANGED <<ran, expired, torn>>
    BY <1>0 DEF MarkKey
  <1>2. CASE ~Acquires(r)
    <2>1. request' = [request EXCEPT ![r].stage = "conflict"] /\ marker' = marker
      BY <1>2 DEF MarkKey
    <2>2. IdemTyped'
      BY <1>1, <2>1 DEF IdemTyped, RequestRow
    <2>3. RanIsOver'
      BY <1>1, <2>1 DEF RanIsOver, IdemTyped
    <2>4. \A d \in IdemKeys : Begun(d)' \subseteq Begun(d)
      BY <1>1, <2>1 DEF Begun, IdemTyped
    <2> QED BY <1>1, <2>1, <2>2, <2>3, <2>4, NobodyBegins
  <1>3. CASE Acquires(r)
    <2>1. /\ request' = [request EXCEPT ![r].stage = "running"]
          /\ marker' = [marker EXCEPT ![k] = Processing(r)] /\ marker[k] = NoMarker
      BY <1>0, <1>3 DEF MarkKey, Acquires, Key
    <2>2. IdemTyped'
      BY <1>1, <2>1 DEF IdemTyped, RequestRow, Markers
    <2>3. RanIsOver'
      BY <1>1, <2>1 DEF RanIsOver, IdemTyped
    <2>4. /\ Begun(k)' = Begun(k) \union {r}
          /\ \A d \in IdemKeys \ {k} : Begun(d)' = Begun(d)
      BY <1>0, <1>1, <2>1 DEF Begun, IdemTyped, RequestRow
    <2>5. Held(k) = 0 /\ Held(k)' = 1 /\ \A d \in IdemKeys \ {k} : Held(d)' = Held(d)
      BY <1>1, <2>1 DEF Held, IdemTyped, NoMarker, Processing
    <2>6. Cardinality(Begun(k)') <= Cardinality(Begun(k)) + 1 /\ Cardinality(Begun(k)) \in Nat
          /\ Cardinality(Begun(k)') \in Nat /\ Freed(k) \in Nat
      <3>1. IsFiniteSet(Begun(k)) /\ Cardinality(Begun(k)) \in Nat /\ Freed(k) \in Nat
        BY <1>1, BegunFinite, FreedTyped
      <3>2. Cardinality(Begun(k) \union {r}) \in {Cardinality(Begun(k)), Cardinality(Begun(k)) + 1}
        BY <3>1, FS_AddElement
      <3> QED BY <2>4, <3>1, <3>2
    <2>7. ASSUME NEW d \in IdemKeys PROVE Cardinality(Begun(d)') <= Freed(d)' + Held(d)'
      <3>0. Freed(d)' = Freed(d)
        BY <1>1 DEF Freed
      <3>1. CASE d = k
        BY <3>0, <2>5, <2>6, <3>1 DEF BegunIsPaidFor
      <3>2. CASE d # k
        BY <3>0, <2>4, <2>5, <3>2 DEF BegunIsPaidFor
      <3> QED BY <3>1, <3>2
    <2> QED BY <2>2, <2>3, <2>7 DEF BegunIsPaidFor
  <1> QED
    BY <1>2, <1>3

LEMMA HandlerCommitsKeepsInv ==
  ASSUME IdemInv, NEW r \in Requests, HandlerCommits(r)
  PROVE  IdemInv'
  <1> USE DEF IdemInv
  <1> DEFINE k == request[r].key
  <1>1. /\ k \in IdemKeys /\ request[r].stage = "running"
        /\ ran' = [ran EXCEPT ![k] = @ \union {r}]
        /\ request' = [request EXCEPT ![r].stage = "committed"]
        /\ UNCHANGED <<marker, expired, torn>>
    BY DEF HandlerCommits, Key, IdemTyped, RequestRow
  <1>2. IdemTyped'
    BY <1>1 DEF IdemTyped, RequestRow
  <1>3. request'[r].stage = "committed" /\ \A q \in Requests \ {r} : request'[q] = request[q]
    BY <1>1 DEF IdemTyped, RequestRow
  <1>4. RanIsOver'
    BY <1>1, <1>3 DEF RanIsOver, IdemTyped
  <1>5. \A d \in IdemKeys : Begun(d)' \subseteq Begun(d)
    BY <1>1, <1>3 DEF Begun, IdemTyped
  <1> QED
    BY <1>1, <1>2, <1>4, <1>5, NobodyBegins

LEMMA HandlerReturnsKeepsInv ==
  ASSUME IdemInv, NEW r \in Requests, HandlerReturns(r)
  PROVE  IdemInv'
  <1> USE DEF IdemInv
  <1>1. /\ request[r].stage = "committed"
        /\ request' = [request EXCEPT ![r] = [request[r] EXCEPT !.stage = "storing", !.answer = r]]
        /\ UNCHANGED <<marker, ran, expired, torn>>
    BY DEF HandlerReturns, IdemTyped, RequestRow
  <1>2. [request[r] EXCEPT !.stage = "storing", !.answer = r] \in RequestRow
    BY DEF IdemTyped, RequestRow
  <1>3. IdemTyped'
    BY <1>1, <1>2 DEF IdemTyped
  <1>4. request'[r].stage = "storing" /\ \A q \in Requests \ {r} : request'[q] = request[q]
    BY <1>1, <1>2 DEF IdemTyped, RequestRow
  <1>5. RanIsOver'
    BY <1>1, <1>4 DEF RanIsOver, IdemTyped
  <1>6. \A d \in IdemKeys : Begun(d)' \subseteq Begun(d)
    BY <1>1, <1>4 DEF Begun, IdemTyped
  <1> QED
    BY <1>1, <1>3, <1>5, <1>6, NobodyBegins

LEMMA StoreResponseKeepsInv ==
  ASSUME IdemInv, NEW r \in Requests, StoreResponse(r)
  PROVE  IdemInv'
  <1> USE DEF IdemInv
  <1> DEFINE k == request[r].key
  <1>1. /\ k \in IdemKeys /\ request[r].stage = "storing"
        /\ request' = [request EXCEPT ![r].stage = "answered"]
        /\ marker' \in {[marker EXCEPT ![k] = Stored(r)], marker}
        /\ UNCHANGED <<ran, expired, torn>>
    BY DEF StoreResponse, Key, IdemTyped, RequestRow
  <1>2. IdemTyped'
    BY <1>1 DEF IdemTyped, RequestRow, Markers
  <1>3. RanIsOver'
    BY <1>1 DEF RanIsOver, IdemTyped
  <1>4. \A d \in IdemKeys : Begun(d)' \subseteq Begun(d) /\ (marker[d] # NoMarker => marker'[d] # NoMarker)
    BY <1>1 DEF Begun, IdemTyped, Stored, NoMarker
  <1> QED
    BY <1>1, <1>2, <1>3, <1>4, NobodyBegins

\* The key is free again: either one request less has been let through, or it had
\* committed, and then that is the cause.
LEMMA HandlerThrowsKeepsInv ==
  ASSUME IdemInv, NEW r \in Requests, HandlerThrows(r)
  PROVE  IdemInv'
  <1> USE DEF IdemInv
  <1>0. PICK k \in IdemKeys : k = request[r].key
    BY DEF IdemTyped, RequestRow
  <1>1. /\ request[r].stage \in {"running", "committed"}
        /\ request' = [request EXCEPT ![r].stage = "failed"]
        /\ marker' \in {[marker EXCEPT ![k] = NoMarker], marker}
        /\ torn' = IF request[r].stage = "committed" /\ marker' # marker
                   THEN [torn EXCEPT ![k] = @ + 1] ELSE torn
        /\ UNCHANGED <<ran, expired>>
    BY <1>0 DEF HandlerThrows, Key
  <1>2. IdemTyped'
    <2>1. torn' \in [IdemKeys -> Nat]
      BY <1>1 DEF IdemTyped
    <2> QED BY <1>1, <2>1 DEF IdemTyped, RequestRow, Markers
  <1>3. RanIsOver'
    BY <1>1 DEF RanIsOver, IdemTyped
  <1>4. CASE request[r].stage = "committed" /\ marker' # marker
    <2>1. \A d \in IdemKeys : Begun(d)' = Begun(d)
      BY <1>1, <1>4 DEF Begun, IdemTyped
    <2>2. /\ torn' = [torn EXCEPT ![k] = @ + 1] /\ expired' = expired
          /\ torn \in [IdemKeys -> Nat] /\ expired[k] \in Nat /\ torn[k] \in Nat
      BY <1>1, <1>4, FreedTyped DEF IdemTyped
    <2>3. Freed(k)' = Freed(k) + 1 /\ \A d \in IdemKeys \ {k} : Freed(d)' = Freed(d)
      BY <2>2 DEF Freed
    <2>4. \A d \in IdemKeys \ {k} : Held(d)' = Held(d)
      BY <1>1 DEF Held, IdemTyped
    <2>5. Held(k) \in {0, 1} /\ Held(k)' \in {0, 1} /\ Freed(k) \in Nat
          /\ Cardinality(Begun(k)) \in Nat
      BY <1>2, FreedTyped, BegunFinite DEF Held
    <2>6. ASSUME NEW d \in IdemKeys PROVE Cardinality(Begun(d)') <= Freed(d)' + Held(d)'
      <3>1. CASE d = k
        BY <2>1, <2>3, <2>5, <3>1 DEF BegunIsPaidFor
      <3>2. CASE d # k
        BY <2>1, <2>3, <2>4, <3>2 DEF BegunIsPaidFor
      <3> QED BY <3>1, <3>2
    <2> QED BY <1>2, <1>3, <2>6 DEF BegunIsPaidFor
  <1>5. CASE marker' = marker
    <2>1. \A d \in IdemKeys : Begun(d)' \subseteq Begun(d)
      BY <1>1 DEF Begun, IdemTyped
    <2>2. torn' = torn
      BY <1>1, <1>5
    <2> QED BY <1>1, <1>2, <1>3, <1>5, <2>1, <2>2, NobodyBegins
  <1>6. CASE request[r].stage = "running"
    <2>1. /\ r \in Begun(k) /\ Begun(k)' = Begun(k) \ {r}
          /\ \A d \in IdemKeys \ {k} : Begun(d)' = Begun(d) /\ Held(d)' = Held(d)
      BY <1>0, <1>1, <1>6 DEF Begun, IdemTyped, RanIsOver, Held
    <2>2. \A d \in IdemKeys : Freed(d)' = Freed(d)
      BY <1>1, <1>6 DEF Freed
    <2>3. /\ Held(k) \in {0, 1} /\ Held(k)' \in {0, 1} /\ Freed(k) \in Nat
          /\ IsFiniteSet(Begun(k)) /\ Cardinality(Begun(k)) \in Nat
      BY FreedTyped, BegunFinite DEF Held
    <2>4. Cardinality(Begun(k)') = Cardinality(Begun(k)) - 1
      BY <2>1, <2>3, FS_RemoveElement
    <2>5. ASSUME NEW d \in IdemKeys PROVE Cardinality(Begun(d)') <= Freed(d)' + Held(d)'
      <3>1. CASE d = k
        BY <2>2, <2>3, <2>4, <3>1 DEF BegunIsPaidFor
      <3>2. CASE d # k
        BY <2>1, <2>2, <3>2 DEF BegunIsPaidFor
      <3> QED BY <3>1, <3>2
    <2> QED BY <1>2, <1>3, <2>5 DEF BegunIsPaidFor
  <1> QED
    BY <1>1, <1>4, <1>5, <1>6

LEMMA RequestDiesKeepsInv ==
  ASSUME IdemInv, NEW r \in Requests, RequestDies(r)
  PROVE  IdemInv'
  <1> USE DEF IdemInv
  <1>1. request' = [request EXCEPT ![r].stage = "failed"] /\ UNCHANGED <<marker, ran, expired, torn>>
    BY DEF RequestDies
  <1>2. IdemTyped'
    BY <1>1 DEF IdemTyped, RequestRow
  <1>3. RanIsOver'
    BY <1>1 DEF RanIsOver, IdemTyped
  <1>4. \A d \in IdemKeys : Begun(d)' \subseteq Begun(d)
    BY <1>1 DEF Begun, IdemTyped
  <1> QED
    BY <1>1, <1>2, <1>3, <1>4, NobodyBegins

LEMMA KeyExpiresKeepsInv ==
  ASSUME IdemInv, NEW k \in IdemKeys, KeyExpires(k)
  PROVE  IdemInv'
  <1> USE DEF IdemInv
  <1>1. /\ marker[k] # NoMarker /\ expired[k] < MaxExpiries
        /\ marker' = [marker EXCEPT ![k] = NoMarker]
        /\ expired' = [expired EXCEPT ![k] = @ + 1] /\ UNCHANGED <<request, ran, torn>>
    BY DEF KeyExpires
  <1>2. IdemTyped'
    BY <1>1, IdempotencyAssumption DEF IdemTyped, Markers, IdempotencyAssumption
  <1>3. RanIsOver'
    BY <1>1 DEF RanIsOver
  <1>4. \A d \in IdemKeys : Begun(d)' = Begun(d) /\ Cardinality(Begun(d)) \in Nat /\ Freed(d) \in Nat
    <2>1. \A d \in IdemKeys : Begun(d)' = Begun(d)
      BY <1>1 DEF Begun
    <2>2. \A d \in IdemKeys : Cardinality(Begun(d)) \in Nat
      BY BegunFinite
    <2>3. \A d \in IdemKeys : Freed(d) \in Nat
      BY FreedTyped
    <2> QED BY <2>1, <2>2, <2>3
  <1>5. Held(k) = 1 /\ Held(k)' = 0 /\ Freed(k)' = Freed(k) + 1
        /\ \A d \in IdemKeys \ {k} : Held(d)' = Held(d) /\ Freed(d)' = Freed(d)
    <2>1. expired'[k] = expired[k] + 1 /\ expired[k] \in Nat /\ torn[k] \in Nat
          /\ \A d \in IdemKeys \ {k} : expired'[d] = expired[d]
      BY <1>1, FreedTyped DEF IdemTyped
    <2> QED BY <1>1, <2>1 DEF Held, IdemTyped, Freed
  <1>6. ASSUME NEW d \in IdemKeys PROVE Cardinality(Begun(d)') <= Freed(d)' + Held(d)'
    <2>1. CASE d = k
      BY <1>4, <1>5, <2>1 DEF BegunIsPaidFor
    <2>2. CASE d # k
      BY <1>4, <1>5, <2>2 DEF BegunIsPaidFor
    <2> QED BY <2>1, <2>2
  <1> QED
    BY <1>2, <1>3, <1>6 DEF BegunIsPaidFor

LEMMA IdemStepInv == IdemInv /\ [IdemNext]_idemVars => IdemInv'
  <1> SUFFICES ASSUME IdemInv, [IdemNext]_idemVars PROVE IdemInv'
    OBVIOUS
  <1>1. CASE UNCHANGED idemVars
    BY <1>1 DEF idemVars, IdemInv, IdemTyped, RanIsOver, BegunIsPaidFor, Begun, Held, Freed
  <1> QED
    BY <1>1, ReadKeyKeepsInv, MarkKeyKeepsInv, HandlerCommitsKeepsInv, HandlerReturnsKeepsInv,
       StoreResponseKeepsInv,
       HandlerThrowsKeepsInv, RequestDiesKeepsInv, KeyExpiresKeepsInv DEF IdemNext

\* IdempotencyInterceptor: the handlers behind one key commit once, and once more for each
\* marker that ran out and each handler that threw after its commit, however many
\* requests share the key.
THEOREM RepeatsHaveCauses == IdemSpec => []RepeatHasCause
  BY IdemInitInv, IdemStepInv, IdemInvImplies, PTL DEF IdemSpec

\* The records behind a key stay what the interceptor can read back.
THEOREM KeysTyping == IdemSpec => []IdemTypeOK
  <1>1. IdemInv => IdemTypeOK
    BY DEF IdemInv, IdemTyped, IdemTypeOK, RequestRow, Markers
  <1> QED
    BY <1>1, IdemInitInv, IdemStepInv, PTL DEF IdemSpec

-----------------------------------------------------------------------------
(* The numbers of the complaints.                                          *)

FilingRow == [stage : {"idle", "seeding", "inserting", "inserted", "numbered", "stored", "aborted"},
              number : Nat, seed : Nat]
FilingTyped ==
  /\ counter \in [here : BOOLEAN, last : Nat]
  /\ lockedBy \in Filings \union {NoFiling}
  /\ filing \in [Filings -> FilingRow]

StoredFilings == {f \in Filings : FilingAt(f, "stored")}
LastNumber == Legacy + Cardinality(StoredFilings)

\* The counter, once it is there, and the stored complaints agree on the last number.
CounterCounts ==
  /\ IF counter.here THEN counter.last = LastNumber ELSE StoredFilings = {}
  /\ Numbers = (Legacy + 1)..LastNumber

\* A transaction has its number under the lock of the row, and a seed is only used for a
\* counter that is not there.
NumberOK(f) ==
  /\ FilingAt(f, "numbered") => lockedBy = f /\ filing[f].number = LastNumber + 1
  /\ FilingAt(f, "inserted") /\ lockedBy = f => ~counter.here /\ filing[f].seed = Legacy
  /\ FilingAt(f, "inserting") /\ ~counter.here => filing[f].seed = Legacy

FilingInv == FilingTyped /\ CounterCounts /\ \A f \in Filings : NumberOK(f)

LEMMA StoredFinite ==
  /\ IsFiniteSet(StoredFilings) /\ Cardinality(StoredFilings) \in Nat
  /\ LastNumber \in Nat /\ LastNumber >= Legacy /\ Legacy \in Nat
  <1>1. StoredFilings \in SUBSET Filings
    BY DEF StoredFilings
  <1>2. IsFiniteSet(StoredFilings) /\ Cardinality(StoredFilings) \in Nat
    BY <1>1, CommunityAssumption, FS_Subset, FS_CardinalityType DEF CommunityAssumption
  <1> QED
    BY <1>2, CommunityAssumption DEF CommunityAssumption, LastNumber

LEMMA FilingInvImplies == FilingInv => CorrelativesGapless
  <1> SUFFICES ASSUME FilingInv PROVE CorrelativesGapless
    OBVIOUS
  <1>1. Numbers = (Legacy + 1)..(Legacy + Cardinality(StoredFilings))
    BY DEF FilingInv, CounterCounts, LastNumber
  <1>2. Cardinality(StoredFilings) \in Nat /\ Legacy \in Nat
    BY StoredFinite
  <1>3. Cardinality(Numbers) = Cardinality(StoredFilings)
    BY <1>1, <1>2, FS_Interval
  <1> QED
    BY <1>1, <1>3 DEF CorrelativesGapless, StoredFilings

LEMMA FilingInitInv == CommunityInit => FilingInv
  <1> SUFFICES ASSUME CommunityInit PROVE FilingInv
    OBVIOUS
  <1> USE CommunityAssumption DEF CommunityAssumption
  <1>1. FilingTyped
    BY DEF FilingTyped, FilingRow, CommunityInit, NoCounter
  <1>2. StoredFilings = {} /\ Numbers = {}
    BY DEF StoredFilings, Numbers, FilingAt, CommunityInit
  <1>3. LastNumber = Legacy
    BY <1>2, FS_EmptySet DEF LastNumber
  <1>4. CounterCounts
    BY <1>2, <1>3 DEF CounterCounts, CommunityInit, NoCounter
  <1> QED
    BY <1>1, <1>4 DEF FilingInv, NumberOK, FilingAt, CommunityInit

\* The largest number is the last one.
LEMMA LargestIsLast ==
  ASSUME FilingInv
  PROVE  Largest = LastNumber
  <1>1. Numbers \union {Legacy} = Legacy..LastNumber
    BY StoredFinite DEF FilingInv, CounterCounts
  <1>2. LastNumber \in Legacy..LastNumber /\ \A n \in Legacy..LastNumber : LastNumber >= n /\ n \in Nat
    BY StoredFinite
  <1>3. \A n \in Legacy..LastNumber : (\A m \in Legacy..LastNumber : n >= m) => n = LastNumber
    BY <1>2
  <1>4. Max(Legacy..LastNumber) = LastNumber
    BY <1>2, <1>3 DEF Max
  <1> QED
    BY <1>1, <1>4 DEF Largest

\* A transaction goes on, and neither it nor the row is committed.
LEMMA FilingMoves ==
  ASSUME FilingInv, NEW f \in Filings, NEW row \in FilingRow, ~FilingAt(f, "stored"),
         row.stage # "stored", filing' = [filing EXCEPT ![f] = row], counter' = counter,
         lockedBy' \in Filings \union {NoFiling},
         \A g \in Filings \ {f} : lockedBy' = g <=> lockedBy = g,
         row.stage = "numbered" => lockedBy' = f /\ row.number = LastNumber + 1,
         row.stage = "inserted" /\ lockedBy' = f => ~counter.here /\ row.seed = Legacy,
         row.stage = "inserting" /\ ~counter.here => row.seed = Legacy
  PROVE  FilingInv'
  <1>1. filing'[f] = row /\ \A g \in Filings \ {f} : filing'[g] = filing[g]
    BY DEF FilingInv, FilingTyped
  <1>2. FilingTyped'
    BY DEF FilingInv, FilingTyped
  <1>3. StoredFilings' = StoredFilings /\ Numbers' = Numbers
    BY <1>1 DEF StoredFilings, Numbers, FilingAt
  <1>4. LastNumber' = LastNumber
    BY <1>3 DEF LastNumber
  <1>5. CounterCounts'
    BY <1>3, <1>4 DEF FilingInv, CounterCounts
  <1>6. ASSUME NEW g \in Filings PROVE NumberOK(g)'
    <2>1. CASE g = f
      BY <1>1, <1>4, <2>1 DEF NumberOK, FilingAt
    <2>2. CASE g # f
      BY <1>1, <1>4, <2>2 DEF FilingInv, NumberOK, FilingAt
    <2> QED BY <2>1, <2>2
  <1> QED
    BY <1>2, <1>5, <1>6 DEF FilingInv

LEMMA IncrementKeepsInv ==
  ASSUME FilingInv, NEW f \in Filings, ~FilingAt(f, "stored"), Increment(f), counter' = counter
  PROVE  FilingInv'
  <1> DEFINE row == [filing[f] EXCEPT !.stage = "numbered", !.number = LastNumber + 1]
  <1>1. counter.last = LastNumber /\ lockedBy = NoFiling /\ lockedBy' = f /\ NoFiling \notin Filings
    BY CommunityAssumption DEF Increment, FilingInv, CounterCounts, CommunityAssumption
  <1>2. row \in FilingRow /\ row.stage = "numbered" /\ row.number = LastNumber + 1
    <2>1. LastNumber + 1 \in Nat
      BY StoredFinite
    <2>2. filing[f] \in FilingRow
      BY DEF FilingInv, FilingTyped
    <2> QED BY <2>1, <2>2 DEF FilingRow
  <1>3. filing' = [filing EXCEPT ![f] = row]
    BY <1>1 DEF Increment, FilingInv, FilingTyped
  <1> HIDE DEF row
  <1> QED
    BY <1>1, <1>2, <1>3, FilingMoves

\* Of a transaction all fields but the stage and the seed stay.
LEMMA StageMoves ==
  ASSUME FilingInv, NEW f \in Filings, NEW stage, NEW seed \in Nat,
         stage \in {"seeding", "inserting", "inserted", "aborted"},
         filing' = [filing EXCEPT ![f].stage = stage, ![f].seed = seed],
         ~FilingAt(f, "stored"), counter' = counter,
         lockedBy' \in Filings \union {NoFiling},
         \A g \in Filings \ {f} : lockedBy' = g <=> lockedBy = g,
         stage = "inserted" /\ lockedBy' = f => ~counter.here /\ seed = Legacy,
         stage = "inserting" /\ ~counter.here => seed = Legacy
  PROVE  FilingInv'
  <1> DEFINE row == [filing[f] EXCEPT !.stage = stage, !.seed = seed]
  <1>1. row \in FilingRow /\ row.stage = stage /\ row.seed = seed
    BY DEF FilingInv, FilingTyped, FilingRow
  <1>2. filing' = [filing EXCEPT ![f] = row]
    BY DEF FilingInv, FilingTyped
  <1> HIDE DEF row
  <1> QED
    BY <1>1, <1>2, FilingMoves

LEMMA CommitKeepsInv ==
  ASSUME FilingInv, NEW f \in Filings, CommitFiling(f)
  PROVE  FilingInv'
  <1> DEFINE row == [filing[f] EXCEPT !.stage = "stored"]
  <1>1. /\ FilingAt(f, "numbered") /\ lockedBy = f /\ filing[f].number = LastNumber + 1
        /\ counter' = [here |-> TRUE, last |-> filing[f].number] /\ lockedBy' = NoFiling
    BY DEF CommitFiling, FilingInv, NumberOK
  <1>2. row \in FilingRow /\ row.stage = "stored" /\ row.number = LastNumber + 1
    BY <1>1 DEF FilingInv, FilingTyped, FilingRow
  <1>3. filing' = [filing EXCEPT ![f] = row]
    BY DEF CommitFiling, FilingInv, FilingTyped
  <1> HIDE DEF row
  <1>4. filing'[f] = row /\ \A g \in Filings \ {f} : filing'[g] = filing[g]
    BY <1>3 DEF FilingInv, FilingTyped
  <1>5. FilingTyped'
    BY <1>1, <1>2, <1>3, StoredFinite DEF FilingInv, FilingTyped
  <1>6. StoredFilings' = StoredFilings \union {f} /\ f \notin StoredFilings
        /\ Numbers' = Numbers \union {LastNumber + 1}
    BY <1>1, <1>2, <1>4 DEF StoredFilings, Numbers, FilingAt
  <1>7. Cardinality(StoredFilings') = Cardinality(StoredFilings) + 1
    BY <1>6, StoredFinite, FS_AddElement
  <1>8. LastNumber' = LastNumber + 1
    BY <1>7, StoredFinite DEF LastNumber
  <1>9. CounterCounts'
    <2>1. (Legacy + 1)..(LastNumber + 1) = (Legacy + 1)..LastNumber \union {LastNumber + 1}
      BY StoredFinite
    <2> QED BY <1>1, <1>6, <1>8, <2>1 DEF FilingInv, CounterCounts
  <1>10. ASSUME NEW g \in Filings PROVE NumberOK(g)'
    <2>1. CASE g = f
      BY <1>2, <1>4, <2>1 DEF NumberOK, FilingAt
    <2>2. CASE g # f
      BY <1>1, <1>4, <2>2, CommunityAssumption DEF FilingInv, NumberOK, FilingAt, CommunityAssumption
    <2> QED BY <2>1, <2>2
  <1> QED
    BY <1>5, <1>9, <1>10 DEF FilingInv

LEMMA FilingStepInv == FilingInv /\ [CommunityNext]_communityVars => FilingInv'
  <1> SUFFICES ASSUME FilingInv, [CommunityNext]_communityVars PROVE FilingInv'
    OBVIOUS
  <1>1. \A f \in Filings : filing[f] \in FilingRow
    BY DEF FilingInv, FilingTyped
  <1>2. ASSUME NEW f \in Filings
        PROVE  \A stage : [filing EXCEPT ![f].stage = stage]
                 = [filing EXCEPT ![f].stage = stage, ![f].seed = filing[f].seed]
    BY <1>1 DEF FilingInv, FilingTyped, FilingRow
  <1>3. ASSUME NEW f \in Filings, StartFiling(f) PROVE FilingInv'
    <2>1. CASE Increment(f) /\ UNCHANGED counter
      BY <1>3, <2>1, IncrementKeepsInv DEF StartFiling, FilingAt
    <2>2. CASE filing' = [filing EXCEPT ![f].stage = "seeding"] /\ UNCHANGED <<counter, lockedBy>>
      <3>1. filing[f].seed \in Nat /\ lockedBy \in Filings \union {NoFiling} /\ ~FilingAt(f, "stored")
        BY <1>1, <1>3 DEF FilingRow, FilingInv, FilingTyped, StartFiling, FilingAt
      <3>2. filing' = [filing EXCEPT ![f].stage = "seeding", ![f].seed = filing[f].seed]
        BY <1>2, <2>2
      <3> QED BY <2>2, <3>1, <3>2, StageMoves
    <2> QED BY <1>3, <2>1, <2>2 DEF StartFiling
  <1>4. ASSUME NEW f \in Filings, ReadMaximum(f) PROVE FilingInv'
    <2>1. /\ filing' = [filing EXCEPT ![f].stage = "inserting", ![f].seed = LastNumber]
          /\ UNCHANGED <<counter, lockedBy>> /\ ~FilingAt(f, "stored")
          /\ lockedBy \in Filings \union {NoFiling}
      BY <1>4, LargestIsLast DEF ReadMaximum, FilingAt, FilingInv, FilingTyped
    <2>2. LastNumber \in Nat /\ (~counter.here => LastNumber = Legacy)
      BY StoredFinite, FS_EmptySet DEF FilingInv, CounterCounts, LastNumber
    <2> QED BY <2>1, <2>2, StageMoves
  <1>5. ASSUME NEW f \in Filings, InsertCounter(f) PROVE FilingInv'
    <2>1. /\ filing' = [filing EXCEPT ![f].stage = "inserted", ![f].seed = filing[f].seed]
          /\ lockedBy = NoFiling /\ lockedBy' = (IF counter.here THEN NoFiling ELSE f)
          /\ counter' = counter /\ FilingAt(f, "inserting")
      BY <1>2, <1>5 DEF InsertCounter
    <2>2. filing[f].seed \in Nat /\ (~counter.here => filing[f].seed = Legacy) /\ NumberOK(f)
      BY <1>1, <2>1 DEF FilingRow, FilingInv, NumberOK
    <2>3. ~FilingAt(f, "stored") /\ NoFiling \notin Filings
      BY <2>1, CommunityAssumption DEF FilingAt, CommunityAssumption
    <2> QED BY <2>1, <2>2, <2>3, StageMoves
  <1>6. ASSUME NEW f \in Filings, SecondIncrement(f) PROVE FilingInv'
    <2>1. FilingAt(f, "inserted") /\ counter' = counter /\ ~FilingAt(f, "stored")
      BY <1>6 DEF SecondIncrement, FilingAt
    <2>2. CASE Increment(f)
      BY <2>1, <2>2, IncrementKeepsInv
    <2>3. CASE /\ lockedBy = f
               /\ filing' = [filing EXCEPT ![f].stage = "numbered", ![f].number = filing[f].seed + 1]
               /\ UNCHANGED lockedBy
      <3>1. ~counter.here /\ filing[f].seed = Legacy
        BY <2>1, <2>3 DEF FilingInv, NumberOK
      <3>2. LastNumber = Legacy
        BY <3>1, StoredFinite, FS_EmptySet DEF FilingInv, CounterCounts, LastNumber
      <3> DEFINE row == [filing[f] EXCEPT !.stage = "numbered", !.number = LastNumber + 1]
      <3>3. row \in FilingRow /\ row.stage = "numbered" /\ row.number = LastNumber + 1
        <4>1. LastNumber + 1 \in Nat
          BY StoredFinite
        <4> QED BY <1>1, <4>1 DEF FilingRow
      <3>4. filing' = [filing EXCEPT ![f] = row]
        BY <2>3, <3>1, <3>2 DEF FilingInv, FilingTyped
      <3> HIDE DEF row
      <3> QED BY <2>1, <2>3, <3>3, <3>4, FilingMoves
    <2> QED BY <1>6, <2>2, <2>3 DEF SecondIncrement
  <1>7. ASSUME NEW f \in Filings, AbortFiling(f) PROVE FilingInv'
    <2>1. /\ filing' = [filing EXCEPT ![f].stage = "aborted", ![f].seed = filing[f].seed]
          /\ lockedBy' = (IF lockedBy = f THEN NoFiling ELSE lockedBy)
          /\ counter' = counter /\ ~FilingAt(f, "stored")
      BY <1>2, <1>7 DEF AbortFiling, AfterAbort, FilingAt
    <2>2. filing[f].seed \in Nat /\ lockedBy \in Filings \union {NoFiling}
      BY <1>1 DEF FilingRow, FilingInv, FilingTyped
    <2>3. NoFiling \notin Filings
      BY CommunityAssumption DEF CommunityAssumption
    <2> QED BY <2>1, <2>2, <2>3, StageMoves
  <1>8. CASE UNCHANGED <<counter, lockedBy, filing>>
    BY <1>8 DEF FilingInv, FilingTyped, CounterCounts, NumberOK, LastNumber, StoredFilings, Numbers, FilingAt
  <1>9. ASSUME \/ \E r \in Replies, f \in Filings : ReadForReply(r, f)
               \/ \E r \in Replies, status \in {"OPEN", "IN_PROGRESS", "RESOLVED", "CLOSED"} :
                     WriteReply(r, status)
               \/ \E h \in Households : MissionDone(h) \/ KycApproved(h)
               \/ \E c \in Claims, h \in Households, reward \in Stages : ReadKyc(c, h, reward)
               \/ \E c \in Claims : CountMissions(c) \/ CheckClaimed(c) \/ StoreReward(c)
        PROVE  UNCHANGED <<counter, lockedBy, filing>>
    BY <1>9 DEF ReadForReply, WriteReply, MissionDone, KycApproved, ReadKyc, CountMissions,
                CheckClaimed, StoreReward, complaintVars
  <1>10. CASE UNCHANGED communityVars
    BY <1>8, <1>10 DEF communityVars
  <1> QED
    BY <1>3, <1>4, <1>5, <1>6, <1>7, <1>8, <1>9, <1>10, CommitKeepsInv DEF CommunityNext

\* generateCorrelativeNumber: the stored complaints of a year are numbered from the legacy
\* ones on, without a gap and without a repetition.
THEOREM CorrelativesAreGapless == CommunitySpec => []CorrelativesGapless
  BY FilingInitInv, FilingStepInv, FilingInvImplies, PTL DEF CommunitySpec

ComplaintRow == [status : {"none", "OPEN", "IN_PROGRESS", "RESOLVED", "CLOSED"}, responded : BOOLEAN]
ReplyRow == [stage : {"idle", "read"}, of : Filings \union {NoReply.of}, responded : BOOLEAN]
ForestRow == [approved : BOOLEAN, missions : 0..Missions]
ClaimRow == [stage : {"idle", "count", "check", "reward", "paid", "refused"},
             household : Households \union {NoClaim.household}, reward : Stages]

NumbersBounded == \A f \in Filings : filing[f].number <= Legacy + Cardinality(Filings)
CommunityInv ==
  /\ FilingInv /\ NumbersBounded
  /\ complaint \in [Filings -> ComplaintRow] /\ reply \in [Replies -> ReplyRow]
  /\ forest \in [Households -> ForestRow] /\ claim \in [Claims -> ClaimRow]

LEMMA CommunityInvImplies == CommunityInv => CommunityTypeOK
  <1> SUFFICES ASSUME CommunityInv PROVE CommunityTypeOK
    OBVIOUS
  <1>1. \A f \in Filings : /\ filing[f] \in FilingRow /\ filing[f].number <= Legacy + Cardinality(Filings)
                          /\ complaint[f] \in ComplaintRow
    BY DEF CommunityInv, FilingInv, FilingTyped, NumbersBounded
  <1>2. Legacy \in Nat /\ Cardinality(Filings) \in Nat /\ Missions \in Nat
    BY CommunityAssumption, FS_CardinalityType DEF CommunityAssumption
  <1>3. \A f \in Filings : filing[f].number \in 0..(Legacy + Cardinality(Filings))
    BY <1>1, <1>2 DEF FilingRow
  <1> QED
    BY <1>1, <1>3 DEF CommunityTypeOK, CommunityInv, FilingInv, FilingTyped, FilingRow,
                      ComplaintRow, ReplyRow, ForestRow, ClaimRow

LEMMA CommunityInitInv == CommunityInit => CommunityInv
  <1> SUFFICES ASSUME CommunityInit PROVE CommunityInv
    OBVIOUS
  <1>1. Legacy \in Nat /\ Cardinality(Filings) \in Nat /\ Missions \in Nat
    BY CommunityAssumption, FS_CardinalityType DEF CommunityAssumption
  <1>2. NumbersBounded
    BY <1>1 DEF NumbersBounded, CommunityInit
  <1>3. NoReply \in ReplyRow /\ NoClaim \in ClaimRow /\ Unanswered \in ComplaintRow
    BY DEF NoReply, NoClaim, Unanswered, ReplyRow, ClaimRow, ComplaintRow, Stages
  <1> QED
    BY <1>1, <1>2, <1>3, FilingInitInv DEF CommunityInit, CommunityInv, ForestRow

\* A number that is taken under the lock is one of those the transactions can reach.
LEMMA NumbersStayBounded ==
  ASSUME FilingInv, NumbersBounded, FilingInv',
         \A f \in Filings : filing'[f].number = filing[f].number \/ FilingAt(f, "numbered")'
  PROVE  NumbersBounded'
  <1> SUFFICES ASSUME NEW f \in Filings, FilingAt(f, "numbered")'
               PROVE  filing'[f].number <= Legacy + Cardinality(Filings)
    BY DEF NumbersBounded
  <1> DEFINE S == StoredFilings'
  <1>1. filing'[f].number = Legacy + Cardinality(S) + 1
    BY DEF FilingInv, NumberOK, LastNumber
  <1>2. S \in SUBSET Filings /\ f \notin S /\ IsFiniteSet(Filings) /\ Legacy \in Nat
    BY CommunityAssumption DEF StoredFilings, FilingAt, CommunityAssumption
  <1> HIDE DEF S
  <1>3. IsFiniteSet(S) /\ Cardinality(S \union {f}) = Cardinality(S) + 1
    BY <1>2, FS_Subset, FS_AddElement
  <1>4. /\ Cardinality(S \union {f}) <= Cardinality(Filings)
        /\ Cardinality(S) \in Nat /\ Cardinality(Filings) \in Nat
    BY <1>2, <1>3, FS_Subset, FS_CardinalityType
  <1> QED
    BY <1>1, <1>2, <1>3, <1>4

LEMMA CommunityStepInv == CommunityInv /\ [CommunityNext]_communityVars => CommunityInv'
  <1> SUFFICES ASSUME CommunityInv, [CommunityNext]_communityVars PROVE CommunityInv'
    OBVIOUS
  <1>1. /\ complaint \in [Filings -> ComplaintRow] /\ reply \in [Replies -> ReplyRow]
        /\ forest \in [Households -> ForestRow] /\ claim \in [Claims -> ClaimRow]
        /\ filing \in [Filings -> FilingRow]
        /\ NoReply \in ReplyRow
    BY DEF CommunityInv, FilingInv, FilingTyped, NoReply, ReplyRow
  <1>2. FilingInv'
    BY FilingStepInv DEF CommunityInv
  <1>3. ASSUME \A f \in Filings : filing'[f].number = filing[f].number \/ FilingAt(f, "numbered")',
               complaint' \in [Filings -> ComplaintRow], reply' \in [Replies -> ReplyRow],
               forest' \in [Households -> ForestRow], claim' \in [Claims -> ClaimRow]
        PROVE  CommunityInv'
    BY <1>2, <1>3, NumbersStayBounded DEF CommunityInv
  <1>4. \A f \in Filings : filing[f] \in FilingRow
    BY <1>1
  <1>5. ASSUME NEW f \in Filings,
               \/ StartFiling(f) \/ ReadMaximum(f) \/ InsertCounter(f) \/ SecondIncrement(f) \/ AbortFiling(f)
        PROVE  CommunityInv'
    <2>1. \A g \in Filings : filing'[g].number = filing[g].number \/ FilingAt(g, "numbered")'
      BY <1>1, <1>4, <1>5 DEF StartFiling, ReadMaximum, InsertCounter, SecondIncrement, AbortFiling,
                              Increment, FilingAt, FilingRow
    <2>2. UNCHANGED <<complaint, reply, forest, claim>>
      BY <1>5 DEF StartFiling, ReadMaximum, InsertCounter, SecondIncrement, AbortFiling, forestVars
    <2> QED BY <1>1, <1>3, <2>1, <2>2
  <1>6. ASSUME NEW f \in Filings, CommitFiling(f) PROVE CommunityInv'
    <2>1. \A g \in Filings : filing'[g].number = filing[g].number
      BY <1>1, <1>4, <1>6 DEF CommitFiling, FilingRow
    <2>2. UNCHANGED <<reply, forest, claim>> /\ complaint' \in [Filings -> ComplaintRow]
      BY <1>1, <1>6 DEF CommitFiling, forestVars, ComplaintRow
    <2> QED BY <1>1, <1>3, <2>1, <2>2
  <1>7. ASSUME NEW r \in Replies, NEW f \in Filings, ReadForReply(r, f) PROVE CommunityInv'
    <2>1. complaint[f].responded \in BOOLEAN
      BY <1>1 DEF ComplaintRow
    <2>2. reply' \in [Replies -> ReplyRow]
      BY <1>1, <1>7, <2>1 DEF ReadForReply, ReplyRow
    <2> QED BY <1>1, <1>3, <1>7, <2>2 DEF ReadForReply, forestVars
  <1>8. ASSUME NEW r \in Replies, NEW status \in {"OPEN", "IN_PROGRESS", "RESOLVED", "CLOSED"},
               WriteReply(r, status)
        PROVE  CommunityInv'
    <2> DEFINE row == [status |-> status,
                       responded |-> status \in {"RESOLVED", "CLOSED"} \/ reply[r].responded]
    <2>1. reply[r].responded \in BOOLEAN
      BY <1>1 DEF ReplyRow
    <2>2. (status \in {"RESOLVED", "CLOSED"} \/ reply[r].responded) \in BOOLEAN
      OBVIOUS
    <2>3. row \in ComplaintRow
      BY <2>2 DEF ComplaintRow
    <2>4. complaint' = [complaint EXCEPT ![reply[r].of] = row]
      BY <1>8 DEF WriteReply
    <2> HIDE DEF row
    <2>5. complaint' \in [Filings -> ComplaintRow] /\ reply' \in [Replies -> ReplyRow]
      BY <1>1, <1>8, <2>3, <2>4 DEF WriteReply
    <2> QED BY <1>1, <1>3, <1>8, <2>5 DEF WriteReply, forestVars
  <1>9. ASSUME NEW h \in Households, MissionDone(h) \/ KycApproved(h) PROVE CommunityInv'
    <2>1. forest[h] \in ForestRow /\ Missions \in Nat
      BY <1>1, CommunityAssumption DEF CommunityAssumption
    <2>2. forest' \in [Households -> ForestRow]
      <3>1. CASE MissionDone(h)
        <4>1. forest[h].missions + 1 \in 0..Missions
          BY <2>1, <3>1 DEF ForestRow, MissionDone
        <4> QED BY <1>1, <2>1, <3>1, <4>1 DEF ForestRow, MissionDone
      <3>2. CASE KycApproved(h)
        BY <1>1, <2>1, <3>2 DEF ForestRow, KycApproved
      <3> QED BY <1>9, <3>1, <3>2
    <2> QED BY <1>1, <1>3, <1>9, <2>2 DEF MissionDone, KycApproved, complaintVars
  <1>10. ASSUME NEW c \in Claims, NEW h \in Households, NEW reward \in Stages, ReadKyc(c, h, reward)
         PROVE  CommunityInv'
    <2>1. claim' \in [Claims -> ClaimRow]
      BY <1>1, <1>10 DEF ReadKyc, ClaimRow
    <2> QED BY <1>1, <1>3, <1>10, <2>1 DEF ReadKyc, complaintVars
  <1>11. ASSUME NEW c \in Claims, CountMissions(c) \/ CheckClaimed(c) \/ StoreReward(c) PROVE CommunityInv'
    <2>1. claim' \in [Claims -> ClaimRow] /\ UNCHANGED <<complaint, reply, filing, forest>>
      BY <1>1, <1>11 DEF CountMissions, CheckClaimed, StoreReward, ClaimRow, complaintVars
    <2> QED BY <1>1, <1>3, <2>1
  <1>12. CASE UNCHANGED communityVars
    BY <1>1, <1>3, <1>12 DEF communityVars
  <1> QED
    BY <1>5, <1>6, <1>7, <1>8, <1>9, <1>10, <1>11, <1>12 DEF CommunityNext

\* ComplaintsService, GamificationService: rows stay well formed, and no transaction takes
\* a number beyond those that all of them together can reach.
THEOREM CommunityTyping == CommunitySpec => []CommunityTypeOK
  BY CommunityInitInv, CommunityStepInv, CommunityInvImplies, PTL DEF CommunitySpec

-----------------------------------------------------------------------------
(* The mint of a deposit.                                                  *)

DepositRow == [status : {"none", "checked", "PENDING", "COMPLETED", "FAILED"}, payer : Payers,
               amount : Nat, formToken : BOOLEAN,
               blockchainStatus : {"PENDING", "MINTED", "FAILED_BLOCKCHAIN"}]
NoticeRow == [stage : {"none", "sent", "read", "completed", "answered"}, order : Orders,
              paid : BOOLEAN, died : BOOLEAN]
RetryRow == [stage : {"none", "read", "added", "answered"}, order : Orders]
MintRow == [state : {"none", "waiting", "active", "applied", "done", "failed"},
            attemptsMade : Nat, stalls : Nat]
DepositsTyped ==
  /\ deposit \in [Orders -> DepositRow]
  /\ notice \in [Notices -> NoticeRow]
  /\ retry \in [Remints -> RetryRow]
  /\ mintJob \in [Notices \union Remints -> MintRow]

\* A delivery whose handler has added a job, or is about to.
Adds(n) == notice[n].stage = "completed" \/ mintJob[n].state # "none"
Answers(n, o) == notice[n].order = o
Paying(n) == notice[n].stage = "read" /\ notice[n].paid
Completed(o) == deposit[o].status = "COMPLETED"

\* One handler adds the job of an order: the one that completes the row, when none that
\* has read it before goes on.
OneAdder(o) ==
  /\ \A n \in Notices : Answers(n, o) /\ Adds(n) => Completed(o)
  /\ \A n \in Notices : Answers(n, o) /\ Paying(n) => ~Completed(o)
  /\ \A n, m \in Notices : Answers(n, o) /\ Adds(n) /\ Answers(m, o) /\ Adds(m) => n = m

UnsentAddsNothing == \A n \in Notices : notice[n].stage = "none" => mintJob[n].state = "none"

DepositsInv ==
  /\ DepositsTyped /\ UnsentAddsNothing
  /\ \A o \in Orders \ overtaken : OneAdder(o)

LEMMA DepositsInvImplies == DepositsInv => SecondMintHasCause
  <1> SUFFICES ASSUME DepositsInv, NEW o \in Orders \ overtaken
               PROVE  Cardinality({n \in Notices : notice[n].order = o /\ mintJob[n].state # "none"}) <= 1
    BY DEF SecondMintHasCause
  <1> DEFINE S == {n \in Notices : notice[n].order = o /\ mintJob[n].state # "none"}
  <1>1. \A n, m \in S : n = m
    BY DEF DepositsInv, OneAdder, Answers, Adds
  <1>2. S = {} \/ \E n : S = {n}
    BY <1>1
  <1> HIDE DEF S
  <1>3. Cardinality(S) \in {0, 1}
    BY <1>2, FS_EmptySet, FS_Singleton
  <1> QED
    BY <1>3 DEF S

LEMMA DepositsInitInv == DepositsInit => DepositsInv
  <1> SUFFICES ASSUME DepositsInit PROVE DepositsInv
    OBVIOUS
  <1>1. (CHOOSE p \in Payers : TRUE) \in Payers /\ (CHOOSE o \in Orders : TRUE) \in Orders
    BY DepositsAssumption DEF DepositsAssumption
  <1>2. NoDeposit \in DepositRow /\ NoNotice \in NoticeRow /\ NoRetry \in RetryRow /\ NoMint \in MintRow
    BY <1>1 DEF NoDeposit, NoNotice, NoRetry, NoMint, DepositRow, NoticeRow, RetryRow, MintRow
  <1>3. DepositsTyped
    BY <1>2 DEF DepositsTyped, DepositsInit
  <1>4. \A n \in Notices : ~Adds(n) /\ ~Paying(n) /\ mintJob[n].state = "none"
    BY DEF DepositsInit, NoNotice, NoMint, Adds, Paying
  <1> QED
    BY <1>3, <1>4 DEF DepositsInv, OneAdder, UnsentAddsNothing

\* Nothing is completed, nobody comes to add a job, and nobody reads a completed row as open.
LEMMA StandingKept ==
  ASSUME DepositsInv, DepositsTyped', UnsentAddsNothing', overtaken \subseteq overtaken',
         \A o \in Orders : Completed(o)' <=> Completed(o),
         \A n \in Notices : Adds(n)' => Adds(n) /\ notice'[n].order = notice[n].order,
         \A n \in Notices : Paying(n)' => \/ Paying(n) /\ notice'[n].order = notice[n].order
                                         \/ ~Completed(notice'[n].order)
  PROVE  DepositsInv'
  <1> SUFFICES ASSUME NEW o \in Orders \ overtaken' PROVE OneAdder(o)'
    BY DEF DepositsInv
  <1>1. OneAdder(o)
    BY DEF DepositsInv
  <1> QED
    BY <1>1 DEF OneAdder, Answers

\* Only rows, calls and jobs that are there already change.
LEMMA RowsMove ==
  ASSUME DepositsInv, DepositsTyped', notice' = notice, overtaken' = overtaken,
         \A o \in Orders : Completed(o)' <=> Completed(o),
         \A n \in Notices : mintJob'[n].state = "none" <=> mintJob[n].state = "none"
  PROVE  DepositsInv'
  BY StandingKept DEF DepositsInv, UnsentAddsNothing, Adds, Paying

LEMMA DepositMoves ==
  ASSUME DepositsInv, NEW o \in Orders, NEW row \in DepositRow, deposit' = [deposit EXCEPT ![o] = row],
         row.status = "COMPLETED" <=> deposit[o].status = "COMPLETED",
         UNCHANGED <<notice, retry, mintJob, overtaken>>
  PROVE  DepositsInv'
  <1>1. DepositsTyped'
    BY DEF DepositsInv, DepositsTyped
  <1>2. \A p \in Orders : Completed(p)' <=> Completed(p)
    BY DEF Completed, DepositsInv, DepositsTyped
  <1> QED
    BY <1>1, <1>2, RowsMove

LEMMA OpeningKeepsInv ==
  ASSUME DepositsInv, NEW o \in Orders,
         \/ \E p \in Payers, amount \in MinDeposit..MaxDeposit : CheckDeposit(o, p, amount)
         \/ CreateDeposit(o) \/ StoreFormToken(o)
  PROVE  DepositsInv'
  <1>1. deposit[o] \in DepositRow /\ deposit \in [Orders -> DepositRow]
    BY DEF DepositsInv, DepositsTyped
  <1>2. ASSUME NEW p \in Payers, NEW amount \in MinDeposit..MaxDeposit, CheckDeposit(o, p, amount)
        PROVE  DepositsInv'
    <2> DEFINE row == [deposit[o] EXCEPT !.status = "checked", !.payer = p, !.amount = amount]
    <2>1. amount \in Nat
      BY DepositsAssumption DEF DepositsAssumption
    <2>2. row \in DepositRow /\ row.status = "checked"
      BY <1>1, <2>1 DEF DepositRow
    <2>3. deposit' = [deposit EXCEPT ![o] = row] /\ deposit[o].status # "COMPLETED"
          /\ UNCHANGED <<notice, retry, mintJob, overtaken>>
      BY <1>1, <1>2 DEF CheckDeposit
    <2> HIDE DEF row
    <2> QED BY <2>2, <2>3, DepositMoves
  <1>3. CASE CreateDeposit(o)
    <2> DEFINE row == [deposit[o] EXCEPT !.status = "PENDING"]
    <2>1. row \in DepositRow /\ row.status = "PENDING"
      BY <1>1 DEF DepositRow
    <2>2. deposit' = [deposit EXCEPT ![o] = row] /\ deposit[o].status # "COMPLETED"
          /\ UNCHANGED <<notice, retry, mintJob, overtaken>>
      BY <1>1, <1>3 DEF CreateDeposit
    <2> HIDE DEF row
    <2> QED BY <2>1, <2>2, DepositMoves
  <1>4. CASE StoreFormToken(o)
    <2> DEFINE row == [deposit[o] EXCEPT !.formToken = TRUE]
    <2>1. row \in DepositRow /\ row.status = deposit[o].status
      BY <1>1 DEF DepositRow
    <2>2. deposit' = [deposit EXCEPT ![o] = row] /\ UNCHANGED <<notice, retry, mintJob, overtaken>>
      BY <1>1, <1>4 DEF StoreFormToken
    <2> HIDE DEF row
    <2> QED BY <2>1, <2>2, DepositMoves
  <1> QED
    BY <1>2, <1>3, <1>4

\* A handler, or the gateway, moves a delivery on, and at most its own job is added.
LEMMA NoticeMoves ==
  ASSUME DepositsInv, NEW n \in Notices, NEW row \in NoticeRow, notice' = [notice EXCEPT ![n] = row],
         row.stage # "none", mintJob' \in [Notices \union Remints -> MintRow],
         \A m \in Notices \ {n} : mintJob'[m] = mintJob[m],
         deposit' \in [Orders -> DepositRow], \A o \in Orders : Completed(o)' <=> Completed(o),
         UNCHANGED <<retry, overtaken>>,
         row.stage = "completed" \/ mintJob'[n].state # "none" => Adds(n) /\ row.order = notice[n].order,
         row.stage = "read" => ~Completed(row.order)
  PROVE  DepositsInv'
  <1>1. notice'[n] = row /\ \A m \in Notices \ {n} : notice'[m] = notice[m]
    BY DEF DepositsInv, DepositsTyped
  <1>2. DepositsTyped'
    BY DEF DepositsInv, DepositsTyped
  <1>3. UnsentAddsNothing'
    BY <1>1 DEF DepositsInv, UnsentAddsNothing
  <1>4. ASSUME NEW m \in Notices
        PROVE  /\ Adds(m)' => Adds(m) /\ notice'[m].order = notice[m].order
               /\ Paying(m)' => \/ Paying(m) /\ notice'[m].order = notice[m].order
                               \/ ~Completed(notice'[m].order)
    BY <1>1 DEF Adds, Paying
  <1> QED
    BY <1>2, <1>3, <1>4, StandingKept

LEMMA SendingKeepsInv ==
  ASSUME DepositsInv, NEW n \in Notices, NEW o \in Orders, NEW paid \in BOOLEAN, Sent(n, o, paid),
         UNCHANGED <<deposit, mintJob, retry, overtaken>>
  PROVE  DepositsInv'
  <1> DEFINE row == [NoNotice EXCEPT !.stage = "sent", !.order = o, !.paid = paid]
  <1>1. row \in NoticeRow /\ row.stage = "sent" /\ notice' = [notice EXCEPT ![n] = row]
    BY DEF Sent, NoNotice, NoticeRow
  <1>2. mintJob[n].state = "none"
    BY DEF Sent, DepositsInv, UnsentAddsNothing
  <1> HIDE DEF row
  <1> QED
    BY <1>1, <1>2, NoticeMoves DEF DepositsInv, DepositsTyped, Completed

LEMMA HandlingKeepsInv ==
  ASSUME DepositsInv, NEW n \in Notices, ReadNotice(n) \/ HandlerDies(n)
  PROVE  DepositsInv'
  <1> DEFINE stage == IF ReadNotice(n)
                        THEN IF AlreadyProcessed(notice[n].order) THEN "answered" ELSE "read"
                        ELSE "sent"
             died == IF ReadNotice(n) THEN notice[n].died ELSE TRUE
             row == [notice[n] EXCEPT !.stage = stage, !.died = died]
  <1>1. notice[n] \in NoticeRow /\ notice \in [Notices -> NoticeRow]
    BY DEF DepositsInv, DepositsTyped
  <1>2. /\ row \in NoticeRow /\ row.stage = stage /\ row.order = notice[n].order
        /\ stage \in {"answered", "read", "sent"}
    BY <1>1 DEF NoticeRow
  <1>3. notice' = [notice EXCEPT ![n] = row]
    <2>1. CASE ReadNotice(n)
      <3>1. row = [notice[n] EXCEPT !.stage = stage]
        BY <1>1, <2>1 DEF NoticeRow
      <3> QED BY <1>1, <2>1, <3>1 DEF ReadNotice
    <2>2. CASE ~ReadNotice(n)
      BY <1>1, <2>2 DEF HandlerDies
    <2> QED BY <2>1, <2>2
  <1>4. UNCHANGED <<deposit, mintJob, retry>>
    BY DEF ReadNotice, HandlerDies
  <1>5. overtaken' = overtaken
    BY DEF ReadNotice, HandlerDies
  <1>6. stage = "read" => ~Completed(notice[n].order)
    BY DEF AlreadyProcessed, Completed
  <1> HIDE DEF row, stage, died
  <1>7. row.stage = "completed" \/ mintJob'[n].state # "none" => Adds(n) /\ row.order = notice[n].order
    BY <1>2, <1>4 DEF Adds
  <1>8. row.stage # "none" /\ row.stage # "completed" /\ (row.stage = "read" => ~Completed(row.order))
    BY <1>2, <1>6
  <1>9. \A o \in Orders : Completed(o)' <=> Completed(o)
    BY <1>4 DEF Completed
  <1> QED
    BY <1>2, <1>3, <1>4, <1>5, <1>7, <1>8, <1>9, NoticeMoves DEF DepositsInv, DepositsTyped

LEMMA AddMintKeepsInv ==
  ASSUME DepositsInv, NEW n \in Notices, AddMint(n)
  PROVE  DepositsInv'
  <1>0. PICK o \in Orders : o = notice[n].order
    BY DEF DepositsInv, DepositsTyped, NoticeRow
  <1> DEFINE row == [notice[n] EXCEPT !.stage = "answered"]
  <1>1. /\ notice \in [Notices -> NoticeRow] /\ deposit \in [Orders -> DepositRow]
        /\ mintJob \in [Notices \union Remints -> MintRow]
    BY DEF DepositsInv, DepositsTyped
  <1>2. row \in NoticeRow /\ row.stage = "answered" /\ row.order = notice[n].order
    BY <1>1 DEF NoticeRow
  <1>3. notice' = [notice EXCEPT ![n] = row] /\ Adds(n) /\ UNCHANGED <<retry, overtaken>>
    BY <1>1 DEF AddMint, Adds
  <1>4. /\ deposit' \in {deposit, [deposit EXCEPT ![o].blockchainStatus = "FAILED_BLOCKCHAIN"]}
        /\ mintJob' \in {mintJob, [mintJob EXCEPT ![n].state = "waiting"]}
    BY <1>0 DEF AddMint
  <1>5. deposit' \in [Orders -> DepositRow] /\ \A p \in Orders : Completed(p)' <=> Completed(p)
    BY <1>1, <1>4 DEF DepositRow, Completed
  <1>6. mintJob' \in [Notices \union Remints -> MintRow]
        /\ \A m \in Notices \ {n} : mintJob'[m] = mintJob[m]
    BY <1>1, <1>4 DEF MintRow
  <1> HIDE DEF row
  <1> QED
    BY <1>2, <1>3, <1>5, <1>6, NoticeMoves

\* The two writes of a handler keep the kinds of the rows.
LEMMA MarkingTyped ==
  ASSUME DepositsInv, NEW n \in Notices, NEW o \in Orders, NEW stage \in {"answered", "completed"},
         NEW status \in {"FAILED", "COMPLETED"},
         notice' = [notice EXCEPT ![n].stage = stage], deposit' = [deposit EXCEPT ![o].status = status],
         UNCHANGED <<mintJob, retry>>
  PROVE  DepositsTyped'
  <1> DEFINE said == [notice[n] EXCEPT !.stage = stage]
             row  == [deposit[o] EXCEPT !.status = status]
  <1>1. notice \in [Notices -> NoticeRow] /\ deposit \in [Orders -> DepositRow]
    BY DEF DepositsInv, DepositsTyped
  <1>2. said \in NoticeRow /\ notice' = [notice EXCEPT ![n] = said]
    BY <1>1 DEF NoticeRow
  <1>3. row \in DepositRow /\ deposit' = [deposit EXCEPT ![o] = row]
    BY <1>1 DEF DepositRow
  <1> HIDE DEF said, row
  <1>4. notice' \in [Notices -> NoticeRow] /\ deposit' \in [Orders -> DepositRow]
    BY <1>1, <1>2, <1>3
  <1> QED
    BY <1>4 DEF DepositsInv, DepositsTyped

\* A completed row is written over: its order is overtaken.
LEMMA MarkFailedKeepsInv ==
  ASSUME DepositsInv, NEW n \in Notices, MarkFailed(n)
  PROVE  DepositsInv'
  <1>0. PICK o \in Orders : o = notice[n].order
    BY DEF DepositsInv, DepositsTyped, NoticeRow
  <1>1. /\ notice \in [Notices -> NoticeRow] /\ deposit \in [Orders -> DepositRow]
        /\ notice' = [notice EXCEPT ![n].stage = "answered"]
        /\ deposit' = [deposit EXCEPT ![o].status = "FAILED"]
        /\ overtaken' = (IF Completed(o) THEN overtaken \union {o} ELSE overtaken)
        /\ UNCHANGED <<mintJob, retry>> /\ notice[n].stage = "read"
    BY <1>0 DEF MarkFailed, DepositsInv, DepositsTyped, Completed
  <1>2. DepositsTyped'
    BY <1>1, MarkingTyped
  <1>3. /\ \A m \in Notices : notice'[m].order = notice[m].order
        /\ \A m \in Notices : Adds(m)' <=> Adds(m)
        /\ \A m \in Notices : Paying(m)' => Paying(m)
    BY <1>1 DEF NoticeRow, Adds, Paying
  <1>4. UnsentAddsNothing'
    BY <1>1 DEF DepositsInv, UnsentAddsNothing, NoticeRow
  <1>5. ASSUME NEW p \in Orders \ overtaken' PROVE OneAdder(p)'
    <2>1. OneAdder(p)
      BY <1>1 DEF DepositsInv
    <2>2. p = o => ~Completed(o)
      BY <1>1
    <2>3. Completed(p)' <=> Completed(p)
      BY <1>1, <2>2 DEF Completed, DepositRow
    <2> QED BY <1>3, <2>1, <2>3 DEF OneAdder, Answers
  <1> QED
    BY <1>2, <1>4, <1>5 DEF DepositsInv

\* The handler that completes an open row is the only one, or has crossed another.
LEMMA MarkCompletedKeepsInv ==
  ASSUME DepositsInv, NEW n \in Notices, MarkCompleted(n)
  PROVE  DepositsInv'
  <1>0. PICK o \in Orders : o = notice[n].order
    BY DEF DepositsInv, DepositsTyped, NoticeRow
  <1>1. /\ notice \in [Notices -> NoticeRow] /\ deposit \in [Orders -> DepositRow]
        /\ notice' = [notice EXCEPT ![n].stage = "completed"]
        /\ deposit' = [deposit EXCEPT ![o].status = "COMPLETED"]
        /\ overtaken' = (IF Crosses(n) THEN overtaken \union {o} ELSE overtaken)
        /\ UNCHANGED <<mintJob, retry>> /\ Paying(n)
    BY <1>0 DEF MarkCompleted, DepositsInv, DepositsTyped, Paying
  <1>2. DepositsTyped'
    BY <1>1, MarkingTyped
  <1>3. /\ \A m \in Notices : notice'[m].order = notice[m].order
        /\ \A m \in Notices \ {n} : notice'[m] = notice[m]
        /\ notice'[n].stage = "completed"
    BY <1>1 DEF NoticeRow
  <1>4. UnsentAddsNothing'
    BY <1>1, <1>3 DEF DepositsInv, UnsentAddsNothing
  <1>5. ASSUME NEW p \in Orders \ overtaken' PROVE OneAdder(p)'
    <2>1. OneAdder(p)
      BY <1>1 DEF DepositsInv
    <2>2. CASE p = o
      <3>1. ~Crosses(n)
        BY <1>1, <2>2
      <3>2. \A m \in Notices : Answers(m, p) => ~Adds(m)
        BY <1>0, <1>1, <2>1, <2>2 DEF OneAdder, Answers
      <3>3. \A m \in Notices : Answers(m, p)' /\ Adds(m)' => m = n
        BY <1>1, <1>3, <3>2 DEF Adds, Answers
      <3>4. \A m \in Notices : Answers(m, p)' => ~Paying(m)'
        BY <1>0, <1>3, <2>2, <3>1 DEF Crosses, Paying, Answers
      <3>5. Completed(p)'
        BY <1>1, <2>2 DEF Completed, DepositRow
      <3> QED BY <3>3, <3>4, <3>5 DEF OneAdder
    <2>3. CASE p # o
      <3>1. Completed(p)' <=> Completed(p)
        BY <1>1, <2>3 DEF Completed
      <3>2. \A m \in Notices : Answers(m, p)' => m # n /\ Answers(m, p)
        BY <1>0, <1>3, <2>3 DEF Answers
      <3>3. \A m \in Notices \ {n} : (Adds(m)' <=> Adds(m)) /\ (Paying(m)' <=> Paying(m))
        BY <1>1, <1>3 DEF Adds, Paying
      <3> QED BY <2>1, <3>1, <3>2, <3>3 DEF OneAdder
    <2> QED BY <2>2, <2>3
  <1> QED
    BY <1>2, <1>4, <1>5 DEF DepositsInv

\* A job that is there moves on, or an administrator adds one; a row learns at most how
\* its mint went.
LEMMA JobMoves ==
  ASSUME DepositsInv, NEW j \in Notices \union Remints, NEW row \in MintRow,
         mintJob' = [mintJob EXCEPT ![j] = row],
         row.state # "none", j \in Notices => mintJob[j].state # "none",
         NEW o \in Orders,
         \/ deposit' = deposit
         \/ \E outcome \in {"PENDING", "MINTED", "FAILED_BLOCKCHAIN"} :
              deposit' = [deposit EXCEPT ![o].blockchainStatus = outcome],
         retry' \in [Remints -> RetryRow], UNCHANGED <<notice, overtaken>>
  PROVE  DepositsInv'
  <1>1. /\ deposit \in [Orders -> DepositRow] /\ notice \in [Notices -> NoticeRow]
        /\ mintJob \in [Notices \union Remints -> MintRow]
    BY DEF DepositsInv, DepositsTyped
  <1>2. deposit' \in [Orders -> DepositRow] /\ \A p \in Orders : Completed(p)' <=> Completed(p)
    <2>1. ASSUME NEW outcome \in {"PENDING", "MINTED", "FAILED_BLOCKCHAIN"},
                 deposit' = [deposit EXCEPT ![o].blockchainStatus = outcome]
          PROVE  deposit' \in [Orders -> DepositRow] /\ \A p \in Orders : Completed(p)' <=> Completed(p)
      <3> DEFINE new == [deposit[o] EXCEPT !.blockchainStatus = outcome]
      <3>1. new \in DepositRow /\ new.status = deposit[o].status
        BY <1>1 DEF DepositRow
      <3>2. deposit' = [deposit EXCEPT ![o] = new]
        BY <1>1, <2>1
      <3> HIDE DEF new
      <3> QED BY <1>1, <3>1, <3>2 DEF Completed
    <2>2. CASE deposit' = deposit
      BY <1>1, <2>2 DEF Completed
    <2> QED BY <2>1, <2>2
  <1>3. mintJob' \in [Notices \union Remints -> MintRow]
        /\ \A n \in Notices : mintJob'[n].state = "none" <=> mintJob[n].state = "none"
    BY <1>1
  <1>4. DepositsTyped'
    BY <1>1, <1>2, <1>3 DEF DepositsTyped
  <1> QED
    BY <1>2, <1>3, <1>4, RowsMove

LEMMA RetryKeepsInv ==
  ASSUME DepositsInv, NEW k \in Remints,
         \/ \E o \in Orders : ReadForRetry(k, o)
         \/ AddRetry(k) \/ WritePending(k) \/ RetryFails(k)
  PROVE  DepositsInv'
  <1>1. /\ retry \in [Remints -> RetryRow] /\ retry[k] \in RetryRow /\ retry[k].order \in Orders
        /\ mintJob \in [Notices \union Remints -> MintRow] /\ k \notin Notices
        /\ deposit \in [Orders -> DepositRow]
    BY DepositsAssumption DEF DepositsInv, DepositsTyped, RetryRow, DepositsAssumption
  <1>2. \A stage \in {"read", "added", "answered"} :
          [retry EXCEPT ![k].stage = stage] \in [Remints -> RetryRow]
    BY <1>1 DEF RetryRow
  <1>3. ASSUME retry' \in [Remints -> RetryRow], UNCHANGED <<deposit, mintJob, notice, overtaken>>
        PROVE  DepositsInv'
    <2>1. DepositsTyped'
      BY <1>3 DEF DepositsInv, DepositsTyped
    <2> QED BY <1>3, <2>1, RowsMove DEF Completed
  <1>4. ASSUME NEW o \in Orders, ReadForRetry(k, o) PROVE DepositsInv'
    <2>1. [stage |-> "read", order |-> o] \in RetryRow
      BY DEF RetryRow
    <2>2. retry' \in [Remints -> RetryRow]
      BY <1>1, <1>4, <2>1 DEF ReadForRetry
    <2> QED BY <1>3, <1>4, <2>2 DEF ReadForRetry
  <1>5. CASE AddRetry(k)
    <2> DEFINE row == [mintJob[k] EXCEPT !.state = "waiting"]
    <2>1. row \in MintRow /\ row.state # "none" /\ mintJob' = [mintJob EXCEPT ![k] = row]
      BY <1>1, <1>5 DEF AddRetry, MintRow
    <2>2. retry' \in [Remints -> RetryRow] /\ UNCHANGED <<deposit, notice, overtaken>>
      BY <1>2, <1>5 DEF AddRetry
    <2> HIDE DEF row
    <2> QED BY <1>1, <2>1, <2>2, JobMoves
  <1>6. CASE WritePending(k)
    <2>1. PICK o \in Orders : o = retry[k].order
      BY <1>1
    <2> DEFINE new == [deposit[o] EXCEPT !.blockchainStatus = "PENDING"]
    <2>2. new \in DepositRow /\ new.status = deposit[o].status
      BY <1>1 DEF DepositRow
    <2>3. deposit' = [deposit EXCEPT ![o] = new] /\ UNCHANGED <<notice, mintJob, overtaken>>
      BY <1>1, <1>6, <2>1 DEF WritePending
    <2>4. retry' \in [Remints -> RetryRow]
      BY <1>2, <1>6 DEF WritePending
    <2> HIDE DEF new
    <2>5. DepositsTyped' /\ \A p \in Orders : Completed(p)' <=> Completed(p)
      BY <1>1, <2>2, <2>3, <2>4 DEF DepositsInv, DepositsTyped, Completed
    <2> QED BY <2>3, <2>5, RowsMove
  <1>7. CASE RetryFails(k)
    BY <1>2, <1>3, <1>7 DEF RetryFails
  <1> QED
    BY <1>4, <1>5, <1>6, <1>7

LEMMA MintKeepsInv ==
  ASSUME DepositsInv, NEW j \in Notices \union Remints,
         TakeMint(j) \/ MintReturns(j) \/ SaveMint(j) \/ MintFails(j) \/ MintStalls(j)
  PROVE  DepositsInv'
  <1>1. /\ mintJob \in [Notices \union Remints -> MintRow] /\ mintJob[j] \in MintRow
        /\ retry \in [Remints -> RetryRow]
    BY DEF DepositsInv, DepositsTyped
  <1>2. PICK o \in Orders : o = OrderOf(j)
    BY DEF OrderOf, DepositsInv, DepositsTyped, NoticeRow, RetryRow
  <1>3. PICK row \in MintRow : row.state # "none" /\ mintJob' = [mintJob EXCEPT ![j] = row]
    <2>1. /\ mintJob[j].attemptsMade \in Nat /\ mintJob[j].stalls \in Nat
          /\ mintJob[j].attemptsMade + 1 \in Nat /\ mintJob[j].stalls + 1 \in Nat
      BY <1>1 DEF MintRow
    <2>2. CASE TakeMint(j) \/ MintReturns(j) \/ SaveMint(j)
      <3>1. PICK state \in {"active", "applied", "done"} : mintJob' = [mintJob EXCEPT ![j].state = state]
        BY <2>2 DEF TakeMint, MintReturns, SaveMint
      <3> DEFINE new == [mintJob[j] EXCEPT !.state = state]
      <3>2. new \in MintRow /\ new.state # "none"
        BY <1>1 DEF MintRow
      <3>3. mintJob' = [mintJob EXCEPT ![j] = new]
        BY <1>1, <3>1
      <3> HIDE DEF new
      <3> QED BY <3>2, <3>3
    <2>3. CASE MintFails(j)
      <3>1. PICK state \in {"failed", "waiting"} :
              mintJob' = [mintJob EXCEPT ![j].attemptsMade = @ + 1, ![j].state = state]
        BY <2>3 DEF MintFails
      <3> DEFINE new == [mintJob[j] EXCEPT !.attemptsMade = @ + 1, !.state = state]
      <3>2. new \in MintRow /\ new.state # "none"
        BY <1>1, <2>1 DEF MintRow
      <3>3. mintJob' = [mintJob EXCEPT ![j] = new]
        BY <1>1, <3>1 DEF MintRow
      <3> HIDE DEF new
      <3> QED BY <3>2, <3>3
    <2>4. CASE MintStalls(j)
      <3> DEFINE new == [mintJob[j] EXCEPT !.state = "waiting", !.stalls = @ + 1]
                 over == [mintJob[j] EXCEPT !.state = "failed"]
      <3>1. new \in MintRow /\ new.state # "none" /\ over \in MintRow /\ over.state # "none"
        BY <1>1, <2>1 DEF MintRow
      <3>2. mintJob' = [mintJob EXCEPT ![j] = new] \/ mintJob' = [mintJob EXCEPT ![j] = over]
        BY <1>1, <2>4 DEF MintStalls, MintRow
      <3> HIDE DEF new, over
      <3> QED BY <3>1, <3>2
    <2> QED BY <2>2, <2>3, <2>4
  <1>4. mintJob[j].state # "none" /\ UNCHANGED <<notice, overtaken, retry>>
    BY DEF TakeMint, MintReturns, SaveMint, MintFails, MintStalls
  <1>5. \/ deposit' = deposit
        \/ \E outcome \in {"PENDING", "MINTED", "FAILED_BLOCKCHAIN"} :
             deposit' = [deposit EXCEPT ![o].blockchainStatus = outcome]
    BY <1>2 DEF TakeMint, MintReturns, SaveMint, MintFails, MintStalls
  <1> QED
    BY <1>1, <1>2, <1>3, <1>4, <1>5, JobMoves

LEMMA DepositsStepInv == DepositsInv /\ [DepositsNext]_depositVars => DepositsInv'
  <1> SUFFICES ASSUME DepositsInv, [DepositsNext]_depositVars PROVE DepositsInv'
    OBVIOUS
  <1>1. ASSUME NEW o \in Orders, NEW n \in Notices, NEW paid \in BOOLEAN, GatewayAnswers(o, n, paid)
        PROVE  DepositsInv'
    BY <1>1, SendingKeepsInv DEF GatewayAnswers
  <1>2. ASSUME NEW n \in Notices, NEW again \in Notices, Redeliver(n, again) PROVE DepositsInv'
    <2>1. notice[n].order \in Orders /\ notice[n].paid \in BOOLEAN
      BY DEF DepositsInv, DepositsTyped, NoticeRow
    <2> QED BY <1>2, <2>1, SendingKeepsInv DEF Redeliver
  <1>3. CASE UNCHANGED depositVars
    BY <1>3, RowsMove DEF depositVars, Completed, DepositsInv, DepositsTyped
  <1> QED
    BY <1>1, <1>2, <1>3, OpeningKeepsInv, HandlingKeepsInv, AddMintKeepsInv, MarkFailedKeepsInv,
       MarkCompletedKeepsInv, RetryKeepsInv, MintKeepsInv DEF DepositsNext

\* processIzipayIpn: however often the gateway notifies and whichever order the handlers
\* run in, one charge adds a second mint job only when two of its notifications crossed or
\* a late refusal was written over the completed row.
THEOREM SecondMintsHaveCauses == DepositsSpec => []SecondMintHasCause
  BY DepositsInitInv, DepositsStepInv, DepositsInvImplies, PTL DEF DepositsSpec

\* A job that has not failed has attempts left, and none is there before its call adds it.
AttemptsLeft(j) == mintJob[j].attemptsMade <= MintAttempts
                   /\ (mintJob[j].state # "failed" => mintJob[j].attemptsMade < MintAttempts)
JobsFollowCalls ==
  /\ \A n \in Notices : notice[n].stage # "answered" => mintJob[n].state = "none"
  /\ \A k \in Remints : retry[k].stage \in {"none", "read"} => mintJob[k].state = "none"
OrdersKept ==
  /\ \A o \in Orders : deposit[o].amount <= MaxDeposit
  /\ charged \subseteq Orders /\ cutOff \subseteq Orders /\ overtaken \subseteq Orders
  /\ minted \in [Orders -> Nat]
JobsInRange == JobsFollowCalls /\ \A j \in Notices \union Remints : AttemptsLeft(j)

DepositsInRange == DepositsInv /\ OrdersKept /\ JobsInRange

LEMMA DepositsInRangeImplies == DepositsInRange => DepositsTypeOK
  <1> SUFFICES ASSUME DepositsInRange PROVE DepositsTypeOK
    OBVIOUS
  <1>1. MintAttempts \in Nat /\ MaxDeposit \in Nat
    BY DepositsAssumption DEF DepositsAssumption
  <1>2. \A o \in Orders : deposit[o] \in DepositRow /\ deposit[o].amount \in 0..MaxDeposit
    BY <1>1 DEF DepositsInRange, DepositsInv, DepositsTyped, OrdersKept, DepositRow
  <1>3. \A j \in Notices \union Remints :
          mintJob[j] \in MintRow /\ mintJob[j].attemptsMade \in 0..MintAttempts
    BY <1>1 DEF DepositsInRange, DepositsInv, DepositsTyped, JobsInRange, AttemptsLeft, MintRow
  <1>4. /\ \A n \in Notices : notice[n] \in NoticeRow
        /\ \A k \in Remints : retry[k] \in RetryRow
    BY DEF DepositsInRange, DepositsInv, DepositsTyped
  <1> QED
    BY <1>2, <1>3, <1>4 DEF DepositsTypeOK, DepositsInRange, OrdersKept, DepositRow, MintRow,
                            NoticeRow, RetryRow

LEMMA DepositsInRangeInit == DepositsInit => DepositsInRange
  <1> SUFFICES ASSUME DepositsInit PROVE DepositsInRange
    OBVIOUS
  <1>1. MintAttempts \in Nat \ {0} /\ MaxDeposit \in Nat
    BY DepositsAssumption DEF DepositsAssumption
  <1>2. OrdersKept
    BY <1>1 DEF OrdersKept, DepositsInit, NoDeposit
  <1>3. JobsInRange
    BY <1>1 DEF JobsInRange, JobsFollowCalls, AttemptsLeft, DepositsInit, NoMint
  <1> QED
    BY <1>2, <1>3, DepositsInitInv DEF DepositsInRange

\* Each step keeps the rows of the orders in range: an amount is only written by createSession.
LEMMA OrdersStayKept == DepositsInRange /\ [DepositsNext]_depositVars => OrdersKept'
  <1> SUFFICES ASSUME DepositsInRange, [DepositsNext]_depositVars PROVE OrdersKept'
    OBVIOUS
  <1>1. /\ deposit \in [Orders -> DepositRow] /\ minted \in [Orders -> Nat]
        /\ OrdersKept /\ MaxDeposit \in Nat /\ MinDeposit \in Nat
    BY DepositsAssumption DEF DepositsInRange, DepositsInv, DepositsTyped, DepositsAssumption, OrdersKept
  <1>2. /\ \A n \in Notices : notice[n].order \in Orders
        /\ \A k \in Remints : retry[k].order \in Orders
        /\ \A j \in Notices \union Remints : OrderOf(j) \in Orders
    BY DEF DepositsInRange, DepositsInv, DepositsTyped, NoticeRow, RetryRow, OrderOf
  <1>3. ASSUME \A o \in Orders : deposit'[o].amount = deposit[o].amount,
               charged' \subseteq Orders, cutOff' \subseteq Orders, overtaken' \subseteq Orders,
               minted' \in [Orders -> Nat]
        PROVE  OrdersKept'
    BY <1>1, <1>3 DEF OrdersKept
  <1>4. ASSUME NEW o \in Orders, NEW p \in Payers, NEW amount \in MinDeposit..MaxDeposit,
               CheckDeposit(o, p, amount)
        PROVE  OrdersKept'
    BY <1>1, <1>4 DEF CheckDeposit, OrdersKept, DepositRow
  <1>5. ASSUME NEW o \in Orders, CreateDeposit(o) \/ StoreFormToken(o) PROVE OrdersKept'
    BY <1>1, <1>5 DEF CreateDeposit, StoreFormToken, OrdersKept, DepositRow
  <1>6. ASSUME \/ \E o \in Orders, n \in Notices, paid \in BOOLEAN : GatewayAnswers(o, n, paid)
               \/ \E n, again \in Notices : Redeliver(n, again)
        PROVE  OrdersKept'
    BY <1>1, <1>6 DEF GatewayAnswers, Redeliver, OrdersKept
  <1>7. ASSUME NEW n \in Notices, \/ ReadNotice(n) \/ MarkFailed(n) \/ MarkCompleted(n)
                                 \/ AddMint(n) \/ HandlerDies(n)
        PROVE  OrdersKept'
    <2>1. \A o \in Orders : deposit'[o].amount = deposit[o].amount
      BY <1>1, <1>7 DEF ReadNotice, MarkFailed, MarkCompleted, AddMint, HandlerDies, DepositRow
    <2>2. cutOff' \subseteq Orders /\ overtaken' \subseteq Orders /\ UNCHANGED <<charged, minted>>
      BY <1>1, <1>2, <1>7 DEF ReadNotice, MarkFailed, MarkCompleted, AddMint, HandlerDies, OrdersKept
    <2> QED BY <1>1, <1>3, <2>1, <2>2 DEF OrdersKept
  <1>8. ASSUME NEW k \in Remints, \/ \E o \in Orders : ReadForRetry(k, o)
                                 \/ AddRetry(k) \/ WritePending(k) \/ RetryFails(k)
        PROVE  OrdersKept'
    <2>1. \A o \in Orders : deposit'[o].amount = deposit[o].amount
      BY <1>1, <1>8 DEF ReadForRetry, AddRetry, WritePending, RetryFails, DepositRow
    <2>2. cutOff' \subseteq Orders /\ UNCHANGED <<charged, minted, overtaken>>
      BY <1>1, <1>2, <1>8 DEF ReadForRetry, AddRetry, WritePending, RetryFails, OrdersKept
    <2> QED BY <1>1, <1>3, <2>1, <2>2 DEF OrdersKept
  <1>9. ASSUME NEW j \in Notices \union Remints,
               TakeMint(j) \/ MintReturns(j) \/ SaveMint(j) \/ MintFails(j) \/ MintStalls(j)
        PROVE  OrdersKept'
    <2>1. \A o \in Orders : deposit'[o].amount = deposit[o].amount
      BY <1>1, <1>9 DEF TakeMint, MintReturns, SaveMint, MintFails, MintStalls, DepositRow
    <2>2. minted' \in [Orders -> Nat]
      <3>1. minted' = minted \/ minted' = [minted EXCEPT ![OrderOf(j)] = @ + 1]
        BY <1>9 DEF TakeMint, MintReturns, SaveMint, MintFails, MintStalls
      <3> QED BY <1>1, <1>2, <3>1
    <2>3. cutOff' \subseteq Orders /\ UNCHANGED <<charged, overtaken>>
      <3>1. \/ cutOff' = cutOff
            \/ cutOff' = cutOff \union {OrderOf(j)}
        BY <1>9 DEF TakeMint, MintReturns, SaveMint, MintFails, MintStalls
      <3>2. OrderOf(j) \in Orders /\ cutOff \subseteq Orders
        BY <1>1, <1>2, <1>9 DEF OrdersKept
      <3>3. UNCHANGED <<charged, overtaken>>
        BY <1>9 DEF TakeMint, MintReturns, SaveMint, MintFails, MintStalls
      <3> QED BY <3>1, <3>2, <3>3
    <2> QED BY <1>1, <1>3, <2>1, <2>2, <2>3 DEF OrdersKept
  <1>10. CASE UNCHANGED depositVars
    BY <1>1, <1>10 DEF depositVars, OrdersKept
  <1> QED
    BY <1>4, <1>5, <1>6, <1>7, <1>8, <1>9, <1>10 DEF DepositsNext

\* Each step keeps the attempts of the jobs in range: a call adds its job once.
LEMMA JobsStayInRange == DepositsInRange /\ [DepositsNext]_depositVars => JobsInRange'
  <1> SUFFICES ASSUME DepositsInRange, [DepositsNext]_depositVars PROVE JobsInRange'
    OBVIOUS
  <1>1. /\ notice \in [Notices -> NoticeRow] /\ retry \in [Remints -> RetryRow]
        /\ mintJob \in [Notices \union Remints -> MintRow]
        /\ JobsInRange /\ MintAttempts \in Nat \ {0} /\ Notices \cap Remints = {}
    BY DepositsAssumption DEF DepositsInRange, DepositsInv, DepositsTyped, DepositsAssumption
  <1>2. ASSUME mintJob' = mintJob,
               \A n \in Notices : notice[n].stage = "answered" => notice'[n].stage = "answered",
               \A k \in Remints : retry[k].stage \notin {"none", "read"} =>
                                    retry'[k].stage \notin {"none", "read"}
        PROVE  JobsInRange'
    BY <1>1, <1>2 DEF JobsInRange, JobsFollowCalls, AttemptsLeft
  <1>3. ASSUME \/ \E o \in Orders, p \in Payers, amount \in MinDeposit..MaxDeposit :
                      CheckDeposit(o, p, amount)
               \/ \E o \in Orders : CreateDeposit(o) \/ StoreFormToken(o)
               \/ UNCHANGED depositVars
        PROVE  JobsInRange'
    BY <1>2, <1>3 DEF CheckDeposit, CreateDeposit, StoreFormToken, depositVars
  <1>4. ASSUME \/ \E o \in Orders, n \in Notices, paid \in BOOLEAN : GatewayAnswers(o, n, paid)
               \/ \E n, again \in Notices : Redeliver(n, again)
        PROVE  JobsInRange'
    <2>1. PICK n \in Notices : /\ notice[n].stage = "none"
                              /\ \A m \in Notices \ {n} : notice'[m] = notice[m]
      BY <1>1, <1>4 DEF GatewayAnswers, Redeliver, Sent
    <2> QED BY <1>2, <1>4, <2>1 DEF GatewayAnswers, Redeliver
  <1>5. ASSUME NEW n \in Notices, ReadNotice(n) \/ MarkFailed(n) \/ MarkCompleted(n) \/ HandlerDies(n)
        PROVE  JobsInRange'
    <2>1. \A m \in Notices : notice[m].stage = "answered" => notice'[m].stage = "answered"
      BY <1>1, <1>5 DEF ReadNotice, MarkFailed, MarkCompleted, HandlerDies, NoticeRow
    <2> QED BY <1>2, <1>5, <2>1 DEF ReadNotice, MarkFailed, MarkCompleted, HandlerDies
  <1>6. ASSUME NEW j \in Notices \union Remints, NEW row \in MintRow, mintJob' = [mintJob EXCEPT ![j] = row],
               row.attemptsMade <= MintAttempts, row.state # "failed" => row.attemptsMade < MintAttempts,
               j \in Notices => notice'[j].stage = "answered",
               j \in Remints => retry'[j].stage \notin {"none", "read"},
               \A n \in Notices : notice[n].stage = "answered" => notice'[n].stage = "answered",
               \A k \in Remints : retry[k].stage \notin {"none", "read"} =>
                                    retry'[k].stage \notin {"none", "read"}
        PROVE  JobsInRange'
    <2>1. mintJob'[j] = row /\ \A i \in (Notices \union Remints) \ {j} : mintJob'[i] = mintJob[i]
      BY <1>1, <1>6
    <2>2. \A i \in Notices \union Remints : AttemptsLeft(i)'
      BY <1>1, <1>6, <2>1 DEF JobsInRange, AttemptsLeft
    <2> QED BY <1>1, <1>6, <2>1, <2>2 DEF JobsInRange, JobsFollowCalls
  <1>7. ASSUME NEW n \in Notices, AddMint(n) PROVE JobsInRange'
    <2>1. notice' = [notice EXCEPT ![n].stage = "answered"] /\ retry' = retry
      BY <1>7 DEF AddMint
    <2>2. notice'[n].stage = "answered"
          /\ \A m \in Notices : notice[m].stage = "answered" => notice'[m].stage = "answered"
      BY <1>1, <2>1 DEF NoticeRow
    <2>3. CASE mintJob' = mintJob
      BY <1>2, <2>1, <2>2, <2>3
    <2>4. CASE mintJob' = [mintJob EXCEPT ![n].state = "waiting"]
      <3> DEFINE row == [mintJob[n] EXCEPT !.state = "waiting"]
      <3>1. mintJob[n] \in MintRow /\ mintJob[n].state = "none" /\ AttemptsLeft(n)
        BY <1>1, <1>7 DEF JobsInRange, JobsFollowCalls, AddMint
      <3>2. row \in MintRow /\ row.attemptsMade < MintAttempts /\ row.attemptsMade <= MintAttempts
        BY <3>1 DEF MintRow, AttemptsLeft
      <3>3. mintJob' = [mintJob EXCEPT ![n] = row]
        BY <1>1, <2>4
      <3> HIDE DEF row
      <3> QED BY <1>1, <1>6, <2>1, <2>2, <3>2, <3>3
    <2> QED BY <1>7, <2>3, <2>4 DEF AddMint
  <1>8. ASSUME NEW k \in Remints,
               (\E o \in Orders : ReadForRetry(k, o)) \/ WritePending(k) \/ RetryFails(k)
        PROVE  JobsInRange'
    <2>1. \A i \in Remints : retry[i].stage \notin {"none", "read"} => retry'[i].stage \notin {"none", "read"}
      BY <1>1, <1>8 DEF ReadForRetry, WritePending, RetryFails, RetryRow
    <2> QED BY <1>2, <1>8, <2>1 DEF ReadForRetry, WritePending, RetryFails
  <1>9. ASSUME NEW k \in Remints, AddRetry(k) PROVE JobsInRange'
    <2>1. retry' = [retry EXCEPT ![k].stage = "added"] /\ notice' = notice
      BY <1>9 DEF AddRetry
    <2>2. retry'[k].stage = "added" /\ \A i \in Remints \ {k} : retry'[i] = retry[i]
      BY <1>1, <2>1 DEF RetryRow
    <2> DEFINE row == [mintJob[k] EXCEPT !.state = "waiting"]
    <2>3. mintJob[k] \in MintRow /\ mintJob[k].state = "none" /\ AttemptsLeft(k)
      BY <1>1, <1>9 DEF JobsInRange, JobsFollowCalls, AddRetry
    <2>4. row \in MintRow /\ row.attemptsMade < MintAttempts /\ row.attemptsMade <= MintAttempts
      BY <2>3 DEF MintRow, AttemptsLeft
    <2>5. mintJob' = [mintJob EXCEPT ![k] = row]
      BY <1>1, <1>9 DEF AddRetry
    <2> HIDE DEF row
    <2>6. k \notin Notices /\ k \in Notices \union Remints
      BY <1>1
    <2> QED BY <1>1, <1>6, <2>1, <2>2, <2>4, <2>5, <2>6
  <1>10. ASSUME NEW j \in Notices \union Remints,
                TakeMint(j) \/ MintReturns(j) \/ SaveMint(j) \/ MintFails(j) \/ MintStalls(j)
         PROVE  JobsInRange'
    <2>1. /\ mintJob[j] \in MintRow /\ mintJob[j].state \notin {"none", "failed"} /\ AttemptsLeft(j)
          /\ UNCHANGED <<notice, retry>>
      BY <1>1, <1>10 DEF JobsInRange, TakeMint, MintReturns, SaveMint, MintFails, MintStalls
    <2>2. ASSUME NEW row \in MintRow, mintJob' = [mintJob EXCEPT ![j] = row],
                 row.attemptsMade <= MintAttempts, row.state # "failed" => row.attemptsMade < MintAttempts
          PROVE  JobsInRange'
      BY <1>1, <1>6, <2>1, <2>2 DEF JobsInRange, JobsFollowCalls
    <2>3. ASSUME NEW state \in {"waiting", "active", "applied", "done"}, NEW stalls \in Nat,
                 mintJob' = [mintJob EXCEPT ![j] = [@ EXCEPT !.state = state, !.stalls = stalls]]
          PROVE  JobsInRange'
      <3> DEFINE row == [mintJob[j] EXCEPT !.state = state, !.stalls = stalls]
      <3>1. row \in MintRow /\ row.attemptsMade < MintAttempts /\ row.attemptsMade <= MintAttempts
        BY <1>1, <2>1 DEF MintRow, AttemptsLeft
      <3>2. mintJob' = [mintJob EXCEPT ![j] = row]
        BY <1>1, <2>3
      <3> HIDE DEF row
      <3> QED BY <2>2, <3>1, <3>2
    <2>4. mintJob[j].stalls \in Nat /\ mintJob[j].stalls + 1 \in Nat /\ mintJob[j].attemptsMade \in Nat
      BY <2>1 DEF MintRow
    <2>5. ASSUME NEW state \in {"waiting", "active", "applied", "done"},
                 mintJob' = [mintJob EXCEPT ![j].state = state]
          PROVE  JobsInRange'
      <3>1. mintJob' = [mintJob EXCEPT ![j] = [@ EXCEPT !.state = state, !.stalls = mintJob[j].stalls]]
        BY <1>1, <2>1, <2>5 DEF MintRow
      <3> QED BY <2>3, <2>4, <3>1
    <2>6. CASE TakeMint(j) \/ MintReturns(j) \/ SaveMint(j)
      BY <2>5, <2>6 DEF TakeMint, MintReturns, SaveMint
    <2>7. CASE MintStalls(j)
      <3>1. CASE mintJob' = [mintJob EXCEPT ![j].state = "waiting", ![j].stalls = @ + 1]
        <4>1. mintJob' = [mintJob EXCEPT ![j] = [@ EXCEPT !.state = "waiting", !.stalls = mintJob[j].stalls + 1]]
          BY <1>1, <3>1
        <4> QED BY <2>3, <2>4, <4>1
      <3>2. CASE mintJob' = [mintJob EXCEPT ![j].state = "failed"]
        <4> DEFINE row == [mintJob[j] EXCEPT !.state = "failed"]
        <4>1. row \in MintRow /\ row.state = "failed" /\ row.attemptsMade <= MintAttempts
          BY <1>1, <2>1, <2>4 DEF MintRow, AttemptsLeft
        <4>2. mintJob' = [mintJob EXCEPT ![j] = row]
          BY <1>1, <3>2
        <4> HIDE DEF row
        <4> QED BY <2>2, <4>1, <4>2
      <3> QED BY <2>7, <3>1, <3>2 DEF MintStalls
    <2>8. CASE MintFails(j)
      <3>1. mintJob[j].attemptsMade < MintAttempts
        BY <2>1 DEF AttemptsLeft
      <3>2. PICK state \in {"failed", "waiting"} :
              state = IF mintJob[j].attemptsMade + 1 >= MintAttempts THEN "failed" ELSE "waiting"
        OBVIOUS
      <3>3. state # "failed" => mintJob[j].attemptsMade + 1 < MintAttempts
        BY <1>1, <2>4, <3>2
      <3>4. PICK made \in Nat : made = mintJob[j].attemptsMade + 1
        BY <2>4
      <3> DEFINE row == [mintJob[j] EXCEPT !.attemptsMade = made, !.state = state]
      <3>5. row \in MintRow /\ row.attemptsMade = made /\ row.state = state
        BY <2>1 DEF MintRow
      <3>6. mintJob' = [mintJob EXCEPT ![j] = row]
        BY <1>1, <2>8, <3>2, <3>4 DEF MintFails
      <3>7. row.attemptsMade <= MintAttempts /\ (row.state # "failed" => row.attemptsMade < MintAttempts)
        BY <1>1, <2>4, <3>1, <3>3, <3>4, <3>5
      <3> HIDE DEF row
      <3> QED BY <2>2, <3>5, <3>6, <3>7
    <2> QED BY <1>10, <2>6, <2>7, <2>8
  <1> QED
    BY <1>3, <1>4, <1>5, <1>7, <1>8, <1>9, <1>10 DEF DepositsNext

\* PaymentsService: a mint job has no more attempts than it was given, whatever is delivered
\* and ordered again, and rows stay well formed.
THEOREM DepositsTyping == DepositsSpec => []DepositsTypeOK
  <1>1. DepositsInRange /\ [DepositsNext]_depositVars => DepositsInRange'
    BY DepositsStepInv, OrdersStayKept, JobsStayInRange DEF DepositsInRange
  <1> QED
    BY <1>1, DepositsInRangeInit, DepositsInRangeImplies, PTL DEF DepositsSpec

-----------------------------------------------------------------------------
(* The pool of RPC nodes.                                                  *)

RpcNodeRow == [status : {"HEALTHY", "UNHEALTHY"}, failures : Nat, until : Nat]
RpcCallRow == [stage : {"idle", "trying", "emergency"}, left : Seq(RpcNodes), errors : Nat,
               answer : {"none", "result", "error", "timeout", "refused"}]
RpcTyped ==
  /\ rpcNode \in [RpcNodes -> RpcNodeRow]
  /\ cursor \in 0..(CursorModulus - 1)
  /\ rpcCall \in [RpcCalls -> RpcCallRow]
  /\ breaker \in {"closed", "open", "halfOpen", "probing"}
  /\ clock \in 1..MaxTime

\* A node is fit, or it rests.
NodeConsistent(node) ==
  IF node.status = "HEALTHY"
    THEN node.failures < FailureLimit /\ node.until = 0
    ELSE node.failures >= FailureLimit /\ node.until > 0
GoodNodes == {node \in RpcNodeRow : NodeConsistent(node)}

RpcInv == RpcTyped /\ rpcNode \in [RpcNodes -> GoodNodes]

LEMMA RpcInvImplies == RpcInv => RpcTypeOK
  <1> SUFFICES ASSUME RpcInv PROVE RpcTypeOK
    OBVIOUS
  <1>1. PoolConsistent
    <2>1. \A n \in RpcNodes : NodeConsistent(rpcNode[n])
      BY DEF RpcInv, GoodNodes
    <2> QED BY <2>1 DEF PoolConsistent, NodeConsistent
  <1>2. \A c \in RpcCalls : rpcCall[c] \in RpcCallRow
    BY DEF RpcInv, RpcTyped
  <1>3. \A c \in RpcCalls :
           /\ rpcCall[c].stage \in {"idle", "trying", "emergency"}
           /\ rpcCall[c].left \in Seq(RpcNodes)
           /\ rpcCall[c].answer \in {"none", "result", "error", "timeout", "refused"}
    BY <1>2 DEF RpcCallRow
  <1> QED
    BY <1>1, <1>3 DEF RpcTypeOK, RpcInv, RpcTyped, RpcNodeRow

\* Places of a list can be put in order.
InOrderFor(S, f) == \A i, j \in 1..Cardinality(S) : i < j => f[i] < f[j]
LEMMA PlacesInOrder ==
  \A n \in Nat : \A S \in SUBSET (1..n) :
     IsFiniteSet(S) /\ \E f \in [1..Cardinality(S) -> S] : InOrderFor(S, f)
  <1> DEFINE Listed(S) == IsFiniteSet(S) /\ \E f \in [1..Cardinality(S) -> S] : InOrderFor(S, f)
             G == {n \in Nat : \A S \in SUBSET (1..n) : Listed(S)}
  <1>1. 0 \in G
    <2>1. ASSUME NEW S \in SUBSET (1..0) PROVE Listed(S)
      <3> HIDE DEF Listed
      <3>0. 1..0 = {} /\ S = {}
        OBVIOUS
      <3>1. S = {} /\ IsFiniteSet(S) /\ Cardinality(S) = 0
        BY <3>0, FS_EmptySet
      <3>2. [i \in 1..0 |-> i] \in [1..Cardinality(S) -> S]
        BY <3>1
      <3>3. InOrderFor(S, [i \in 1..0 |-> i])
        BY <3>1 DEF InOrderFor
      <3> QED BY <3>1, <3>2, <3>3 DEF Listed
    <2> QED BY <2>1
  <1>2. ASSUME NEW n \in Nat, n \in G PROVE n + 1 \in G
    <2> SUFFICES ASSUME NEW S \in SUBSET (1..(n + 1)) PROVE Listed(S)
      OBVIOUS
    <2>1. CASE n + 1 \notin S
      <3>1. S \in SUBSET (1..n)
        BY <2>1
      <3> QED BY <1>2, <3>1
    <2>2. CASE n + 1 \in S
      <3> DEFINE T == S \ {n + 1}
                 k == Cardinality(T)
      <3>1. T \in SUBSET (1..n)
        OBVIOUS
      <3>2. IsFiniteSet(T) /\ \E f \in [1..Cardinality(T) -> T] : InOrderFor(T, f)
        BY <1>2, <3>1
      <3>3. k \in Nat /\ S = T \union {n + 1} /\ n + 1 \notin T
        BY <2>2, <3>2, FS_CardinalityType
      <3>4. IsFiniteSet(S) /\ Cardinality(S) = k + 1
        <4> HIDE DEF T
        <4> QED BY <3>2, <3>3, FS_AddElement
      <3>5. PICK f \in [1..k -> T] : InOrderFor(T, f)
        BY <3>2
      <3> DEFINE g == [i \in 1..(k + 1) |-> IF i = k + 1 THEN n + 1 ELSE f[i]]
      <3>6. \A i \in 1..k : f[i] \in T /\ f[i] \in 1..n
        BY <3>1, <3>5
      <3> HIDE DEF T, k
      <3>7. g \in [1..(k + 1) -> S]
        BY <3>3, <3>6
      <3>8. \A i, j \in 1..(k + 1) : i < j => g[i] < g[j]
        <4> TAKE i, j \in 1..(k + 1)
        <4> HAVE i < j
        <4>1. i \in 1..k /\ g[i] = f[i]
          BY <3>3
        <4>2. CASE j = k + 1
          BY <4>1, <4>2, <3>6
        <4>3. CASE j # k + 1
          <5>1. j \in 1..k /\ g[j] = f[j]
            BY <3>3, <4>3
          <5> QED BY <4>1, <5>1, <3>5 DEF InOrderFor, k
        <4> QED BY <4>2, <4>3
      <3> HIDE DEF g
      <3>9. g \in [1..Cardinality(S) -> S] /\ InOrderFor(S, g)
        BY <3>4, <3>7, <3>8 DEF InOrderFor
      <3> QED BY <3>4, <3>9
    <2> QED BY <2>1, <2>2
  <1> HIDE DEF G
  <1>3. \A n \in Nat : n \in G
    BY <1>1, <1>2, InductionOnNat
  <1> QED
    BY <1>3 DEF G

LEMMA HealthyAreNodes ==
  ASSUME NEW pool, NEW tier
  PROVE  HealthyIn(pool, tier) \in Seq(RpcNodes)
  <1>1. NodeOrder \in Seq(RpcNodes) /\ Len(NodeOrder) \in Nat
    BY RpcAssumption DEF RpcAssumption
  <1> DEFINE S == {i \in 1..Len(NodeOrder) :
                     TierOf[NodeOrder[i]] = tier /\ pool[NodeOrder[i]].status = "HEALTHY"}
  <1>2. S \in SUBSET (1..Len(NodeOrder))
    OBVIOUS
  <1>3. HealthyIn(pool, tier) = [k \in 1..Cardinality(S) |-> NodeOrder[InOrderOf(S)[k]]]
    BY DEF HealthyIn
  <1> HIDE DEF S
  <1>4. IsFiniteSet(S) /\ \E f \in [1..Cardinality(S) -> S] : InOrderFor(S, f)
    BY <1>1, <1>2, PlacesInOrder
  <1>5. InOrderOf(S) \in [1..Cardinality(S) -> S]
    BY <1>4 DEF InOrderOf, InOrderFor
  <1>6. Cardinality(S) \in Nat
    BY <1>4, FS_CardinalityType
  <1>7. \A k \in 1..Cardinality(S) : NodeOrder[InOrderOf(S)[k]] \in RpcNodes
    <2>1. \A k \in 1..Cardinality(S) : InOrderOf(S)[k] \in 1..Len(NodeOrder)
      BY <1>2, <1>5
    <2>2. \A i \in 1..Len(NodeOrder) : NodeOrder[i] \in RpcNodes
      BY DEF RpcNodes
    <2> QED BY <2>1, <2>2
  <1> QED
    BY <1>3, <1>6, <1>7

LEMMA CandidatesAreNodes ==
  ASSUME NEW pool, cursor \in Nat
  PROVE  CandidatesOf(pool) \in Seq(RpcNodes)
  <1>1. ASSUME NEW nodes \in Seq(RpcNodes) PROVE Rotated(nodes) \in Seq(RpcNodes)
    <2>1. Len(nodes) \in Nat /\ \A k \in 1..Len(nodes) : nodes[k] \in RpcNodes
      OBVIOUS
    <2>2. ASSUME NEW i \in 1..Len(nodes)
          PROVE  nodes[((cursor + i - 1) % Len(nodes)) + 1] \in RpcNodes
      <3>1. \A a \in Nat, b \in Nat \ {0} : (a % b) + 1 \in 1..b
        OBVIOUS
      <3>2. cursor + i - 1 \in Nat /\ Len(nodes) \in Nat \ {0}
        BY <2>1
      <3> QED BY <2>1, <3>1, <3>2
    <2> QED BY <2>1, <2>2 DEF Rotated
  <1>2. \A tier : Rotated(HealthyIn(pool, tier)) \in Seq(RpcNodes)
    BY <1>1, HealthyAreNodes
  <1> QED
    BY <1>2 DEF CandidatesOf

LEMMA NearestIsANode ==
  ASSUME rpcNode \in [RpcNodes -> RpcNodeRow]
  PROVE  NearestNode \in RpcNodes
  <1> DEFINE until(i) == rpcNode[NodeOrder[i]].until
             Before(i, j) == until(i) < until(j) \/ (until(i) = until(j) /\ i <= j)
             First(i, n) == \A j \in 1..n : Before(i, j)
             G == {n \in Nat : n > 0 /\ n <= Len(NodeOrder) => \E i \in 1..n : First(i, n)}
  <1>1. Len(NodeOrder) \in Nat /\ Len(NodeOrder) > 0
    BY RpcAssumption DEF RpcAssumption
  <1>2. \A i \in 1..Len(NodeOrder) : NodeOrder[i] \in RpcNodes /\ until(i) \in Nat
    <2>1. \A i \in 1..Len(NodeOrder) : NodeOrder[i] \in RpcNodes
      BY DEF RpcNodes
    <2> QED BY <2>1 DEF RpcNodeRow
  <1> HIDE DEF until
  <1>3. 0 \in G
    OBVIOUS
  <1>4. ASSUME NEW n \in Nat, n \in G PROVE n + 1 \in G
    <2> SUFFICES ASSUME n + 1 <= Len(NodeOrder) PROVE \E i \in 1..(n + 1) : First(i, n + 1)
      OBVIOUS
    <2>1. n + 1 \in 1..Len(NodeOrder) /\ \A i \in 1..(n + 1) : until(i) \in Nat
      BY <1>1, <1>2
    <2>2. CASE n = 0
      BY <2>1, <2>2
    <2>3. CASE n > 0
      <3>1. PICK i \in 1..n : First(i, n)
        BY <1>1, <1>4, <2>3
      <3>2. CASE until(n + 1) < until(i)
        <4>1. First(n + 1, n + 1)
          BY <2>1, <3>1, <3>2
        <4> QED BY <4>1
      <3>3. CASE until(i) <= until(n + 1)
        <4>1. First(i, n + 1)
          BY <2>1, <3>1, <3>3
        <4> QED BY <4>1
      <3> QED BY <2>1, <3>1, <3>2, <3>3
    <2> QED BY <2>2, <2>3
  <1> HIDE DEF G
  <1>5. \A n \in Nat : n \in G
    BY <1>3, <1>4, InductionOnNat
  <1>6. \E i \in 1..Len(NodeOrder) : First(i, Len(NodeOrder))
    <2>1. Len(NodeOrder) \in G
      BY <1>1, <1>5
    <2> HIDE DEF First
    <2> QED BY <1>1, <2>1 DEF G
  <1>7. \E i \in 1..Len(NodeOrder) : NearestNode = NodeOrder[i]
    BY <1>6 DEF NearestNode, until
  <1> QED
    BY <1>2, <1>7

-----------------------------------------------------------------------------

LEMMA IdleCallTyped == Unasked \in RpcCallRow
  BY DEF Unasked, RpcCallRow

LEMMA RpcInitInv == RpcInit => RpcInv
  <1> SUFFICES ASSUME RpcInit PROVE RpcInv
    OBVIOUS
  <1>1. FailureLimit \in Nat \ {0} /\ CursorModulus \in Nat \ {0} /\ MaxTime \in Nat \ {0}
    BY RpcAssumption DEF RpcAssumption
  <1>2. Fresh \in GoodNodes
    BY <1>1 DEF Fresh, GoodNodes, RpcNodeRow, NodeConsistent
  <1> QED
    BY <1>1, <1>2, IdleCallTyped DEF RpcInit, RpcInv, RpcTyped, GoodNodes

\* How a call may change the row of a node.
LEMMA NodesStayGood ==
  ASSUME RpcInv
  PROVE  /\ Fresh \in GoodNodes
         /\ Reinstated \in [RpcNodes -> GoodNodes]
         /\ \A node \in GoodNodes, rest \in Jitter : FailedOnce(node, rest) \in GoodNodes
         /\ \A node : Revived(node) \in GoodNodes
  <1>1. /\ FailureLimit \in Nat \ {0} /\ Cooldown \in Nat \ {0} /\ Jitter \subseteq Nat /\ clock \in Nat
        /\ MaxTime \in Nat
    BY RpcAssumption DEF RpcAssumption, RpcInv, RpcTyped
  <1>2. Fresh \in GoodNodes
    BY <1>1 DEF Fresh, GoodNodes, RpcNodeRow, NodeConsistent
  <1>3. Reinstated \in [RpcNodes -> GoodNodes]
    BY <1>2 DEF Reinstated, RpcInv
  <1>4. ASSUME NEW node \in GoodNodes, NEW rest \in Jitter
        PROVE  FailedOnce(node, rest) \in GoodNodes
    <2>1. /\ node \in RpcNodeRow /\ NodeConsistent(node) /\ rest \in Nat
          /\ node.failures \in Nat /\ node.until \in Nat
          /\ clock + Cooldown + rest \in Nat /\ clock + Cooldown + rest > 0
      BY <1>1 DEF GoodNodes, RpcNodeRow
    <2>2. CASE node.failures + 1 >= FailureLimit
      BY <1>1, <2>1, <2>2 DEF FailedOnce, GoodNodes, RpcNodeRow, NodeConsistent
    <2>3. CASE ~(node.failures + 1 >= FailureLimit)
      BY <1>1, <2>1, <2>3 DEF FailedOnce, GoodNodes, RpcNodeRow, NodeConsistent
    <2> QED BY <2>2, <2>3
  <1> QED
    BY <1>2, <1>3, <1>4 DEF Revived

LEMMA RpcStepInv == RpcInv /\ [RpcNext]_rpcVars => RpcInv'
  <1> SUFFICES ASSUME RpcInv, [RpcNext]_rpcVars PROVE RpcInv'
    OBVIOUS
  <1> USE DEF RpcInv
  <1>1. /\ rpcNode \in [RpcNodes -> GoodNodes] /\ rpcCall \in [RpcCalls -> RpcCallRow]
        /\ cursor \in 0..(CursorModulus - 1) /\ cursor \in Nat /\ clock \in 1..MaxTime
        /\ breaker \in {"closed", "open", "halfOpen", "probing"}
        /\ CursorModulus \in Nat \ {0} /\ MaxTime \in Nat /\ GoodNodes \subseteq RpcNodeRow
    BY RpcAssumption DEF RpcTyped, RpcAssumption, GoodNodes
  <1>2. \A c \in RpcCalls : /\ rpcCall[c] \in RpcCallRow /\ rpcCall[c].left \in Seq(RpcNodes)
                            /\ rpcCall[c].errors \in Nat
                            /\ rpcCall[c].answer \in {"none", "result", "error", "timeout", "refused"}
    BY <1>1 DEF RpcCallRow
  <1>3. SUFFICES /\ rpcNode' \in [RpcNodes -> GoodNodes] /\ rpcCall' \in [RpcCalls -> RpcCallRow]
                 /\ cursor' \in 0..(CursorModulus - 1) /\ clock' \in 1..MaxTime
                 /\ breaker' \in {"closed", "open", "halfOpen", "probing"}
    BY <1>1, <1>3 DEF RpcTyped
  <1>4. ASSUME NEW c \in RpcCalls, NEW answer \in {"none", "result", "error", "timeout", "refused"},
               CallEnds(c, answer)
        PROVE  rpcCall' \in [RpcCalls -> RpcCallRow]
    <2>1. [Unasked EXCEPT !.answer = answer] \in RpcCallRow
      BY <1>4, IdleCallTyped DEF RpcCallRow
    <2> QED BY <1>1, <1>4, <2>1 DEF CallEnds
  <1>5. ASSUME NEW c \in RpcCalls, Return(c) \/ Throw(c)
        PROVE  /\ rpcCall' \in [RpcCalls -> RpcCallRow]
               /\ breaker' \in {"closed", "open", "halfOpen", "probing"}
    BY <1>1, <1>2, <1>4, <1>5 DEF Return, Throw, BreakerSucceeds, BreakerFails
  <1>6. ASSUME NEW c \in RpcCalls, Ask(c) PROVE RpcInv'
    <2>1. rpcNode' \in [RpcNodes -> GoodNodes] /\ rpcNode' = Reinstated
      BY <1>6, NodesStayGood DEF Ask
    <2>2. CandidatesOf(Reinstated) \in Seq(RpcNodes) /\ NearestNode \in RpcNodes
      BY <1>1, CandidatesAreNodes, NearestIsANode
    <2> DEFINE row == [Unasked EXCEPT
                 !.stage = IF CandidatesOf(Reinstated) = <<>> THEN "emergency" ELSE "trying",
                 !.left  = IF CandidatesOf(Reinstated) = <<>> THEN <<NearestNode>>
                           ELSE CandidatesOf(Reinstated)]
    <2>3. row \in RpcCallRow
      <3>1. <<NearestNode>> \in Seq(RpcNodes)
        BY <2>2
      <3> QED BY <2>2, <3>1, IdleCallTyped DEF RpcCallRow
    <2>4. rpcCall' = [rpcCall EXCEPT ![c] = row]
      BY <1>6 DEF Ask
    <2> HIDE DEF row
    <2>5. UNCHANGED <<cursor, clock>> /\ breaker' \in {"closed", "open", "halfOpen", "probing"}
      BY <1>6 DEF Ask
    <2>6. rpcCall' \in [RpcCalls -> RpcCallRow]
      BY <1>1, <2>3, <2>4
    <2> QED BY <1>1, <2>1, <2>5, <2>6 DEF RpcTyped
  <1>7. ASSUME NEW c \in RpcCalls, NodeFails(c) PROVE RpcInv'
    <2> DEFINE n == Head(rpcCall[c].left)
               errors == rpcCall[c].errors + 1
               more == Tail(rpcCall[c].left)
    <2>1. rpcCall[c].left # <<>> /\ UNCHANGED <<cursor, clock>>
      BY <1>7 DEF NodeFails, Asked
    <2>2. rpcNode' \in [RpcNodes -> GoodNodes]
      <3>1. PICK rest \in Jitter : rpcNode' = [rpcNode EXCEPT ![n] = FailedOnce(@, rest)]
        BY <1>7 DEF NodeFails
      <3> HIDE DEF n
      <3>2. \A node \in GoodNodes : FailedOnce(node, rest) \in GoodNodes
        BY NodesStayGood
      <3> QED BY <1>1, <3>1, <3>2
    <2>3. NearestNode' \in RpcNodes
      <3>1. (rpcNode \in [RpcNodes -> RpcNodeRow] => NearestNode \in RpcNodes)'
        BY NearestIsANode, PTL
      <3> QED BY <1>1, <2>2, <3>1
    <2>4. errors \in Nat /\ more \in Seq(RpcNodes)
      BY <1>2, <2>1
    <2>5. \/ Throw(c)
          \/ /\ UNCHANGED breaker
             /\ \/ rpcCall' = [rpcCall EXCEPT ![c].errors = errors, ![c].left = more]
                \/ rpcCall' = [rpcCall EXCEPT ![c].stage = "emergency", ![c].errors = 0,
                                              ![c].left = <<NearestNode'>>]
      BY <1>7 DEF NodeFails
    <2> HIDE DEF errors, more
    <2>6. [rpcCall[c] EXCEPT !.errors = errors, !.left = more] \in RpcCallRow
      BY <1>2, <2>4 DEF RpcCallRow
    <2>7. [rpcCall[c] EXCEPT !.stage = "emergency", !.errors = 0, !.left = <<NearestNode'>>] \in RpcCallRow
      <3>1. <<NearestNode'>> \in Seq(RpcNodes)
        BY <2>3
      <3> HIDE DEF n
      <3> QED BY <1>2, <3>1 DEF RpcCallRow
    <2>8. CASE rpcCall' = [rpcCall EXCEPT ![c].errors = errors, ![c].left = more] /\ UNCHANGED breaker
      <3>1. rpcCall' = [rpcCall EXCEPT ![c] = [rpcCall[c] EXCEPT !.errors = errors, !.left = more]]
        BY <1>1, <2>8
      <3>2. rpcCall' \in [RpcCalls -> RpcCallRow]
        BY <1>1, <2>6, <3>1
      <3> QED BY <1>1, <2>1, <2>2, <2>8, <3>2 DEF RpcTyped
    <2>9. CASE rpcCall' = [rpcCall EXCEPT ![c].stage = "emergency", ![c].errors = 0,
                                          ![c].left = <<NearestNode'>>] /\ UNCHANGED breaker
      <3>1. rpcCall' = [rpcCall EXCEPT ![c] =
              [rpcCall[c] EXCEPT !.stage = "emergency", !.errors = 0, !.left = <<NearestNode'>>]]
        BY <1>1, <2>9
      <3>2. rpcCall' \in [RpcCalls -> RpcCallRow]
        BY <1>1, <2>7, <3>1
      <3> QED BY <1>1, <2>1, <2>2, <2>9, <3>2 DEF RpcTyped
    <2>10. CASE Throw(c)
      BY <1>1, <1>5, <2>1, <2>2, <2>10 DEF RpcTyped
    <2> QED BY <2>5, <2>8, <2>9, <2>10
  <1>8. ASSUME NEW c \in RpcCalls, NodeAnswers(c) PROVE RpcInv'
    <2>1. rpcNode' \in [RpcNodes -> GoodNodes] /\ UNCHANGED clock
      BY <1>1, <1>8, NodesStayGood DEF NodeAnswers
    <2>2. cursor' \in 0..(CursorModulus - 1)
      <3>1. \A a \in Nat, b \in Nat \ {0} : a % b \in 0..(b - 1)
        OBVIOUS
      <3> QED BY <1>1, <1>8, <3>1 DEF NodeAnswers
    <2> QED BY <1>1, <1>5, <1>8, <2>1, <2>2 DEF NodeAnswers, RpcTyped
  <1>9. ASSUME NEW c \in RpcCalls, EmergencyAnswers(c) \/ EmergencyFails(c) PROVE RpcInv'
    <2>1. rpcNode' \in [RpcNodes -> GoodNodes] /\ UNCHANGED <<cursor, clock>>
      BY <1>1, <1>9, NodesStayGood DEF EmergencyAnswers, EmergencyFails
    <2>2. Return(c) \/ Throw(c)
      BY <1>9 DEF EmergencyAnswers, EmergencyFails
    <2> QED BY <1>1, <1>5, <2>1, <2>2 DEF RpcTyped
  <1>10. ASSUME NEW c \in RpcCalls, Refuse(c) \/ TimesOut(c) \/ CallerLeaves(c) PROVE RpcInv'
    <2>1. UNCHANGED <<rpcNode, cursor, clock>> /\ breaker' \in {"closed", "open", "halfOpen", "probing"}
      BY <1>1, <1>10 DEF Refuse, TimesOut, CallerLeaves, BreakerFails
    <2>2. \A answer \in {"refused", "timeout"} : [rpcCall[c] EXCEPT !.answer = answer] \in RpcCallRow
      BY <1>2 DEF RpcCallRow
    <2>3. rpcCall' \in [RpcCalls -> RpcCallRow]
      BY <1>1, <1>10, <2>2, IdleCallTyped DEF Refuse, TimesOut, CallerLeaves
    <2> QED BY <1>1, <2>1, <2>3 DEF RpcTyped
  <1>11. CASE BreakerHalfOpens \/ Tick \/ UNCHANGED rpcVars
    BY <1>1, <1>11 DEF BreakerHalfOpens, Tick, rpcVars
  <1> QED
    BY <1>6, <1>7, <1>8, <1>9, <1>10, <1>11 DEF RpcNext, RpcTyped

\* executeWithFailover: a node is out of the pool exactly while it has failed
\* MAX_CONSECUTIVE_FAILURES times in a row and has a cooldown, for any nodes, limits and
\* calls that overlap, whichever of them time out first; and every call asks nodes of the
\* list only.
THEOREM PoolStaysConsistent == RpcSpec => []RpcTypeOK
  BY RpcInitInv, RpcStepInv, RpcInvImplies, PTL DEF RpcSpec

-----------------------------------------------------------------------------
(* The reputation of a collector.                                          *)

\* Between one star and five for every rating that is counted.
FairReputation == {rep \in Reputation : /\ rep.totalRatings <= rep.stars
                                        /\ rep.stars <= 5 * rep.totalRatings}
RaterRow == [stage : {"idle", "rate", "collector", "reputation"}, request : Rateable,
             stars : 0..5, read : FairReputation]
RatingsInv ==
  /\ rating \in [Rateable -> 0..5]
  /\ reputation \in FairReputation
  /\ rater \in [Raters -> RaterRow]
  /\ \A c \in Raters : ~Rating(c, "idle") => rater[c].stars \in 1..5

LEMMA RatingsInvImplies == RatingsInv => RatingsTypeOK
  BY DEF RatingsInv, RatingsTypeOK, FairReputation, RaterRow

LEMMA NoRaterTyped == NoRater \in RaterRow /\ NoRater.stage = "idle"
  BY RatingsAssumption DEF RatingsAssumption, NoRater, RaterRow, Unrated, FairReputation, Reputation

LEMMA RatingsStepInv == RatingsInv /\ [RatingsNext]_ratingVars => RatingsInv'
  <1> SUFFICES ASSUME RatingsInv, [RatingsNext]_ratingVars PROVE RatingsInv'
    OBVIOUS
  <1>1. /\ rating \in [Rateable -> 0..5] /\ reputation \in FairReputation
        /\ rater \in [Raters -> RaterRow] /\ Stars \subseteq 1..5
        /\ NoRater \in RaterRow /\ NoRater.stage = "idle"
    BY NoRaterTyped, RatingsAssumption DEF RatingsInv, RatingsAssumption
  <1>2. ASSUME NEW c \in Raters, NEW row \in RaterRow, rater' = [rater EXCEPT ![c] = row],
               row.stage # "idle" => row.stars \in 1..5,
               rating' \in [Rateable -> 0..5], reputation' \in FairReputation
        PROVE  RatingsInv'
    <2>1. rater'[c] = row /\ \A d \in Raters \ {c} : rater'[d] = rater[d]
      BY <1>1, <1>2
    <2>2. \A d \in Raters : ~Rating(d, "idle")' => rater'[d].stars \in 1..5
      BY <1>2, <2>1 DEF RatingsInv, Rating
    <2> QED BY <1>1, <1>2, <2>2 DEF RatingsInv
  <1>3. \A c \in Raters : /\ rater[c] \in RaterRow /\ rater[c].stars \in 0..5 /\ rater[c].request \in Rateable
                          /\ rater[c].read \in FairReputation
                          /\ ~Rating(c, "idle") => rater[c].stars \in 1..5
    BY <1>1 DEF RaterRow, RatingsInv
  <1>4. ASSUME NEW c \in Raters, NEW r \in Rateable, NEW stars \in Stars, ReadRequest(c, r, stars)
        PROVE  RatingsInv'
    <2> DEFINE row == [NoRater EXCEPT !.stage = "rate", !.request = r, !.stars = stars]
    <2>0. stars \in 1..5 /\ stars \in 0..5
      BY <1>1
    <2>1. row \in RaterRow /\ row.stars = stars
      BY <1>1, <2>0 DEF RaterRow
    <2>2. rater' = [rater EXCEPT ![c] = row] /\ UNCHANGED <<rating, reputation>>
      BY <1>4 DEF ReadRequest
    <2> HIDE DEF row
    <2> QED BY <1>1, <1>2, <2>0, <2>1, <2>2
  <1>5. ASSUME NEW c \in Raters, WriteRating(c) PROVE RatingsInv'
    <2> DEFINE row == [rater[c] EXCEPT !.stage = "collector"]
    <2>1. row \in RaterRow /\ row.stars \in 1..5
      BY <1>3, <1>5 DEF RaterRow, WriteRating, Rating
    <2>2. rater' = [rater EXCEPT ![c] = row] /\ UNCHANGED reputation
      BY <1>1, <1>5 DEF WriteRating
    <2>3. rating' \in [Rateable -> 0..5]
      BY <1>1, <1>3, <1>5 DEF WriteRating
    <2> HIDE DEF row
    <2> QED BY <1>1, <1>2, <2>1, <2>2, <2>3
  <1>6. ASSUME NEW c \in Raters, ReadCollector(c) PROVE RatingsInv'
    <2> DEFINE row == [rater[c] EXCEPT !.stage = "reputation", !.read = reputation]
    <2>1. row \in RaterRow /\ row.stars \in 1..5
      BY <1>1, <1>3, <1>6 DEF RaterRow, ReadCollector, Rating
    <2>2. rater' = [rater EXCEPT ![c] = row] /\ UNCHANGED <<rating, reputation>>
      BY <1>1, <1>6 DEF ReadCollector
    <2> HIDE DEF row
    <2> QED BY <1>1, <1>2, <2>1, <2>2
  <1>7. ASSUME NEW c \in Raters, WriteReputation(c) PROVE RatingsInv'
    <2> DEFINE stars == rater[c].read.stars + rater[c].stars
               total == rater[c].read.totalRatings + 1
    <2>1. rater[c].read \in FairReputation /\ rater[c].stars \in 1..5
      BY <1>3, <1>7 DEF WriteReputation, Rating
    <2>2. /\ rater[c].read.stars \in Nat /\ rater[c].read.totalRatings \in Nat
          /\ rater[c].read.requiresQaReview \in BOOLEAN
          /\ rater[c].read.totalRatings <= rater[c].read.stars
          /\ rater[c].read.stars <= 5 * rater[c].read.totalRatings
      BY <2>1 DEF FairReputation, Reputation
    <2>3. stars \in Nat /\ total \in Nat /\ total <= stars /\ stars <= 5 * total
      BY <2>1, <2>2
    <2>4. /\ reputation' = [stars |-> stars, totalRatings |-> total,
                            requiresQaReview |-> NeedsQa(stars, total)
                                                   \/ rater[c].read.requiresQaReview]
          /\ rater' = [rater EXCEPT ![c] = NoRater] /\ UNCHANGED rating
      BY <1>7 DEF WriteReputation
    <2> HIDE DEF stars, total
    <2>5. (NeedsQa(stars, total) \/ rater[c].read.requiresQaReview) \in BOOLEAN
      OBVIOUS
    <2>6. reputation' \in FairReputation
      BY <2>3, <2>4, <2>5 DEF FairReputation, Reputation
    <2> QED BY <1>1, <1>2, <2>4, <2>6
  <1>8. ASSUME NEW c \in Raters, RatingFails(c) PROVE RatingsInv'
    BY <1>1, <1>2, <1>8 DEF RatingFails
  <1>9. CASE UNCHANGED ratingVars
    BY <1>9 DEF ratingVars, RatingsInv, Rating
  <1> QED
    BY <1>4, <1>5, <1>6, <1>7, <1>8, <1>9 DEF RatingsNext

\* rateCollectionRequest: the score of a collector stays between one star and five, and the
\* number of ratings with it, although calls that overlap overwrite each other.
THEOREM ScoresStayFair == RatingsSpec => []RatingsTypeOK
  <1>1. RatingsInit => RatingsInv
    BY NoRaterTyped DEF RatingsInit, RatingsInv, Unrated, FairReputation, Reputation, Rating
  <1> QED
    BY <1>1, RatingsStepInv, RatingsInvImplies, PTL DEF RatingsSpec

-----------------------------------------------------------------------------
(* Pushes and the devices they go to.                                      *)

DeviceCallRow == [stage : {"idle", "sync", "write", "clear"}, job : {"none", "register", "update"},
                  user : Owners \union {NoOne}, device : Devices \union {NoOne}]
PushRow == [stage : {"idle", "devices", "user", "send", "prune", "pruneUser", "done"},
            user : Owners \union {NoOne}, isRead : BOOLEAN, stored : BOOLEAN,
            fcm : Devices \union {NoOne}, tokens : SUBSET Devices, refused : SUBSET Devices]

\* A push that was sent is for a user, and only a token it was sent to is refused.
PushConsistent(row) ==
  /\ row.refused \subseteq row.tokens
  /\ row.stage = "devices" => row.refused = {}
  /\ IF row.stage = "idle" THEN ~row.stored ELSE row.user \in Owners
GoodPushes == {row \in PushRow : PushConsistent(row)}

PushInv ==
  /\ deviceToken \in [Devices -> Owners \union {NoOne}]
  /\ fcmToken \in [Owners -> Devices \union {NoOne}]
  /\ removed \subseteq Devices
  /\ deviceCall \in [DeviceCalls -> DeviceCallRow]
  /\ push \in [Pushes -> GoodPushes]

LEMMA PushInvImplies == PushInv => PushTypeOK
  <1> SUFFICES ASSUME PushInv PROVE PushTypeOK
    OBVIOUS
  <1>1. \A n \in Pushes : push[n] \in PushRow /\ PushConsistent(push[n])
    BY DEF PushInv, GoodPushes
  <1>2. \A n \in Pushes :
          /\ push[n].stage \in {"idle", "devices", "user", "send", "prune", "pruneUser", "done"}
          /\ push[n].refused \subseteq push[n].tokens /\ push[n].tokens \subseteq Devices
          /\ push[n].stored => push[n].user \in Owners
    BY <1>1 DEF PushRow, PushConsistent
  <1> QED
    BY <1>2 DEF PushTypeOK, PushInv, DeviceCallRow

LEMMA FreshPush == NoPush \in GoodPushes /\ IdleCall \in DeviceCallRow
  BY DEF NoPush, IdleCall, GoodPushes, PushRow, PushConsistent, DeviceCallRow

LEMMA PushInitInv == PushInit => PushInv
  BY FreshPush DEF PushInit, PushInv

\* The tokens of the devices, and the calls of their owners.
LEMMA DevicesKeepInv ==
  ASSUME PushInv, push' = push,
         \/ \E c \in DeviceCalls, u \in Owners, d \in Devices, job \in {"register", "update"} :
              RegisterDevice(c, u, d, job)
         \/ \E c \in DeviceCalls, u \in Owners, d \in Devices : RegisterFails(c, u, d)
         \/ \E c \in DeviceCalls, u \in Owners, devices \in {{d} : d \in Devices} \union {Devices} :
              UnregisterDevices(c, u, devices)
         \/ \E c \in DeviceCalls :
              SyncFcmToken(c) \/ WriteFcmToken(c) \/ ClearFcmToken(c) \/ DeviceCallDies(c)
         \/ \E d \in Devices : RemoveApp(d)
  PROVE  PushInv'
  <1>1. /\ deviceToken \in [Devices -> Owners \union {NoOne}]
        /\ fcmToken \in [Owners -> Devices \union {NoOne}]
        /\ removed \subseteq Devices /\ deviceCall \in [DeviceCalls -> DeviceCallRow]
        /\ IdleCall \in DeviceCallRow
    BY FreshPush DEF PushInv
  <1>2. \A c \in DeviceCalls : /\ deviceCall[c] \in DeviceCallRow
                               /\ deviceCall[c].device \in Devices \union {NoOne}
    BY <1>1 DEF DeviceCallRow
  <1>3. ASSUME NEW c \in DeviceCalls, NEW stage \in {"idle", "sync", "write", "clear"}, CallGoes(c, stage)
        PROVE  deviceCall' \in [DeviceCalls -> DeviceCallRow]
    <2> DEFINE row == IF stage = "idle" THEN IdleCall ELSE [deviceCall[c] EXCEPT !.stage = stage]
    <2>1. row \in DeviceCallRow
      BY <1>1, <1>2 DEF DeviceCallRow
    <2>2. deviceCall' = [deviceCall EXCEPT ![c] = row]
      BY <1>1, <1>3 DEF CallGoes
    <2> HIDE DEF row
    <2> QED BY <1>1, <2>1, <2>2
  <1>4. ASSUME deviceToken' \in [Devices -> Owners \union {NoOne}],
               fcmToken' \in [Owners -> Devices \union {NoOne}],
               removed' \subseteq Devices, deviceCall' \in [DeviceCalls -> DeviceCallRow]
        PROVE  PushInv'
    BY <1>4 DEF PushInv
  <1>5. ASSUME NEW c \in DeviceCalls, NEW u \in Owners, NEW d \in Devices, NEW job \in {"register", "update"},
               RegisterDevice(c, u, d, job) \/ RegisterFails(c, u, d)
        PROVE  PushInv'
    <2>1. deviceCall' \in [DeviceCalls -> DeviceCallRow]
      BY <1>1, <1>5 DEF RegisterDevice, RegisterFails, DeviceCallRow
    <2> QED BY <1>1, <1>4, <1>5, <2>1 DEF RegisterDevice, RegisterFails
  <1>6. ASSUME NEW c \in DeviceCalls, NEW u \in Owners, NEW devices, UnregisterDevices(c, u, devices)
        PROVE  PushInv'
    <2> DEFINE row == [IdleCall EXCEPT !.stage = "clear", !.user = u]
    <2>1. row \in DeviceCallRow
      BY DEF IdleCall, DeviceCallRow
    <2>2. deviceCall' = [deviceCall EXCEPT ![c] = row]
      BY <1>6 DEF UnregisterDevices
    <2> HIDE DEF row
    <2>3. deviceToken' \in [Devices -> Owners \union {NoOne}]
      BY <1>1, <1>6 DEF UnregisterDevices
    <2> QED BY <1>1, <1>4, <1>6, <2>1, <2>2, <2>3 DEF UnregisterDevices
  <1>7. ASSUME NEW c \in DeviceCalls,
               SyncFcmToken(c) \/ WriteFcmToken(c) \/ ClearFcmToken(c) \/ DeviceCallDies(c)
        PROVE  PushInv'
    <2>1. \E stage \in {"idle", "write"} : CallGoes(c, stage)
      BY <1>7 DEF SyncFcmToken, WriteFcmToken, ClearFcmToken, DeviceCallDies
    <2>2. deviceCall' \in [DeviceCalls -> DeviceCallRow]
      BY <1>3, <2>1
    <2>3. fcmToken' \in [Owners -> Devices \union {NoOne}] /\ UNCHANGED <<deviceToken, removed>>
      BY <1>1, <1>2, <1>7 DEF SyncFcmToken, WriteFcmToken, ClearFcmToken, DeviceCallDies
    <2> QED BY <1>1, <1>4, <2>2, <2>3
  <1>8. ASSUME NEW d \in Devices, RemoveApp(d) PROVE PushInv'
    BY <1>1, <1>4, <1>8 DEF RemoveApp
  <1>9. "register" \in {"register", "update"}
    OBVIOUS
  <1> QED
    BY <1>5, <1>6, <1>7, <1>8, <1>9

\* One push goes on.
LEMMA PushMoves ==
  ASSUME PushInv, NEW n \in Pushes, NEW row \in GoodPushes, push' = [push EXCEPT ![n] = row],
         UNCHANGED <<removed, deviceCall>>,
         deviceToken' \in [Devices -> Owners \union {NoOne}],
         fcmToken' \in [Owners -> Devices \union {NoOne}]
  PROVE  PushInv'
  BY DEF PushInv

LEMMA PushStepInv == PushInv /\ [PushNext]_pushVars => PushInv'
  <1> SUFFICES ASSUME PushInv, [PushNext]_pushVars PROVE PushInv'
    OBVIOUS
  <1>1. /\ deviceToken \in [Devices -> Owners \union {NoOne}]
        /\ fcmToken \in [Owners -> Devices \union {NoOne}]
        /\ push \in [Pushes -> GoodPushes]
    BY DEF PushInv
  <1>2. \A n \in Pushes : /\ push[n] \in PushRow /\ PushConsistent(push[n])
                          /\ push[n] \in GoodPushes /\ push[n].tokens \subseteq Devices
    BY <1>1 DEF GoodPushes, PushRow
  <1>3. ASSUME NEW n \in Pushes, NEW u \in Owners, SendPush(n, u) PROVE PushInv'
    <2>1. PICK stored \in BOOLEAN :
            push' = [push EXCEPT ![n] = [NoPush EXCEPT !.stage = "devices", !.user = u, !.stored = stored]]
      BY <1>3 DEF SendPush
    <2> DEFINE row == [NoPush EXCEPT !.stage = "devices", !.user = u, !.stored = stored]
    <2>2. row \in GoodPushes
      BY DEF NoPush, GoodPushes, PushRow, PushConsistent
    <2>3. push' = [push EXCEPT ![n] = row]
      BY <2>1
    <2> HIDE DEF row
    <2> QED BY <1>1, <1>3, <2>2, <2>3, PushMoves DEF SendPush, deviceVars
  <1>4. ASSUME NEW n \in Pushes, ReadDevices(n) PROVE PushInv'
    <2> DEFINE row == [push[n] EXCEPT !.stage = "user",
                                      !.tokens = {d \in Devices : deviceToken[d] = push[n].user}]
    <2>1. row \in GoodPushes
      BY <1>2, <1>4 DEF GoodPushes, PushRow, PushConsistent, ReadDevices, PushAt
    <2>2. push' = [push EXCEPT ![n] = row]
      BY <1>1, <1>4 DEF ReadDevices
    <2> HIDE DEF row
    <2> QED BY <1>1, <1>4, <2>1, <2>2, PushMoves DEF ReadDevices, deviceVars
  <1>5. ASSUME NEW n \in Pushes, ReadFcmToken(n) PROVE PushInv'
    <2>1. PICK fcm \in Devices \union {NoOne} : fcm = fcmToken[push[n].user]
      BY <1>1, <1>2, <1>5 DEF PushConsistent, ReadFcmToken, PushAt
    <2>2. PICK tokens \in SUBSET Devices : tokens = push[n].tokens \union ({fcm} \ {NoOne})
      BY <1>2, <2>1
    <2>3. PICK stage \in {"done", "send"} : stage = IF tokens = {} THEN "done" ELSE "send"
      OBVIOUS
    <2> DEFINE row == [push[n] EXCEPT !.stage = stage, !.fcm = fcm, !.tokens = tokens]
    <2>4. row \in GoodPushes
      BY <1>2, <1>5, <2>2 DEF GoodPushes, PushRow, PushConsistent, ReadFcmToken, PushAt
    <2>5. push' = [push EXCEPT ![n] = row]
      BY <1>1, <1>5, <2>1, <2>2, <2>3 DEF ReadFcmToken
    <2> HIDE DEF row
    <2> QED BY <1>1, <1>5, <2>4, <2>5, PushMoves DEF ReadFcmToken, deviceVars
  <1>6. ASSUME NEW n \in Pushes, NEW stage \in {"done", "pruneUser"}, PushGoes(n, stage),
               push[n].stage # "idle", UNCHANGED <<removed, deviceCall>>,
               deviceToken' \in [Devices -> Owners \union {NoOne}],
               fcmToken' \in [Owners -> Devices \union {NoOne}]
        PROVE  PushInv'
    <2> DEFINE row == [push[n] EXCEPT !.stage = stage]
    <2>1. row \in GoodPushes
      BY <1>2, <1>6 DEF GoodPushes, PushRow, PushConsistent
    <2>2. push' = [push EXCEPT ![n] = row]
      BY <1>1, <1>6 DEF PushGoes
    <2> HIDE DEF row
    <2> QED BY <1>6, <2>1, <2>2, PushMoves
  <1>7. ASSUME NEW n \in Pushes, Multicast(n) PROVE PushInv'
    <2>1. CASE PushGoes(n, "done")
      BY <1>1, <1>6, <1>7, <2>1 DEF Multicast, PushAt, deviceVars
    <2>2. CASE push' = [push EXCEPT ![n].stage = IF push[n].tokens \cap removed = {} THEN "done" ELSE "prune",
                                    ![n].refused = push[n].tokens \cap removed]
      <3>1. PICK stage \in {"done", "prune"} :
              stage = IF push[n].tokens \cap removed = {} THEN "done" ELSE "prune"
        OBVIOUS
      <3>2. PICK refused \in SUBSET push[n].tokens : refused = push[n].tokens \cap removed
        OBVIOUS
      <3> DEFINE row == [push[n] EXCEPT !.stage = stage, !.refused = refused]
      <3>3. row \in GoodPushes
        BY <1>2, <1>7, <3>2 DEF GoodPushes, PushRow, PushConsistent, Multicast, PushAt
      <3>4. push' = [push EXCEPT ![n] = row]
        BY <1>1, <2>2, <3>1, <3>2
      <3> HIDE DEF row
      <3> QED BY <1>1, <1>7, <3>3, <3>4, PushMoves DEF Multicast, deviceVars
    <2> QED BY <1>7, <2>1, <2>2 DEF Multicast
  <1>8. ASSUME NEW n \in Pushes, PruneDevices(n) \/ PruneFcmToken(n) PROVE PushInv'
    <2>1. /\ deviceToken' \in [Devices -> Owners \union {NoOne}]
          /\ fcmToken' \in [Owners -> Devices \union {NoOne}]
          /\ UNCHANGED <<removed, deviceCall>> /\ push[n].stage # "idle"
      BY <1>1, <1>8 DEF PruneDevices, PruneFcmToken, PushAt
    <2>2. \E stage \in {"done", "pruneUser"} : PushGoes(n, stage)
      BY <1>8 DEF PruneDevices, PruneFcmToken
    <2> QED BY <1>6, <2>1, <2>2
  <1>9. ASSUME NEW n \in Pushes, PushRunsAgain(n) PROVE PushInv'
    <2> DEFINE row == [push[n] EXCEPT !.stage = "devices", !.fcm = NoOne, !.tokens = {}, !.refused = {}]
    <2>1. row \in GoodPushes
      BY <1>2, <1>9 DEF GoodPushes, PushRow, PushConsistent, PushRunsAgain
    <2>2. push' = [push EXCEPT ![n] = row]
      BY <1>1, <1>9 DEF PushRunsAgain
    <2> HIDE DEF row
    <2> QED BY <1>1, <1>9, <2>1, <2>2, PushMoves DEF PushRunsAgain, deviceVars
  <1>10. \A n \in Pushes, isRead \in BOOLEAN : [push[n] EXCEPT !.isRead = isRead] \in GoodPushes
    BY <1>2 DEF GoodPushes, PushRow, PushConsistent
  <1>11. ASSUME NEW n \in Pushes, NEW isRead \in BOOLEAN, UpdateStatus(n, isRead) PROVE PushInv'
    <2> DEFINE row == [push[n] EXCEPT !.isRead = isRead]
    <2>1. row \in GoodPushes /\ push' = [push EXCEPT ![n] = row]
      BY <1>1, <1>10, <1>11 DEF UpdateStatus
    <2> HIDE DEF row
    <2> QED BY <1>1, <1>11, <2>1, PushMoves DEF UpdateStatus, deviceVars
  <1>12. ASSUME NEW u \in Owners, MarkAllAsRead(u) PROVE PushInv'
    <2>1. push' \in [Pushes -> GoodPushes]
      BY <1>2, <1>10, <1>12 DEF MarkAllAsRead
    <2> QED BY <1>12, <2>1 DEF MarkAllAsRead, PushInv, deviceVars
  <1>13. CASE UNCHANGED pushVars
    BY <1>13 DEF pushVars, deviceVars, PushInv
  <1>14. ASSUME \/ \E c \in DeviceCalls, u \in Owners, d \in Devices, job \in {"register", "update"} :
                     RegisterDevice(c, u, d, job)
                \/ \E c \in DeviceCalls, u \in Owners, d \in Devices : RegisterFails(c, u, d)
                \/ \E c \in DeviceCalls, u \in Owners, devices \in {{d} : d \in Devices} \union {Devices} :
                     UnregisterDevices(c, u, devices)
                \/ \E c \in DeviceCalls :
                     SyncFcmToken(c) \/ WriteFcmToken(c) \/ ClearFcmToken(c) \/ DeviceCallDies(c)
                \/ \E d \in Devices : RemoveApp(d)
         PROVE  PushInv'
    <2>1. push' = push
      BY <1>14 DEF RegisterDevice, RegisterFails, UnregisterDevices, SyncFcmToken, WriteFcmToken,
                   ClearFcmToken, DeviceCallDies, RemoveApp
    <2> QED BY <1>14, <2>1, DevicesKeepInv
  <1> QED
    BY <1>3, <1>4, <1>5, <1>7, <1>8, <1>9, <1>11, <1>12, <1>13, <1>14 DEF PushNext

\* NotificationsService: a push goes to tokens of devices only, those it is refused for are
\* among those it was sent to, and a stored notification is a user's.
THEOREM PushesStayConsistent == PushSpec => []PushTypeOK
  BY PushInitInv, PushStepInv, PushInvImplies, PTL DEF PushSpec

-----------------------------------------------------------------------------
(* The rows of the users, their copies and their applications.             *)

Jobs == {"none", "update", "cancel", "kyc", "createProfile", "updateProfile", "openProfile"}
ReviewStages == {"review", "decide", "sponsor", "save"}
PlainStages ==
  Jobs \union {"idle", "lookup", "found", "query", "read", "evict", "updating", "cancelling",
               "newOwner", "addProfile", "owner", "setProfile", "readOwner", "baseProfile",
               "locate", "business", "file"}
Verdicts == {"APPROVED", "REJECTED", "OBSERVED"}

PersonRow == [active : BOOLEAN, deleted : BOOLEAN, personal : BOOLEAN, vault : BOOLEAN,
              kycStatus : KycStatus \union {"UNVERIFIED"}, sponsored : BOOLEAN, profiled : BOOLEAN]
ApplicationRow == [status : KycStatus, retryCount : 0..(MaxObserved + 1), document : BOOLEAN]
VisitRow == [stage : PlainStages \union ReviewStages, server : Servers, person : People, job : Jobs,
             copy : Copies, verdict : Verdicts \union {"none"}, filed : Nat,
             retryCount : 0..(MaxObserved + 1), sponsored : BOOLEAN]

\* A review has a verdict, and observes only what may be observed once more.
VisitOK(row) ==
  /\ row.stage \in ReviewStages => row.verdict \in Verdicts
  /\ row.stage \in {"review", "decide"} /\ row.verdict = "OBSERVED" => row.retryCount <= MaxObserved
GoodVisits == {row \in VisitRow : VisitOK(row)}

RowsTyped ==
  /\ person \in [People -> PersonRow]
  /\ application \in [People -> Seq(ApplicationRow)]
  /\ memory \in [Servers -> [People -> Copies]]
  /\ redis \in [People -> Copies]
ProfilesInv == RowsTyped /\ visit \in [ProfileCalls -> GoodVisits]

LEMMA ProfilesInvImplies == ProfilesInv => ProfilesTypeOK
  <1> SUFFICES ASSUME ProfilesInv PROVE ProfilesTypeOK
    OBVIOUS
  <1>1. \A c \in ProfileCalls : visit[c] \in VisitRow
    BY DEF ProfilesInv, GoodVisits
  <1>2. \A c \in ProfileCalls : visit[c].server \in Servers /\ visit[c].copy \in Copies
    BY <1>1 DEF VisitRow
  <1>3. \A p \in People : application[p] \in Seq(ApplicationRow)
    BY DEF ProfilesInv, RowsTyped
  <1> QED
    BY <1>2, <1>3 DEF ProfilesTypeOK, ProfilesInv, RowsTyped, PersonRow, ApplicationRow

LEMMA NewVisit == /\ NoVisit \in VisitRow /\ NoVisit \in GoodVisits
                  /\ NoVisit.stage = "idle" /\ NoVisit.copy = Absent /\ Absent \in Copies
  <1>1. 0 \in 0..(MaxObserved + 1) /\ (CHOOSE s \in Servers : TRUE) \in Servers
        /\ (CHOOSE p \in People : TRUE) \in People /\ Absent \in Copies
    BY ProfilesAssumption DEF ProfilesAssumption, Absent, Copies
  <1>2. NoVisit \in VisitRow
    BY <1>1 DEF NoVisit, VisitRow, PlainStages, Jobs
  <1> QED
    BY <1>1, <1>2 DEF NoVisit, GoodVisits, VisitOK, ReviewStages

LEMMA ProfilesInitInv == ProfilesInit => ProfilesInv
  <1> SUFFICES ASSUME ProfilesInit PROVE ProfilesInv
    OBVIOUS
  <1>1. \A profiled \in BOOLEAN : [NewPerson EXCEPT !.profiled = profiled] \in PersonRow
    BY DEF NewPerson, PersonRow
  <1>2. PICK profiled \in SUBSET Stores :
          person = [p \in People |-> [NewPerson EXCEPT !.profiled = p \in profiled]]
    BY DEF ProfilesInit
  <1>3. person \in [People -> PersonRow]
    <2>1. ASSUME NEW p \in People PROVE person[p] \in PersonRow
      <3>1. person[p] = [NewPerson EXCEPT !.profiled = (p \in profiled)]
        BY <1>2
      <3>2. (p \in profiled) \in BOOLEAN
        OBVIOUS
      <3> QED BY <1>1, <3>1, <3>2
    <2> QED BY <1>2, <2>1
  <1> QED
    BY <1>3, NewVisit, EmptySeq DEF ProfilesInit, ProfilesInv, RowsTyped

\* A call that goes on, and one that is over.
LEMMA VisitMoves ==
  ASSUME ProfilesInv, NEW c \in ProfileCalls
  PROVE  /\ \A stage \in PlainStages : Go(c, stage) => visit' \in [ProfileCalls -> GoodVisits]
         /\ Done(c) => visit' \in [ProfileCalls -> GoodVisits]
         /\ \A row \in GoodVisits : visit' = [visit EXCEPT ![c] = row] => visit' \in [ProfileCalls -> GoodVisits]
  <1>1. visit \in [ProfileCalls -> GoodVisits] /\ visit[c] \in VisitRow
    BY DEF ProfilesInv, GoodVisits
  <1>2. ASSUME NEW stage \in PlainStages, Go(c, stage) PROVE visit' \in [ProfileCalls -> GoodVisits]
    <2> DEFINE row == [visit[c] EXCEPT !.stage = stage]
    <2>1. stage \notin ReviewStages /\ stage \notin {"review", "decide"}
      BY DEF PlainStages, ReviewStages, Jobs
    <2>2. row \in VisitRow /\ row.stage = stage
      BY <1>1 DEF VisitRow
    <2>3. visit' = [visit EXCEPT ![c] = row]
      BY <1>1, <1>2 DEF Go
    <2> HIDE DEF row
    <2>4. row \in GoodVisits
      BY <2>1, <2>2 DEF GoodVisits, VisitOK
    <2> QED BY <1>1, <2>3, <2>4
  <1> QED
    BY <1>1, <1>2, NewVisit DEF Done

LEMMA VisitTyped ==
  ASSUME ProfilesInv, NEW c \in ProfileCalls
  PROVE  /\ visit[c] \in VisitRow /\ visit[c] \in GoodVisits /\ VisitOK(visit[c])
         /\ visit[c].server \in Servers /\ On(c) \in People /\ visit[c].copy \in Copies
         /\ visit[c].job \in Jobs /\ visit[c].filed \in Nat /\ visit[c].sponsored \in BOOLEAN
         /\ visit[c].retryCount \in 0..(MaxObserved + 1) /\ visit[c].verdict \in Verdicts \union {"none"}
  <1>1. visit[c] \in VisitRow /\ visit[c] \in GoodVisits /\ VisitOK(visit[c])
    BY DEF ProfilesInv, GoodVisits
  <1> QED
    BY <1>1 DEF VisitRow, On

\* The guard: the copies of a row and where they are looked up.
LEMMA GuardKeepsInv ==
  ASSUME ProfilesInv, NEW c \in ProfileCalls,
         \/ \E s \in Servers, p \in People, job \in Jobs : Arrive(c, s, p, job)
         \/ AskRedis(c) \/ AskDatabase(c) \/ Remember(c) \/ Evict(c)
  PROVE  ProfilesInv'
  <1>1. RowsTyped /\ visit \in [ProfileCalls -> GoodVisits]
    BY DEF ProfilesInv
  <1>2. /\ visit[c] \in VisitRow /\ visit[c].server \in Servers /\ On(c) \in People
        /\ visit[c].copy \in Copies /\ visit[c].job \in Jobs
    BY VisitTyped
  <1>3. PlainStages \cap ReviewStages = {} /\ "review" \in ReviewStages /\ "decide" \in ReviewStages
    BY DEF PlainStages, ReviewStages, Jobs
  <1>4. ASSUME NEW s \in Servers, NEW p \in People, NEW job \in Jobs, Arrive(c, s, p, job)
        PROVE  ProfilesInv'
    <2>1. PICK stage \in PlainStages : stage = IF memory[s][p].here THEN job ELSE "lookup"
      BY DEF PlainStages
    <2> DEFINE row == [NoVisit EXCEPT !.server = s, !.person = p, !.job = job, !.stage = stage]
    <2>2. row \in VisitRow /\ row.stage = stage
      BY NewVisit DEF VisitRow
    <2>3. visit' = [visit EXCEPT ![c] = row]
      BY <1>4, <2>1 DEF Arrive
    <2> HIDE DEF row
    <2>4. row \in GoodVisits
      BY <1>3, <2>2 DEF GoodVisits, VisitOK
    <2> QED BY <1>1, <1>4, <2>3, <2>4, VisitMoves DEF Arrive, ProfilesInv, RowsTyped
  <1>5. ASSUME AskRedis(c) PROVE ProfilesInv'
    <2>1. CASE Go(c, "query")
      BY <1>1, <1>5, <2>1, VisitMoves DEF AskRedis, ProfilesInv, RowsTyped, PlainStages
    <2>2. CASE visit' = [visit EXCEPT ![c].stage = "found", ![c].copy = redis[On(c)]]
      <3> DEFINE row == [visit[c] EXCEPT !.stage = "found", !.copy = redis[On(c)]]
      <3>1. redis[On(c)] \in Copies
        BY <1>1, <1>2 DEF RowsTyped
      <3>2. row \in VisitRow /\ row.stage = "found"
        BY <1>2, <3>1 DEF VisitRow, PlainStages
      <3>3. visit' = [visit EXCEPT ![c] = row]
        BY <1>1, <2>2
      <3> HIDE DEF row
      <3>4. row \in GoodVisits
        BY <3>2 DEF GoodVisits, VisitOK, ReviewStages
      <3> QED BY <1>1, <1>5, <3>3, <3>4, VisitMoves DEF AskRedis, ProfilesInv, RowsTyped
    <2> QED BY <1>5, <2>1, <2>2 DEF AskRedis
  <1>6. ASSUME AskDatabase(c) PROVE ProfilesInv'
    <2> DEFINE copy == [here |-> TRUE, active |-> person[On(c)].active, deleted |-> person[On(c)].deleted]
               row == [visit[c] EXCEPT !.stage = "read", !.copy = copy]
    <2>1. copy \in Copies
      BY <1>1, <1>2 DEF RowsTyped, PersonRow, Copies
    <2>2. visit' = [visit EXCEPT ![c] = row]
      BY <1>1, <1>6 DEF AskDatabase
    <2> HIDE DEF copy
    <2>3. row \in VisitRow /\ row.stage = "read"
      BY <1>2, <2>1 DEF VisitRow, PlainStages
    <2> HIDE DEF row
    <2>4. row \in GoodVisits
      BY <2>3 DEF GoodVisits, VisitOK, ReviewStages
    <2> QED BY <1>1, <1>6, <2>2, <2>4, VisitMoves DEF AskDatabase, ProfilesInv, RowsTyped
  <1>7. ASSUME Remember(c) PROVE ProfilesInv'
    <2> DEFINE row == [visit[c] EXCEPT !.stage = visit[c].job, !.copy = Absent]
    <2>1. memory' \in [Servers -> [People -> Copies]]
      BY <1>1, <1>2, <1>7 DEF Remember, RowsTyped
    <2>2. redis' \in [People -> Copies]
      BY <1>1, <1>2, <1>7 DEF Remember, RowsTyped
    <2>3. row \in VisitRow /\ row.stage \in PlainStages
      BY <1>2, NewVisit DEF VisitRow, PlainStages
    <2>4. visit' = [visit EXCEPT ![c] = row] \/ visit' = [visit EXCEPT ![c] = NoVisit]
      BY <1>1, <1>7 DEF Remember
    <2> HIDE DEF row
    <2>5. row \in GoodVisits
      BY <1>3, <2>3 DEF GoodVisits, VisitOK
    <2>6. visit' \in [ProfileCalls -> GoodVisits]
      BY <2>4, <2>5, NewVisit, VisitMoves
    <2> QED BY <1>1, <1>7, <2>1, <2>2, <2>6 DEF Remember, ProfilesInv, RowsTyped
  <1>8. ASSUME Evict(c) PROVE ProfilesInv'
    <2>1. memory' \in [Servers -> [People -> Copies]] /\ redis' \in [People -> Copies]
      BY <1>1, <1>2, <1>8, NewVisit DEF Evict, RowsTyped
    <2> QED BY <1>1, <1>8, <2>1, VisitMoves DEF Evict, ProfilesInv, RowsTyped
  <1> QED
    BY <1>4, <1>5, <1>6, <1>7, <1>8

\* The row of one person is written, and its call goes on or is over.
LEMMA PersonMoves ==
  ASSUME ProfilesInv, NEW c \in ProfileCalls, NEW p \in People,
         \/ person' = person
         \/ \E row \in PersonRow : person' = [person EXCEPT ![p] = row],
         Done(c) \/ \E stage \in PlainStages : Go(c, stage),
         UNCHANGED <<application, memory, redis>>
  PROVE  ProfilesInv'
  BY VisitMoves DEF ProfilesInv, RowsTyped

\* What the handlers write into it.
LEMMA PersonWritten ==
  ASSUME ProfilesInv, NEW p \in People
  PROVE  /\ person \in [People -> PersonRow] /\ person[p] \in PersonRow
         /\ [person[p] EXCEPT !.personal = TRUE] \in PersonRow
         /\ [person[p] EXCEPT !.kycStatus = "PENDING", !.personal = TRUE] \in PersonRow
         /\ Cancelled(person[p]) \in PersonRow
         /\ \A personal \in BOOLEAN :
              [person[p] EXCEPT !.profiled = TRUE, !.personal = @ \/ personal] \in PersonRow
         /\ \A active \in BOOLEAN : [person[p] EXCEPT !.active = active] \in PersonRow
         /\ \A active, sponsored \in BOOLEAN, verdict \in Verdicts :
              [person[p] EXCEPT !.kycStatus = verdict, !.active = active,
                                !.sponsored = @ \/ sponsored] \in PersonRow
  <1>1. person \in [People -> PersonRow] /\ person[p] \in PersonRow
    BY DEF ProfilesInv, RowsTyped
  <1>2. /\ person[p].personal \in BOOLEAN /\ person[p].sponsored \in BOOLEAN
        /\ \A other \in BOOLEAN : (person[p].personal \/ other) \in BOOLEAN
        /\ \A other \in BOOLEAN : (person[p].sponsored \/ other) \in BOOLEAN
    BY <1>1 DEF PersonRow
  <1>3. Cancelled(person[p]) \in PersonRow
    BY <1>1 DEF PersonRow, Cancelled
  <1>4. ASSUME NEW personal \in BOOLEAN
        PROVE  [person[p] EXCEPT !.profiled = TRUE, !.personal = @ \/ personal] \in PersonRow
    <2>1. PICK either \in BOOLEAN : either = (person[p].personal \/ personal)
      BY <1>2
    <2>2. [person[p] EXCEPT !.profiled = TRUE, !.personal = either] \in PersonRow
      BY <1>1 DEF PersonRow
    <2> QED BY <2>1, <2>2
  <1>5. ASSUME NEW active \in BOOLEAN, NEW sponsored \in BOOLEAN, NEW verdict \in Verdicts
        PROVE  [person[p] EXCEPT !.kycStatus = verdict, !.active = active,
                                 !.sponsored = @ \/ sponsored] \in PersonRow
    <2>1. PICK either \in BOOLEAN : either = (person[p].sponsored \/ sponsored)
      BY <1>2
    <2>2. [person[p] EXCEPT !.kycStatus = verdict, !.active = active, !.sponsored = either] \in PersonRow
      BY <1>1 DEF PersonRow, Verdicts, KycStatus
    <2> QED BY <2>1, <2>2
  <1>6. /\ [person[p] EXCEPT !.personal = TRUE] \in PersonRow
        /\ [person[p] EXCEPT !.kycStatus = "PENDING", !.personal = TRUE] \in PersonRow
        /\ \A active \in BOOLEAN : [person[p] EXCEPT !.active = active] \in PersonRow
    BY <1>1 DEF PersonRow, KycStatus
  <1> QED
    BY <1>1, <1>3, <1>4, <1>5, <1>6

\* The handlers of the owner and of the store that write the row.
LEMMA WritesKeepInv ==
  ASSUME ProfilesInv, NEW c \in ProfileCalls,
         \/ ReadForWrite(c) \/ WriteUpdate(c) \/ CreateProfile(c) \/ UpdateProfile(c)
         \/ GetOrCreateStoreProfile(c) \/ LocateStore(c) \/ WriteBusiness(c)
         \/ \E business \in BOOLEAN : MarkKycPending(c, business)
  PROVE  ProfilesInv'
  <1>1. /\ On(c) \in People /\ person \in [People -> PersonRow] /\ person[On(c)] \in PersonRow
        /\ visit[c] \in VisitRow /\ visit[c].copy \in Copies
    BY VisitTyped, PersonWritten
  <1>2. PICK p \in People : p = On(c)
    BY <1>1
  <1>3. /\ [person EXCEPT ![p].personal = TRUE] = [person EXCEPT ![p] = [person[p] EXCEPT !.personal = TRUE]]
        /\ [person EXCEPT ![p].kycStatus = "PENDING", ![p].personal = TRUE]
             = [person EXCEPT ![p] = [person[p] EXCEPT !.kycStatus = "PENDING", !.personal = TRUE]]
    BY <1>1, <1>2
  <1>4. ASSUME person' \in {person, [person EXCEPT ![p].personal = TRUE]},
               Done(c) \/ \E stage \in PlainStages : Go(c, stage),
               UNCHANGED <<application, memory, redis>>
        PROVE  ProfilesInv'
    BY <1>3, <1>4, PersonWritten, PersonMoves
  <1>5. ASSUME NEW personal \in BOOLEAN, AddProfile(p, personal)
        PROVE  person' = person \/ \E row \in PersonRow : person' = [person EXCEPT ![p] = row]
    <2>1. [person EXCEPT ![p].profiled = TRUE, ![p].personal = @ \/ personal]
            = [person EXCEPT ![p] = [person[p] EXCEPT !.profiled = TRUE, !.personal = @ \/ personal]]
      BY <1>1, <1>2
    <2> QED BY <1>5, <2>1, PersonWritten DEF AddProfile
  <1>6. ASSUME NEW stage, NEW next \in PlainStages, WriteOwner(c, stage, next) PROVE ProfilesInv'
    BY <1>2, <1>4, <1>6 DEF WriteOwner, SetOwner
  <1>7. ASSUME WriteProfile(c) PROVE ProfilesInv'
    BY <1>2, <1>5, <1>7, PersonMoves DEF WriteProfile
  <1>8. {"updating", "cancelling", "evict", "newOwner", "owner", "addProfile", "setProfile", "readOwner",
         "baseProfile", "business", "file"} \subseteq PlainStages
    BY DEF PlainStages
  <1>9. CASE ReadForWrite(c) \/ WriteUpdate(c) \/ LocateStore(c) \/ WriteBusiness(c)
    BY <1>2, <1>4, <1>8, <1>9 DEF ReadForWrite, WriteUpdate, LocateStore, WriteBusiness, SetOwner
  <1>10. ASSUME NEW business \in BOOLEAN, MarkKycPending(c, business) PROVE ProfilesInv'
    <2>1. \E row \in PersonRow : person' = [person EXCEPT ![p] = row]
      BY <1>2, <1>3, <1>10, PersonWritten DEF MarkKycPending
    <2>2. \E stage \in PlainStages : Go(c, stage)
      BY <1>8, <1>10 DEF MarkKycPending
    <2> QED BY <1>10, <2>1, <2>2, PersonMoves DEF MarkKycPending
  <1>11. CASE CreateProfile(c)
    BY <1>4, <1>6, <1>7, <1>8, <1>11 DEF CreateProfile
  <1>12. CASE UpdateProfile(c)
    BY <1>2, <1>4, <1>6, <1>7, <1>8, <1>12 DEF UpdateProfile
  <1>13. CASE GetOrCreateStoreProfile(c)
    <2>1. CASE UNCHANGED <<person, application, memory, redis>>
               /\ (Done(c) \/ Go(c, "readOwner"))
      BY <1>4, <1>8, <2>1
    <2>2. CASE /\ visit' = [visit EXCEPT ![c].stage = "baseProfile", ![c].copy.deleted = person[On(c)].deleted]
               /\ UNCHANGED <<person, application, memory, redis>>
      <3>1. PICK copy \in Copies : copy = [visit[c].copy EXCEPT !.deleted = person[On(c)].deleted]
        BY <1>1 DEF PersonRow, Copies
      <3> DEFINE row == [visit[c] EXCEPT !.stage = "baseProfile", !.copy = copy]
      <3>2. row \in VisitRow /\ row.stage = "baseProfile"
        BY <1>1, <1>8 DEF VisitRow
      <3>3. visit' = [visit EXCEPT ![c] = row]
        BY <1>1, <2>2, <3>1 DEF ProfilesInv, VisitRow
      <3> HIDE DEF row
      <3>4. row \in GoodVisits
        BY <3>2 DEF GoodVisits, VisitOK, ReviewStages
      <3> QED BY <2>2, <3>3, <3>4, VisitMoves DEF ProfilesInv, RowsTyped
    <2>3. CASE AddProfile(On(c), ~visit[c].copy.deleted) /\ Done(c) /\ UNCHANGED <<application, memory, redis>>
      <3>1. (~visit[c].copy.deleted) \in BOOLEAN
        OBVIOUS
      <3> QED BY <1>2, <1>5, <2>3, <3>1, PersonMoves
    <2> QED BY <1>13, <2>1, <2>2, <2>3 DEF GetOrCreateStoreProfile
  <1> QED
    BY <1>9, <1>10, <1>11, <1>12, <1>13

\* The applications of one person are written.
LEMMA ApplicationsMove ==
  ASSUME ProfilesInv, NEW p \in People, NEW filed \in Seq(ApplicationRow),
         application' = [application EXCEPT ![p] = filed], person' \in [People -> PersonRow],
         visit' \in [ProfileCalls -> GoodVisits], UNCHANGED <<memory, redis>>
  PROVE  ProfilesInv'
  BY DEF ProfilesInv, RowsTyped

LEMMA ApplicationTyped ==
  ASSUME ProfilesInv, NEW p \in People
  PROVE  /\ application \in [People -> Seq(ApplicationRow)] /\ application[p] \in Seq(ApplicationRow)
         /\ Len(application[p]) \in Nat /\ DOMAIN application[p] = 1..Len(application[p])
         /\ \A i \in 1..Len(application[p]) : application[p][i] \in ApplicationRow
         /\ ObservedSoFar(p) \in 0..(MaxObserved + 1)
  <1>1. application \in [People -> Seq(ApplicationRow)] /\ application[p] \in Seq(ApplicationRow)
    BY DEF ProfilesInv, RowsTyped
  <1>2. /\ Len(application[p]) \in Nat /\ DOMAIN application[p] = 1..Len(application[p])
        /\ \A i \in 1..Len(application[p]) : application[p][i] \in ApplicationRow
    BY <1>1, LenProperties, ElementOfSeq
  <1>3. application[p] # <<>> => Len(application[p]) \in 1..Len(application[p])
    BY <1>1, <1>2, EmptySeq
  <1>4. application[p] # <<>> => application[p][Len(application[p])].retryCount \in 0..(MaxObserved + 1)
    BY <1>2, <1>3 DEF ApplicationRow
  <1>5. 0 \in 0..(MaxObserved + 1)
    BY ProfilesAssumption DEF ProfilesAssumption
  <1> QED
    BY <1>1, <1>2, <1>4, <1>5 DEF ObservedSoFar

LEMMA CommitCancelKeepsInv ==
  ASSUME ProfilesInv, NEW c \in ProfileCalls, CommitCancel(c)
  PROVE  ProfilesInv'
  <1>1. PICK p \in People : p = On(c)
    BY VisitTyped
  <1> DEFINE refused == [i \in DOMAIN application[p] |->
                           [application[p][i] EXCEPT !.status = "REJECTED", !.document = FALSE]]
  <1>2. application' = [application EXCEPT ![p] = refused]
    BY <1>1, ApplicationTyped DEF CommitCancel
  <1>3. refused \in Seq(ApplicationRow)
    <2>1. ASSUME NEW row \in ApplicationRow
          PROVE  [row EXCEPT !.status = "REJECTED", !.document = FALSE] \in ApplicationRow
      BY DEF ApplicationRow, KycStatus
    <2>2. refused \in [1..Len(application[p]) -> ApplicationRow]
      BY <2>1, ApplicationTyped
    <2> HIDE DEF refused
    <2> QED BY <2>2, ApplicationTyped, SeqDef
  <1>4. person' \in [People -> PersonRow]
    BY <1>1, PersonWritten DEF CommitCancel
  <1>5. visit' \in [ProfileCalls -> GoodVisits]
    BY VisitMoves DEF CommitCancel, PlainStages
  <1> HIDE DEF refused
  <1> QED
    BY <1>2, <1>3, <1>4, <1>5, ApplicationsMove DEF CommitCancel

LEMMA FilingKeepsInv ==
  ASSUME ProfilesInv, NEW c \in ProfileCalls, FileApplication(c)
  PROVE  ProfilesInv'
  <1>1. PICK p \in People : p = On(c)
    BY VisitTyped
  <1>2. Filed("PENDING", TRUE) \in ApplicationRow
    BY ProfilesAssumption DEF Filed, ApplicationRow, KycStatus, ProfilesAssumption
  <1>3. Append(application[p], Filed("PENDING", TRUE)) \in Seq(ApplicationRow)
    BY <1>2, ApplicationTyped, AppendProperties
  <1>4. application' = [application EXCEPT ![p] = Append(application[p], Filed("PENDING", TRUE))]
    BY <1>1, ApplicationTyped DEF FileApplication
  <1> QED
    BY <1>3, <1>4, VisitMoves, ApplicationsMove DEF FileApplication, ProfilesInv, RowsTyped

\* A call that nothing but its own row changes for.
LEMMA OnlyVisitMoves ==
  ASSUME ProfilesInv, NEW c \in ProfileCalls, NEW row \in VisitRow, VisitOK(row),
         visit' = [visit EXCEPT ![c] = row], UNCHANGED <<person, application, memory, redis>>
  PROVE  ProfilesInv'
  <1>1. row \in GoodVisits
    BY DEF GoodVisits
  <1> QED
    BY <1>1, VisitMoves DEF ProfilesInv, RowsTyped

LEMMA OpeningReviewKeepsInv ==
  ASSUME ProfilesInv, NEW c \in ProfileCalls, NEW p \in People,
         ListStore(c, p) \/ \E verdict \in Verdicts : ReadApplication(c, p, verdict)
  PROVE  ProfilesInv'
  <1>1. CASE ListStore(c, p)
    <2> DEFINE row == [NoVisit EXCEPT !.stage = "locate", !.person = p]
    <2>1. row \in VisitRow /\ row.stage = "locate"
      BY NewVisit DEF VisitRow, PlainStages
    <2>2. visit' = [visit EXCEPT ![c] = row]
      BY <1>1 DEF ListStore
    <2> HIDE DEF row
    <2>3. VisitOK(row)
      BY <2>1 DEF VisitOK, ReviewStages
    <2> QED BY <1>1, <2>1, <2>2, <2>3, OnlyVisitMoves DEF ListStore
  <1>2. ASSUME NEW verdict \in Verdicts, ReadApplication(c, p, verdict) PROVE ProfilesInv'
    <2>1. PICK filed \in Nat : filed = Len(application[p])
      BY ApplicationTyped
    <2>2. PICK observed \in 0..(MaxObserved + 1) : observed = ObservedSoFar(p)
      BY ApplicationTyped
    <2> DEFINE row == [NoVisit EXCEPT !.stage = "review", !.person = p, !.verdict = verdict,
                                      !.filed = filed, !.retryCount = observed]
    <2>3. row \in VisitRow /\ row.stage = "review" /\ row.verdict = verdict /\ row.retryCount = observed
      BY NewVisit DEF VisitRow, ReviewStages
    <2>4. visit' = [visit EXCEPT ![c] = row]
      BY <1>2, <2>1, <2>2 DEF ReadApplication
    <2>5. verdict = "OBSERVED" => observed <= MaxObserved
      BY <1>2, <2>2 DEF ReadApplication
    <2> HIDE DEF row
    <2>6. VisitOK(row)
      BY <2>3, <2>5 DEF VisitOK
    <2> QED BY <1>2, <2>3, <2>4, <2>6, OnlyVisitMoves DEF ReadApplication
  <1> QED
    BY <1>1, <1>2

LEMMA ReadUserKeepsInv ==
  ASSUME ProfilesInv, NEW c \in ProfileCalls, ReadUser(c) \/ Sponsor(c)
  PROVE  ProfilesInv'
  <1>1. /\ visit \in [ProfileCalls -> GoodVisits] /\ visit[c] \in VisitRow /\ VisitOK(visit[c])
        /\ visit[c].copy \in Copies /\ On(c) \in People
    BY VisitTyped DEF ProfilesInv
  <1>2. CASE ReadUser(c)
    <2>1. person[On(c)].active \in BOOLEAN /\ person[On(c)].sponsored \in BOOLEAN
      BY <1>1 DEF ProfilesInv, RowsTyped, PersonRow
    <2>2. PICK copy \in Copies : copy = [visit[c].copy EXCEPT !.active = person[On(c)].active]
      BY <1>1, <2>1 DEF Copies
    <2> DEFINE row == [visit[c] EXCEPT !.stage = "decide", !.copy = copy, !.sponsored = person[On(c)].sponsored]
    <2>3. /\ row \in VisitRow /\ row.stage = "decide" /\ row.verdict = visit[c].verdict
          /\ row.retryCount = visit[c].retryCount
      BY <1>1, <2>1 DEF VisitRow, ReviewStages
    <2>4. visit' = [visit EXCEPT ![c] = row]
      BY <1>1, <1>2, <2>2 DEF ReadUser, VisitRow
    <2> HIDE DEF row
    <2>5. VisitOK(row)
      BY <1>1, <1>2, <2>3 DEF VisitOK, ReadUser, In, ReviewStages
    <2> QED BY <1>2, <2>3, <2>4, <2>5, OnlyVisitMoves DEF ReadUser
  <1>3. CASE Sponsor(c)
    <2>1. PICK made \in BOOLEAN : visit' = [visit EXCEPT ![c].stage = "save", ![c].sponsored = made]
      BY <1>3 DEF Sponsor
    <2> DEFINE row == [visit[c] EXCEPT !.stage = "save", !.sponsored = made]
    <2>2. row \in VisitRow /\ row.stage = "save" /\ row.verdict = visit[c].verdict
      BY <1>1 DEF VisitRow, ReviewStages
    <2>3. visit' = [visit EXCEPT ![c] = row]
      BY <1>1, <2>1
    <2> HIDE DEF row
    <2>4. VisitOK(row)
      BY <1>1, <1>3, <2>2 DEF VisitOK, Sponsor, In, ReviewStages
    <2> QED BY <1>3, <2>2, <2>3, <2>4, OnlyVisitMoves DEF Sponsor
  <1> QED
    BY <1>2, <1>3

LEMMA WriteDecisionKeepsInv ==
  ASSUME ProfilesInv, NEW c \in ProfileCalls, WriteDecision(c)
  PROVE  ProfilesInv'
  <1>1. PICK p \in People : p = On(c)
    BY VisitTyped
  <1>2. /\ visit \in [ProfileCalls -> GoodVisits] /\ visit[c] \in VisitRow /\ VisitOK(visit[c])
        /\ visit[c].filed \in Nat /\ visit[c].retryCount \in 0..(MaxObserved + 1)
        /\ MaxObserved \in Nat /\ visit[c].stage = "decide"
    BY VisitTyped, ProfilesAssumption DEF ProfilesInv, WriteDecision, In, ProfilesAssumption
  <1>3. visit[c].verdict \in Verdicts /\ (visit[c].verdict = "OBSERVED" => visit[c].retryCount <= MaxObserved)
    BY <1>2 DEF VisitOK, ReviewStages
  <1>4. PICK retries \in 0..(MaxObserved + 1) : retries = Retries(c)
    BY <1>2, <1>3 DEF Retries
  <1>5. PICK verdict \in Verdicts : verdict = Decision(c)
    BY <1>3 DEF Decision, Verdicts
  <1>6. \E filed \in Seq(ApplicationRow) : application' = [application EXCEPT ![p] = filed]
    <2>1. CASE visit[c].filed \in DOMAIN application[p] /\
               application' = [application EXCEPT ![p][visit[c].filed] =
                                 [@ EXCEPT !.status = Decision(c), !.retryCount = Retries(c)]]
      <3> DEFINE i == visit[c].filed
                 row == [application[p][i] EXCEPT !.status = verdict, !.retryCount = retries]
      <3>1. i \in 1..Len(application[p])
        BY <2>1, ApplicationTyped
      <3>2. row \in ApplicationRow
        BY <3>1, ApplicationTyped DEF ApplicationRow, KycStatus, Verdicts
      <3>3. application' = [application EXCEPT ![p] = [application[p] EXCEPT ![i] = row]]
        BY <1>4, <1>5, <2>1, ApplicationTyped
      <3> HIDE DEF row, i
      <3>4. [application[p] EXCEPT ![i] = row] \in Seq(ApplicationRow)
        BY <3>1, <3>2, ApplicationTyped, ExceptSeq
      <3> QED BY <3>3, <3>4
    <2>2. CASE visit[c].filed \notin DOMAIN application[p] /\
               application' = [application EXCEPT ![p][visit[c].filed] =
                                 [@ EXCEPT !.status = Decision(c), !.retryCount = Retries(c)]]
      <3>1. application' = application
        BY <2>2, ApplicationTyped
      <3>2. application' = [application EXCEPT ![p] = application[p]]
        BY <3>1, ApplicationTyped
      <3> QED BY <3>2, ApplicationTyped
    <2>3. CASE application' = [application EXCEPT ![p] = Append(@, Filed(Decision(c), TRUE))]
      <3>1. Filed(verdict, TRUE) \in ApplicationRow
        BY <1>2 DEF Filed, ApplicationRow, KycStatus, Verdicts
      <3>2. Append(application[p], Filed(verdict, TRUE)) \in Seq(ApplicationRow)
        BY <3>1, ApplicationTyped, AppendProperties
      <3> QED BY <1>5, <2>3, <3>2, ApplicationTyped
    <2>4. CASE UNCHANGED application
      <3>1. application' = [application EXCEPT ![p] = application[p]]
        BY <2>4, ApplicationTyped
      <3> QED BY <3>1, ApplicationTyped
    <2> QED BY <1>1, <2>1, <2>2, <2>3, <2>4 DEF WriteDecision
  <1>7. visit' \in [ProfileCalls -> GoodVisits]
    <2>1. PICK stage \in {"sponsor", "save"} :
            stage = IF Decision(c) = "APPROVED" /\ ~visit[c].sponsored THEN "sponsor" ELSE "save"
      OBVIOUS
    <2> DEFINE row == [visit[c] EXCEPT !.verdict = verdict, !.stage = stage]
    <2>2. row \in VisitRow /\ row.stage = stage /\ row.verdict = verdict
      BY <1>2 DEF VisitRow, ReviewStages
    <2>3. visit' = [visit EXCEPT ![c] = row]
      BY <1>2, <1>5, <2>1 DEF WriteDecision
    <2> HIDE DEF row
    <2>4. row \in GoodVisits
      BY <2>2 DEF GoodVisits, VisitOK
    <2> QED BY <2>3, <2>4, VisitMoves
  <1> QED
    BY <1>6, <1>7, ApplicationsMove DEF WriteDecision, ProfilesInv, RowsTyped

LEMMA SaveDecisionKeepsInv ==
  ASSUME ProfilesInv, NEW c \in ProfileCalls, SaveDecision(c)
  PROVE  ProfilesInv'
  <1>1. On(c) \in People
    BY VisitTyped
  <1>2. visit[c].verdict \in Verdicts
    BY VisitTyped DEF SaveDecision, In, VisitOK, ReviewStages
  <1>3. ActiveAfter(c) \in BOOLEAN
    BY DEF ActiveAfter
  <1> DEFINE sponsored == visit[c].verdict = "APPROVED" /\ visit[c].sponsored
             row == [person[On(c)] EXCEPT !.kycStatus = visit[c].verdict, !.active = ActiveAfter(c),
                                          !.sponsored = person[On(c)].sponsored \/ sponsored]
  <1>4. person' = [person EXCEPT ![On(c)] = row]
    BY Zenon DEF SaveDecision
  <1>5. sponsored \in BOOLEAN
    OBVIOUS
  <1> HIDE DEF sponsored
  <1>6. row \in PersonRow
    BY <1>1, <1>2, <1>3, <1>5, PersonWritten
  <1> HIDE DEF row
  <1> QED
    BY <1>1, <1>4, <1>6, PersonMoves DEF SaveDecision

LEMMA ProfilesStepInv == ProfilesInv /\ [ProfilesNext]_profileVars => ProfilesInv'
  <1> SUFFICES ASSUME ProfilesInv, [ProfilesNext]_profileVars PROVE ProfilesInv'
    OBVIOUS
  <1>1. RowsTyped /\ visit \in [ProfileCalls -> GoodVisits] /\ NoVisit \in GoodVisits /\ Absent \in Copies
    BY NewVisit DEF ProfilesInv
  <1>2. ASSUME NEW c \in ProfileCalls,
               \/ \E s \in Servers, p \in People, job \in {"update", "cancel", "kyc"} : Arrive(c, s, p, job)
               \/ AskRedis(c) \/ AskDatabase(c) \/ Remember(c) \/ Evict(c)
               \/ \E s \in Servers, p \in Stores, job \in {"createProfile", "updateProfile", "openProfile"} :
                    Arrive(c, s, p, job)
        PROVE  ProfilesInv'
    <2>1. /\ {"update", "cancel", "kyc"} \subseteq Jobs /\ Stores \subseteq People
          /\ {"createProfile", "updateProfile", "openProfile"} \subseteq Jobs
      BY ProfilesAssumption DEF Jobs, ProfilesAssumption
    <2>2. \/ \E s \in Servers, p \in People, job \in Jobs : Arrive(c, s, p, job)
          \/ AskRedis(c) \/ AskDatabase(c) \/ Remember(c) \/ Evict(c)
      BY <1>2, <2>1
    <2> QED BY <2>2, GuardKeepsInv
  <1>3. ASSUME NEW c \in ProfileCalls, Review(c) \/ \E p \in People : ListStore(c, p) PROVE ProfilesInv'
    BY <1>3, OpeningReviewKeepsInv, ReadUserKeepsInv, WriteDecisionKeepsInv, SaveDecisionKeepsInv
       DEF Review, Verdicts
  <1>4. ASSUME NEW c \in ProfileCalls, CommitCancel(c) \/ FileApplication(c) PROVE ProfilesInv'
    BY <1>4, CommitCancelKeepsInv, FilingKeepsInv
  <1>5. ASSUME NEW c \in ProfileCalls,
               \/ ReadForWrite(c) \/ WriteUpdate(c) \/ CreateProfile(c) \/ UpdateProfile(c)
               \/ GetOrCreateStoreProfile(c) \/ LocateStore(c) \/ WriteBusiness(c)
               \/ \E business \in BOOLEAN : MarkKycPending(c, business)
        PROVE  ProfilesInv'
    BY <1>5, WritesKeepInv
  <1>6. ASSUME \/ \E s \in Servers, p \in People : MemoryExpires(s, p)
               \/ \E p \in People : RedisExpires(p)
               \/ \E s \in Servers : Restart(s)
        PROVE  ProfilesInv'
    <2>1. memory' \in [Servers -> [People -> Copies]] /\ redis' \in [People -> Copies]
      <3>1. memory \in [Servers -> [People -> Copies]] /\ redis \in [People -> Copies]
        BY <1>1 DEF RowsTyped
      <3>2. CASE \E s \in Servers, p \in People : MemoryExpires(s, p)
        BY <1>1, <3>1, <3>2 DEF MemoryExpires
      <3>3. CASE \E p \in People : RedisExpires(p)
        BY <1>1, <3>1, <3>3 DEF RedisExpires
      <3>4. ASSUME NEW s \in Servers, Restart(s)
            PROVE  memory' \in [Servers -> [People -> Copies]] /\ redis' \in [People -> Copies]
        <4>1. [p \in People |-> Absent] \in [People -> Copies]
          BY <1>1
        <4> QED BY <3>1, <3>4, <4>1 DEF Restart
      <3> QED BY <1>6, <3>2, <3>3, <3>4
    <2>2. visit' \in [ProfileCalls -> GoodVisits]
      BY <1>1, <1>6 DEF MemoryExpires, RedisExpires, Restart
    <2>3. UNCHANGED <<person, application>>
      BY <1>6 DEF MemoryExpires, RedisExpires, Restart
    <2> QED BY <1>1, <2>1, <2>2, <2>3 DEF ProfilesInv, RowsTyped
  <1>7. ASSUME NEW p \in People, NEW active \in BOOLEAN, SetActive(p, active) PROVE ProfilesInv'
    <2>1. person' \in [People -> PersonRow]
      BY <1>7, PersonWritten DEF SetActive
    <2> QED BY <1>1, <1>7, <2>1 DEF SetActive, ProfilesInv, RowsTyped
  <1>8. CASE UNCHANGED profileVars
    BY <1>1, <1>8 DEF profileVars, ProfilesInv, RowsTyped
  <1> QED
    BY <1>2, <1>3, <1>4, <1>5, <1>6, <1>7, <1>8 DEF ProfilesNext

\* UsersService, AdminKycService: an application is observed at most once more than is
\* allowed, whatever decisions overlap, and rows and their copies stay well formed.
THEOREM ProfilesTyping == ProfilesSpec => []ProfilesTypeOK
  BY ProfilesInitInv, ProfilesStepInv, ProfilesInvImplies, PTL DEF ProfilesSpec

-----------------------------------------------------------------------------
\* The nine services in one process, whichever of them move and however often: the rows,
\* keys, counters and caches of RpcPool, Deposits, IdempotentRequests, Accounts, Profiles,
\* Community, Registration, PushDevices and Ratings stay well formed.
THEOREM ServicesTyping ==
  /\ RpcSpec /\ DepositsSpec /\ IdemSpec /\ AccountsSpec
  /\ ProfilesSpec /\ CommunitySpec /\ RegistrationSpec /\ PushSpec /\ RatingsSpec
  => []TypeOK
  BY PoolStaysConsistent, DepositsTyping, KeysTyping, AccountsTyping, ProfilesTyping, CommunityTyping,
     RegistrationTyping, PushesStayConsistent, ScoresStayFair, PTL DEF TypeOK
=============================================================================
