-------------------------- MODULE IdempotentRequests -------------------------
(***************************************************************************)
(* IdempotencyInterceptor: a request that carries an Idempotency-Key runs   *)
(* its handler only if it can set the marker of the key in Redis; the       *)
(* response is stored under the key afterwards and answers the repetitions. *)
(* The marker of a request under way lives 60 s, a stored response 24 h.    *)
(* The key is the header's value alone: requests of different users or      *)
(* endpoints that use one value share its marker.                           *)
(***************************************************************************)
EXTENDS Naturals, FiniteSets

CONSTANTS IdemKeys,   \* values of the header
          Requests,   \* HTTP requests that carry one
          MaxExpiries \* bound: times the markers of one key expire

ASSUME IdempotencyAssumption ==
  /\ IsFiniteSet(Requests) /\ IdemKeys # {} /\ MaxExpiries \in Nat

VARIABLES marker,   \* what Redis holds for a key
          request,  \* a request: its key, how far it is, the run it was answered from
          ran,      \* requests whose handler committed, by key
          expired,  \* times a marker of the key ran out
          torn      \* times a handler that had committed threw and freed the key

idemVars == <<marker, request, ran, expired, torn>>

NoRun == "nobody"
NoMarker == [value |-> "absent", run |-> NoRun]
Processing(r) == [value |-> "PROCESSING", run |-> r]
Stored(r) == [value |-> "response", run |-> r]

NotSent == [stage |-> "unsent", key |-> CHOOSE k \in IdemKeys : TRUE, answer |-> NoRun]

IdemInit ==
  /\ marker = [k \in IdemKeys |-> NoMarker]
  /\ request = [r \in Requests |-> NotSent]
  /\ ran = [k \in IdemKeys |-> {}]
  /\ expired = [k \in IdemKeys |-> 0]
  /\ torn = [k \in IdemKeys |-> 0]

Key(r) == request[r].key

-----------------------------------------------------------------------------
(* The key is read: a marker answers 409, a response answers by itself      *)
ReadKey(r, k) ==
  /\ request[r].stage = "unsent"
  /\ request' = [request EXCEPT ![r] =
       [key |-> k, answer |-> marker[k].run,
        stage |-> CASE marker[k].value = "PROCESSING" -> "conflict"
                    [] marker[k].value = "response"   -> "answered"
                    [] OTHER                          -> "unmarked"]]
  /\ UNCHANGED <<marker, ran, expired, torn>>

(* A SET without NX                                                        *)
AlwaysAcquires(r) == TRUE

(* SET NX: only an absent key can be taken                                  *)
Acquires(r) == marker[Key(r)] = NoMarker

MarkKey(r) ==
  /\ request[r].stage = "unmarked"
  /\ IF Acquires(r)
       THEN /\ marker' = [marker EXCEPT ![Key(r)] = Processing(r)]
            /\ request' = [request EXCEPT ![r].stage = "running"]
       ELSE /\ request' = [request EXCEPT ![r].stage = "conflict"]
            /\ UNCHANGED marker
  /\ UNCHANGED <<ran, expired, torn>>

(* What the handler is there for is done: its rows are committed.  It may    *)
(* have more to do, such as adding a job                                    *)
HandlerCommits(r) ==
  /\ request[r].stage = "running"
  /\ ran' = [ran EXCEPT ![Key(r)] = @ \union {r}]
  /\ request' = [request EXCEPT ![r].stage = "committed"]
  /\ UNCHANGED <<marker, expired, torn>>

(* The handler returns; the response leaves before it is stored, because    *)
(* nobody waits for the observer                                            *)
HandlerReturns(r) ==
  /\ request[r].stage = "committed"
  /\ request' = [request EXCEPT ![r].stage = "storing", ![r].answer = r]
  /\ UNCHANGED <<marker, ran, expired, torn>>

(* The response is stored over whatever the key holds, or storing it fails  *)
(* and the marker stays                                                     *)
StoreResponse(r) ==
  /\ request[r].stage = "storing"
  /\ request' = [request EXCEPT ![r].stage = "answered"]
  /\ marker' \in {[marker EXCEPT ![Key(r)] = Stored(r)], marker}
  /\ UNCHANGED <<ran, expired, torn>>

(* The handler throws, before it has committed or after, and the observer    *)
(* does not ask which: the key is deleted, whoever holds it by now, or      *)
(* deleting it fails                                                        *)
HandlerThrows(r) ==
  /\ request[r].stage \in {"running", "committed"}
  /\ request' = [request EXCEPT ![r].stage = "failed"]
  /\ marker' \in {[marker EXCEPT ![Key(r)] = NoMarker], marker}
  /\ torn' = IF request[r].stage = "committed" /\ marker' # marker
             THEN [torn EXCEPT ![Key(r)] = @ + 1] ELSE torn
  /\ UNCHANGED <<ran, expired>>

(* The process dies, before the handler commits or after                    *)
RequestDies(r) ==
  /\ request[r].stage \in {"unmarked", "running", "committed", "storing"}
  /\ request' = [request EXCEPT ![r].stage = "failed"]
  /\ UNCHANGED <<marker, ran, expired, torn>>

(* The marker of a request, or a response, runs out                         *)
KeyExpires(k) ==
  /\ marker[k] # NoMarker /\ expired[k] < MaxExpiries
  /\ marker' = [marker EXCEPT ![k] = NoMarker]
  /\ expired' = [expired EXCEPT ![k] = @ + 1]
  /\ UNCHANGED <<request, ran, torn>>

IdemNext ==
  \/ \E r \in Requests, k \in IdemKeys : ReadKey(r, k)
  \/ \E r \in Requests : \/ MarkKey(r) \/ HandlerCommits(r)
                         \/ HandlerReturns(r) \/ StoreResponse(r)
                         \/ HandlerThrows(r) \/ RequestDies(r)
  \/ \E k \in IdemKeys : KeyExpires(k)

IdemSpec == IdemInit /\ [][IdemNext]_idemVars

-----------------------------------------------------------------------------
(* Properties                                                              *)

IdemTypeOK ==
  /\ marker \in [IdemKeys -> {NoMarker} \union {Processing(r) : r \in Requests}
                                      \union {Stored(r) : r \in Requests}]
  /\ \A r \in Requests :
       /\ request[r].stage \in {"unsent", "unmarked", "conflict", "running", "committed",
                                "storing", "answered", "failed"}
       /\ request[r].answer \in Requests \union {NoRun}
  /\ ran \in [IdemKeys -> SUBSET Requests]
  /\ expired \in [IdemKeys -> 0..MaxExpiries]
  /\ torn \in [IdemKeys -> Nat]

(* The handlers behind one key commit once, once more for each marker that  *)
(* ran out, and once more for each handler that threw after its commit and  *)
(* so freed the key, however many repetitions race between the GET and the  *)
(* SET NX and although a failing handler deletes a marker that may not be   *)
(* its own.                                                                 *)
RepeatHasCause ==
  \A k \in IdemKeys : Cardinality(ran[k]) <= 1 + expired[k] + torn[k]

=============================================================================
