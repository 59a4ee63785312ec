------------------------------- MODULE RpcPool -------------------------------
(***************************************************************************)
(* StellarRpcManagerService: the pool of Soroban RPC nodes that every call  *)
(* to the chain goes through.  A call asks the nodes that are HEALTHY, tier *)
(* by tier and round robin inside a tier, until one answers; a node that    *)
(* fails FailureLimit times in a row rests for a cooldown.  A circuit       *)
(* breaker stands in front of the pool: it answers its caller when the call *)
(* takes too long, while the call goes on, and refuses calls when it is     *)
(* open.  The calls share the pool and interleave at every await.           *)
(*                                                                         *)
(* Time is a clock of ticks that stops at MaxTime; it starts at 1, so that  *)
(* 0 stands for "no cooldown" as it does in the code.                       *)
(***************************************************************************)
EXTENDS Naturals, Sequences, FiniteSets

CONSTANTS NodeOrder,      \* the nodes in the order initNodes lists them
          TierOf,         \* the tier of a node
          RpcCalls,       \* calls of executeWithFailover
          FailureLimit,   \* MAX_CONSECUTIVE_FAILURES
          Cooldown,       \* RPC_COOLDOWN_MS, in ticks
          Jitter,         \* the ticks a cooldown may be longer
          CursorModulus,  \* the cursor counts modulo this (10000 in the code)
          MaxTime         \* bound: the clock stops here

RpcNodes == {NodeOrder[i] : i \in 1..Len(NodeOrder)}

ASSUME RpcAssumption ==
  /\ NodeOrder \in Seq(RpcNodes) /\ Len(NodeOrder) > 0
  /\ Len(NodeOrder) = Cardinality(RpcNodes)
  /\ TierOf \in [RpcNodes -> {"PRIMARY", "SECONDARY", "FALLBACK"}]
  /\ {FailureLimit, Cooldown, CursorModulus} \subseteq Nat \ {0}
  /\ Jitter \subseteq Nat /\ Jitter # {}
  /\ MaxTime \in Nat \ {0}

VARIABLES rpcNode,  \* a node: its status, failures in a row, end of its cooldown
          cursor,   \* roundRobinCursor
          rpcCall,  \* a call: where it is and what its caller has heard
          breaker,  \* the circuit breaker
          clock

rpcVars == <<rpcNode, cursor, rpcCall, breaker, clock>>

Tiers == <<"PRIMARY", "SECONDARY", "FALLBACK">>

Fresh == [status |-> "HEALTHY", failures |-> 0, until |-> 0]

(* A call: the candidates it has still to ask, the errors it collected and  *)
(* what its caller has heard                                               *)
Unasked == [stage |-> "idle", left |-> <<>>, errors |-> 0, answer |-> "none"]

RpcInit ==
  /\ rpcNode = [n \in RpcNodes |-> Fresh]
  /\ cursor = 0
  /\ rpcCall = [c \in RpcCalls |-> Unasked]
  /\ breaker = "closed"
  /\ clock = 1

-----------------------------------------------------------------------------
(* The candidates                                                          *)

(* Nodes whose cooldown is over come back                                  *)
Reinstated ==
  [n \in RpcNodes |->
     IF rpcNode[n].status = "UNHEALTHY" /\ clock >= rpcNode[n].until
       THEN Fresh ELSE rpcNode[n]]

(* Places in the list, lowest first                                        *)
InOrderOf(places) ==
  CHOOSE f \in [1..Cardinality(places) -> places] :
    \A i, j \in 1..Cardinality(places) : i < j => f[i] < f[j]

HealthyIn(pool, tier) ==
  LET places == {i \in 1..Len(NodeOrder) :
                   TierOf[NodeOrder[i]] = tier /\ pool[NodeOrder[i]].status = "HEALTHY"}
  IN  [k \in 1..Cardinality(places) |-> NodeOrder[InOrderOf(places)[k]]]

(* A tier's healthy nodes, starting at the cursor                          *)
Rotated(nodes) ==
  [i \in 1..Len(nodes) |-> nodes[((cursor + i - 1) % Len(nodes)) + 1]]

CandidatesOf(pool) ==
  Rotated(HealthyIn(pool, Tiers[1])) \o Rotated(HealthyIn(pool, Tiers[2]))
    \o Rotated(HealthyIn(pool, Tiers[3]))

(* The node of an emergency: the one whose cooldown ends first, the first   *)
(* listed among equals.  A healthy node has until = 0 and goes before every *)
(* node that rests.                                                         *)
NearestNode ==
  LET soonest(i) == \A j \in 1..Len(NodeOrder) :
        \/ rpcNode[NodeOrder[i]].until < rpcNode[NodeOrder[j]].until
        \/ rpcNode[NodeOrder[i]].until = rpcNode[NodeOrder[j]].until /\ i <= j
  IN  NodeOrder[CHOOSE i \in 1..Len(NodeOrder) : soonest(i)]

-----------------------------------------------------------------------------
(* The breaker                                                             *)

(* A failure the breaker hears of opens it, when it was half open or when   *)
(* too many of the last calls failed (its statistics are left open)        *)
BreakerFails ==
  breaker' \in IF breaker = "closed" THEN {"closed", "open"} ELSE {"open"}

BreakerSucceeds == breaker' = IF breaker = "open" THEN "open" ELSE "closed"

(* A call is over.  Its caller hears the first answer: what comes after the *)
(* breaker's timeout is dropped, and the breaker does not count it          *)
CallEnds(c, answer) ==
  rpcCall' = [rpcCall EXCEPT ![c] = [Unasked EXCEPT !.answer = answer]]

Return(c) ==
  IF rpcCall[c].answer = "none"
    THEN CallEnds(c, "result") /\ BreakerSucceeds
    ELSE CallEnds(c, rpcCall[c].answer) /\ UNCHANGED breaker

Throw(c) ==
  IF rpcCall[c].answer = "none"
    THEN CallEnds(c, "error") /\ BreakerFails
    ELSE CallEnds(c, rpcCall[c].answer) /\ UNCHANGED breaker

(* resetTimeout after the breaker opened                                   *)
BreakerHalfOpens ==
  /\ breaker = "open"
  /\ breaker' = "halfOpen"
  /\ UNCHANGED <<rpcNode, cursor, rpcCall, clock>>

(* The breaker's timeout: the caller gets an error, the call goes on        *)
TimesOut(c) ==
  /\ rpcCall[c].stage # "idle" /\ rpcCall[c].answer = "none"
  /\ rpcCall' = [rpcCall EXCEPT ![c].answer = "timeout"]
  /\ BreakerFails
  /\ UNCHANGED <<rpcNode, cursor, clock>>

-----------------------------------------------------------------------------
(* executeWithFailover                                                     *)

Idle(c) == rpcCall[c].stage = "idle" /\ rpcCall[c].answer = "none"

(* The breaker is open, or half open with its one probe under way: refused  *)
Refuse(c) ==
  /\ Idle(c)
  /\ breaker \in {"open", "probing"}
  /\ rpcCall' = [rpcCall EXCEPT ![c].answer = "refused"]
  /\ UNCHANGED <<rpcNode, cursor, breaker, clock>>

(* The candidates are chosen and the first is asked; with no candidate the  *)
(* emergency follows at once                                                *)
Ask(c) ==
  /\ Idle(c)
  /\ \/ breaker = "closed" /\ breaker' = "closed"
     \/ breaker = "halfOpen" /\ breaker' = "probing"
  /\ rpcNode' = Reinstated
  /\ LET candidates == CandidatesOf(Reinstated)
     IN  rpcCall' = [rpcCall EXCEPT
           ![c] = [Unasked EXCEPT
                     !.stage = IF candidates = <<>> THEN "emergency" ELSE "trying",
                     !.left  = IF candidates = <<>> THEN <<NearestNode>> ELSE candidates]]
  /\ UNCHANGED <<cursor, clock>>

Asked(c, stage) ==
  /\ rpcCall[c].stage = stage
  /\ rpcCall[c].left # <<>>

(* A node answers, or fails: its own timeout is a failure as well          *)
NodeAnswers(c) ==
  /\ Asked(c, "trying")
  /\ rpcNode' = [rpcNode EXCEPT ![Head(rpcCall[c].left)] = Fresh]
  /\ cursor' = (cursor + 1) % CursorModulus
  /\ Return(c)
  /\ UNCHANGED clock

FailedOnce(node, rest) ==
  IF node.failures + 1 >= FailureLimit
    THEN [status |-> "UNHEALTHY", failures |-> node.failures + 1,
          until |-> clock + Cooldown + rest]
    ELSE [node EXCEPT !.failures = @ + 1]

(* The node fails.  Another candidate is asked; after the last one the      *)
(* emergency, unless as many errors as nodes have been collected            *)
NodeFails(c) ==
  /\ Asked(c, "trying")
  /\ LET n == Head(rpcCall[c].left)
         errors == rpcCall[c].errors + 1
         more == Tail(rpcCall[c].left)
     IN  /\ \E rest \in Jitter : rpcNode' = [rpcNode EXCEPT ![n] = FailedOnce(@, rest)]
         /\ \/ /\ more # <<>>
               /\ rpcCall' = [rpcCall EXCEPT ![c].errors = errors, ![c].left = more]
               /\ UNCHANGED breaker
            \/ /\ more = <<>> /\ errors < Len(NodeOrder)
               /\ rpcCall' = [rpcCall EXCEPT ![c].stage = "emergency", ![c].errors = 0,
                                             ![c].left = <<NearestNode'>>]
               /\ UNCHANGED breaker
            \/ /\ more = <<>> /\ errors >= Len(NodeOrder)
               /\ Throw(c)
  /\ UNCHANGED <<cursor, clock>>

(* A revival that keeps the count of failures                              *)
RevivedInPart(node) == [node EXCEPT !.status = "HEALTHY", !.until = 0]

(* What a node that answered an emergency is: fit again                     *)
Revived(node) == Fresh

(* The emergency's node has no timeout of its own and may never answer; the *)
(* cursor, and the failures of a node that fails here, stay as they are     *)
EmergencyAnswers(c) ==
  /\ Asked(c, "emergency")
  /\ rpcNode' = [rpcNode EXCEPT ![Head(rpcCall[c].left)] = Revived(@)]
  /\ Return(c)
  /\ UNCHANGED <<cursor, clock>>

EmergencyFails(c) ==
  /\ Asked(c, "emergency")
  /\ Throw(c)
  /\ UNCHANGED <<rpcNode, cursor, clock>>

(* The caller takes its answer, and may call again once the call is over    *)
CallerLeaves(c) ==
  /\ rpcCall[c].stage = "idle" /\ rpcCall[c].answer # "none"
  /\ rpcCall' = [rpcCall EXCEPT ![c] = Unasked]
  /\ UNCHANGED <<rpcNode, cursor, breaker, clock>>

Tick ==
  /\ clock < MaxTime
  /\ clock' = clock + 1
  /\ UNCHANGED <<rpcNode, cursor, rpcCall, breaker>>

RpcNext ==
  \/ \E c \in RpcCalls :
       \/ Ask(c) \/ Refuse(c)
       \/ NodeAnswers(c) \/ NodeFails(c)
       \/ EmergencyAnswers(c) \/ EmergencyFails(c)
       \/ TimesOut(c) \/ CallerLeaves(c)
  \/ BreakerHalfOpens
  \/ Tick

RpcSpec == RpcInit /\ [][RpcNext]_rpcVars

-----------------------------------------------------------------------------
(* Properties                                                              *)

(* A node is out of the pool exactly while it has FailureLimit failures in  *)
(* a row and a cooldown, whatever order the calls that use it come back in. *)
PoolConsistent ==
  \A n \in RpcNodes :
    IF rpcNode[n].status = "HEALTHY"
      THEN rpcNode[n].failures < FailureLimit /\ rpcNode[n].until = 0
      ELSE rpcNode[n].failures >= FailureLimit /\ rpcNode[n].until > 0

RpcTypeOK ==
  /\ rpcNode \in [RpcNodes -> [status : {"HEALTHY", "UNHEALTHY"}, failures : Nat, until : Nat]]
  /\ cursor \in 0..(CursorModulus - 1)
  /\ \A c \in RpcCalls :
       /\ rpcCall[c].stage \in {"idle", "trying", "emergency"}
       /\ rpcCall[c].left \in Seq(RpcNodes)
       /\ rpcCall[c].answer \in {"none", "result", "error", "timeout", "refused"}
  /\ breaker \in {"closed", "open", "halfOpen", "probing"}
  /\ clock \in 1..MaxTime
  /\ PoolConsistent

=============================================================================
