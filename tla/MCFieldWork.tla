---------------------------- MODULE MCFieldWork ----------------------------
(* An instance of CollectionRequests in four plays, so that one run checks *)
(* its safety and the state spaces of the plays add up: whose request it   *)
(* is tells which handlers are started, for which waits time passes and    *)
(* how many actors there are.                                              *)
EXTENDS MCCollectionRequests

CONSTANTS contention, visit, verification, auction \* the household of each play

\* Kinds of the handlers a play starts, besides those that take the request.
Starts(h) ==
    CASE h = contention -> {"abandon", "cancel", "startRoute", "edit"}
      [] h = visit -> {"startRoute", "routeCache", "reach", "noShow", "reject"}
      [] h = verification -> {"verifyRead", "abandon", "dispatch"}
      [] h = auction -> {"bid", "withdraw", "selectCheck", "cancel"}

\* The waits in which time passes, and with it the scans that find something.
Waits(h) ==
    CASE h = contention -> {"PENDING", "ACCEPTED"}
      [] h = visit -> {"ARRIVED"}
      [] h = verification -> {"ACCEPTED"}
      [] h = auction -> {"AUCTION_ACTIVE"}
Finds(h) ==
    CASE h = contention -> {"pending", "inactive"}
      [] h = visit -> {"arrived"}
      [] h = verification -> {"inactive"}
      [] h = auction -> {"auction"}

\* The household whose request it is, or is about to be.
Playing ==
    {req[r].household : r \in {r \in Requests : req[r].status # "NONE"}}
        \cup {session[s].user : s \in {s \in Sessions : session[s].kind = "create"}}

Involved(users) ==
    users \cap (UNION {{req[r].collector, req[r].center} : r \in Requests}
                  \cup {bid[b].center : b \in Bids} \cup {session[s].user : s \in Sessions})

\* The scans that find nothing are over before anything else goes on.
Quiet == Scans \ UNION {Finds(h) : h \in Playing}
QuietFirst ==
    Quiet \subseteq queried \/ queried' = queried \cup {CHOOSE k \in Quiet \ queried : TRUE}

\* Only verifications go on after one has outlived its lock, and meet by three then.
Busy == Cardinality({s \in Sessions : session[s] # Idle})

\* A batch has been dispatched, or its center is at it.
Dispatched ==
    \/ \E b \in Batches : batch[b].status = "IN_TRANSIT"
    \/ \E s \in Sessions : session[s].kind = "dispatch"

\* The one request is created first.
InPlay(h) ==
    /\ \A s \in Sessions : session[s] = Idle /\ session'[s] # Idle =>
          session'[s].kind \in
              IF Playing = {} THEN {"create"} ELSE Starts(h) \cup {"claim", "acceptCheck"}
    /\ Busy' <= 2 \/ \E r \in Requests : outlived'[r] > 0
    /\ \A r \in Requests : outlived'[r] > 0 =>
          crashes' = 0 /\ \A s \in Sessions : session'[s].kind \in VerifyKinds \cup {"idle"}
    /\ h \in {contention, auction} => crashes' = 0
    /\ Dispatched' => /\ crashes' = 0 /\ outlived' = [r \in Requests |-> 0]
                      /\ Cardinality(Involved(Collectors)') <= 1
    /\ Cardinality(Involved(IF h = auction THEN Collectors ELSE Centers)') <= 1
    /\ \A r \in Requests :
          /\ req'[r].age > req[r].age => req'[r].status \in Waits(h)
          /\ req'[r].wait > req[r].wait =>
                req'[r].status \in Waits(h) /\ \A b \in Batches : batch[b].status = "NONE"
          /\ h = auction => req'[r].age <= 1
          /\ req'[r].status = "AUCTION_ACTIVE" => h = auction
          /\ req'[r].status = "PENDING" /\ req[r].status = "NONE" => h # auction

FieldWork ==
    /\ QuietFirst
    /\ Cardinality(Playing') <= 1
    /\ \A h \in Playing' : InPlay(h)
=============================================================================
