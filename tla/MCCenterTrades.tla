-------------------------- MODULE MCCenterTrades --------------------------
(* Small instances of CenterTrades for TLC.  A behaviour plays one scene:  *)
(* what the clients call is chosen at the start, so that the state spaces  *)
(* of the scenes add up and do not multiply.                               *)
EXTENDS CenterTrades, TLC

CONSTANTS First   \* the center of the scenes about exits

VARIABLE scene

mcVars == <<vars, scene>>

Ten == [b \in Batches |-> 10]
Somewhere == [b \in Batches |-> First]
Forty == [c \in Centers |-> IF c = First THEN 40 ELSE None]

Scenes == [
    weighing |-> {"dispatch", "reroute", "receive", "approve"},
    dispute |-> {"receive", "dispute", "resolve", "fiat", "consolidate"},
    exits |-> {"accept", "deliver", "direct", "sell"},
    hand |-> {"IN", "OUT", "accept", "sell"},
    fresh |-> {"IN", "accept", "sell"},
    lots |-> {"receive", "dispute", "resolve", "consolidate", "sell"}]

MCInit == Init /\ scene \in DOMAIN Scenes
MCNext ==
    /\ Next
    /\ UNCHANGED scene
    /\ \A s \in Sessions : session[s] = Idle /\ session'[s] # Idle =>
          /\ session'[s].kind \in Scenes[scene]
          /\ scene \in {"exits", "hand"} => session'[s].center = First
          /\ scene = "fresh" => session'[s].center # First
          /\ scene \in {"hand", "lots", "fresh"} /\ session'[s].kind \in {"sell", "OUT"} =>
                session'[s].kg = 20 /\ (scene = "lots" <=> session'[s].id # None)
    /\ order' # order =>
          /\ scene \in {"exits", "hand", "fresh"}
          /\ \A o \in Orders : order'[o].center \in
                {None} \cup IF scene = "fresh" THEN Centers \ {First} ELSE {First}
MCSpec ==
    /\ MCInit /\ [][MCNext]_mcVars
    /\ \A b \in Batches : WF_mcVars(Worker(b) /\ UNCHANGED <<tradeVars, scene>>)
=============================================================================
