---------------------------- MODULE MCTokenChain ----------------------------
(* Small instances of TokenChain for TLC. *)
EXTENDS TokenChain

CONSTANTS w, c1, r1, r2, p1, u1, u2, b1, pet, glass

\* Tariffs of one and of three units a kilogram, the second by default.
Presets == [c \in Codes |-> IF c = pet THEN 1 ELSE None]
\* What is minted, moved or approved, and the tariffs: the contract takes negative ones.
SomeAmounts == {-1, 2}
SomeLoads == {<<[code |-> pet, grams |-> 1500]>>,
              <<[code |-> glass, grams |-> 2000], [code |-> pet, grams |-> 900]>>}

\* The configuration without channels, and with two of them.
SomePools == {{w}, {c1, w}}

ToMint == MintTask(u1, 2)
ToNotarize == NotarizeTask(b1)
ToWeigh == WeighTask(b1, u1, <<u2>>, <<[code |-> glass, grams |-> 2000]>>)
ToDelegate == DelegateTask(u1, u2, 1, 0)
ToSubsidize == SubsidizeTask(u1, u2, 1)
ToSponsor == SponsorTask(u2)
SomeTasks == {ToMint, ToNotarize, ToWeigh, ToDelegate, ToSubsidize, ToSponsor}

\* Tasks that meet: at the batch, at the sender's tokens, at the sender's number.  The
\* first of them is made again when it fails.
Pairs == {<<ToWeigh, ToNotarize>>, <<ToDelegate, ToMint>>, <<ToMint, ToSubsidize>>,
          <<ToSubsidize, ToSubsidize>>, <<ToNotarize, ToSponsor>>}

\* Either the contract alone, invoked by anyone, or the client alone.
VARIABLE scenario
MCInit == Init /\ scenario \in {"contract", "client"}
             /\ IF scenario = "client" THEN <<task[r1], task[r2]>> \in Pairs
                ELSE pool = {w} /\ task = [r \in Requests |-> ToSponsor]
MCNext ==
    /\ UNCHANGED scenario
    /\ \/ scenario = "contract" /\ AnyoneInvokes /\ UNCHANGED clientVars
       \/ scenario = "client" /\ ClientNext /\ run'[r1].at \in {None, p1}
                                 /\ run'[r2].tries <= 1
MCSpec == MCInit /\ [][MCNext]_<<vars, scenario>>
             /\ \A r \in Requests : WF_<<vars, scenario>>(RequestStep(r) /\ UNCHANGED scenario)
=============================================================================
