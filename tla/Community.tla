------------------------------ MODULE Community ------------------------------
(***************************************************************************)
(* ComplaintsService and GamificationService.                              *)
(*                                                                         *)
(* A complaint takes the next number of the year from complaint_counters in *)
(* the transaction that stores it.  The first complaint of a year finds no  *)
(* counter and makes one, from the numbers that are stored already.  One    *)
(* type and one year are modelled: each has a counter of its own.           *)
(*                                                                         *)
(* A household claims the weekly reward of a stage of its forest once the   *)
(* missions of the stage are done.                                         *)
(***************************************************************************)
EXTENDS Naturals, FiniteSets, FiniteSetsExt

CONSTANTS Filings,     \* transactions of createComplaint
          Legacy,      \* numbers of complaints older than the counter
          Replies,     \* calls of updateComplaintStatus
          Households,
          Claims,      \* calls of claimWeeklyReward
          Missions     \* missions of a week (6 in the code)

NoFiling == "none"

ASSUME CommunityAssumption ==
  /\ IsFiniteSet(Filings) /\ NoFiling \notin Filings /\ Legacy \in Nat /\ Missions \in Nat

VARIABLES counter,    \* the row of complaint_counters: committed value, or none
          lockedBy,   \* the transaction that holds the row, inserted or updated
          filing,     \* a transaction: how far it is, and its number
          complaint,  \* a stored complaint: status and respondedAt
          reply,      \* an administrator's call: what it has read
          forest,     \* a household: its KYC and the missions done this week
          claim,      \* a call of claimWeeklyReward
          rewarded    \* transfers FOREST_<stage> of a household: the claims that made them

communityVars == <<counter, lockedBy, filing, complaint, reply, forest, claim, rewarded>>

NoCounter == [here |-> FALSE, last |-> 0]
Stages == {"STAGE_3", "STAGE_4"}
Unanswered == [status |-> "none", responded |-> FALSE]
NoReply == [stage |-> "idle", of |-> CHOOSE f \in Filings : TRUE, responded |-> FALSE]
NoClaim == [stage |-> "idle", household |-> CHOOSE h \in Households : TRUE,
            reward |-> "STAGE_3"]

CommunityInit ==
  /\ counter = NoCounter
  /\ lockedBy = NoFiling
  /\ filing = [f \in Filings |-> [stage |-> "idle", number |-> 0, seed |-> 0]]
  /\ complaint = [f \in Filings |-> Unanswered]
  /\ reply = [r \in Replies |-> NoReply]
  /\ forest = [h \in Households |-> [approved |-> FALSE, missions |-> 0]]
  /\ claim = [c \in Claims |-> NoClaim]
  /\ rewarded = [h \in Households |-> [s \in Stages |-> {}]]

complaintVars == <<counter, lockedBy, filing, complaint, reply>>
forestVars == <<forest, claim, rewarded>>

-----------------------------------------------------------------------------
(* generateCorrelativeNumber, inside the transaction of createComplaint.    *)
(* A statement that meets a row another transaction holds waits for its end *)

FilingAt(f, stage) == filing[f].stage = stage
Numbers == {filing[f].number : f \in {g \in Filings : FilingAt(g, "stored")}}

(* The largest number stored, legacy complaints included                    *)
Largest == Max(Numbers \union {Legacy})

(* UPDATE ... RETURNING: the row is this transaction's until it ends         *)
Increment(f) ==
  /\ counter.here /\ lockedBy = NoFiling
  /\ lockedBy' = f
  /\ filing' = [filing EXCEPT ![f].stage = "numbered", ![f].number = counter.last + 1]

StartFiling(f) ==
  /\ FilingAt(f, "idle")
  /\ \/ Increment(f) /\ UNCHANGED counter
     \/ /\ ~counter.here
        /\ filing' = [filing EXCEPT ![f].stage = "seeding"]
        /\ UNCHANGED <<counter, lockedBy>>
  /\ UNCHANGED <<complaint, reply, forestVars>>

(* INSERT ... ON CONFLICT DO NOTHING.  The maximum is that of the complaints*)
(* committed when the statement starts; a row another transaction is        *)
(* inserting makes it wait, and do nothing if that commits                  *)
ReadMaximum(f) ==
  /\ FilingAt(f, "seeding")
  /\ filing' = [filing EXCEPT ![f].stage = "inserting", ![f].seed = Largest]
  /\ UNCHANGED <<counter, lockedBy, complaint, reply, forestVars>>

InsertCounter(f) ==
  /\ FilingAt(f, "inserting") /\ lockedBy = NoFiling
  /\ lockedBy' = IF counter.here THEN NoFiling ELSE f
  /\ filing' = [filing EXCEPT ![f].stage = "inserted"]
  /\ UNCHANGED <<counter, complaint, reply, forestVars>>

(* The second UPDATE: of the row this transaction has inserted, or of the   *)
(* one another has committed                                               *)
SecondIncrement(f) ==
  /\ FilingAt(f, "inserted")
  /\ \/ /\ lockedBy = f
        /\ filing' = [filing EXCEPT ![f].stage = "numbered", ![f].number = filing[f].seed + 1]
        /\ UNCHANGED lockedBy
     \/ Increment(f)
  /\ UNCHANGED <<counter, complaint, reply, forestVars>>

(* A number taken in a transaction of its own, as when no client is passed  *)
NumberTaken(f) ==
  IF lockedBy = f /\ FilingAt(f, "numbered")
    THEN [here |-> TRUE, last |-> filing[f].number] ELSE counter

(* What an aborted transaction leaves of the counter: what was committed     *)
AfterAbort(f) == counter

CommitFiling(f) ==
  /\ FilingAt(f, "numbered")
  /\ counter' = [here |-> TRUE, last |-> filing[f].number]
  /\ lockedBy' = NoFiling
  /\ filing' = [filing EXCEPT ![f].stage = "stored"]
  /\ complaint' = [complaint EXCEPT ![f] = [status |-> "OPEN", responded |-> FALSE]]
  /\ UNCHANGED <<reply, forestVars>>

(* A statement fails, or the process dies                                  *)
AbortFiling(f) ==
  /\ filing[f].stage \in {"seeding", "inserting", "inserted", "numbered"}
  /\ counter' = AfterAbort(f)
  /\ lockedBy' = IF lockedBy = f THEN NoFiling ELSE lockedBy
  /\ filing' = [filing EXCEPT ![f].stage = "aborted"]
  /\ UNCHANGED <<complaint, reply, forestVars>>

-----------------------------------------------------------------------------
(* updateComplaintStatus: respondedAt is written as it was read, unless the *)
(* new status is an answer                                                 *)
ReadForReply(r, f) ==
  /\ reply[r].stage = "idle" /\ FilingAt(f, "stored")
  /\ reply' = [reply EXCEPT ![r] = [stage |-> "read", of |-> f,
                                    responded |-> complaint[f].responded]]
  /\ UNCHANGED <<counter, lockedBy, filing, complaint, forestVars>>

WriteReply(r, status) ==
  /\ reply[r].stage = "read"
  /\ complaint' = [complaint EXCEPT ![reply[r].of] =
       [status |-> status,
        responded |-> status \in {"RESOLVED", "CLOSED"} \/ reply[r].responded]]
  /\ reply' = [reply EXCEPT ![r] = NoReply]
  /\ UNCHANGED <<counter, lockedBy, filing, forestVars>>

-----------------------------------------------------------------------------
(* Mi Bosque                                                               *)

(* The household's week: a mission is done, its KYC is approved             *)
MissionDone(h) ==
  /\ forest[h].missions < Missions
  /\ forest' = [forest EXCEPT ![h].missions = @ + 1]
  /\ UNCHANGED <<claim, rewarded, complaintVars>>

KycApproved(h) ==
  /\ ~forest[h].approved
  /\ forest' = [forest EXCEPT ![h].approved = TRUE]
  /\ UNCHANGED <<claim, rewarded, complaintVars>>

StageOf(missions) ==
  IF missions < 2 THEN 1 ELSE IF missions < 4 THEN 2 ELSE IF missions < 6 THEN 3 ELSE 4

(* getWeeklyForestState: the missions are counted, then the transfers that  *)
(* carry the key of the stage and the week                                 *)
ReadKyc(c, h, reward) ==
  /\ claim[c].stage = "idle" /\ forest[h].approved
  /\ claim' = [claim EXCEPT ![c] = [stage |-> "count", household |-> h, reward |-> reward]]
  /\ UNCHANGED <<forest, rewarded, complaintVars>>

CountMissions(c) ==
  LET needed == IF claim[c].reward = "STAGE_3" THEN 3 ELSE 4
  IN  /\ claim[c].stage = "count"
      /\ claim' = [claim EXCEPT ![c].stage =
           IF StageOf(forest[claim[c].household].missions) >= needed THEN "check" ELSE "refused"]
      /\ UNCHANGED <<forest, rewarded, complaintVars>>

CheckClaimed(c) ==
  /\ claim[c].stage = "check"
  /\ claim' = [claim EXCEPT ![c].stage =
       IF rewarded[claim[c].household][claim[c].reward] = {} THEN "reward" ELSE "refused"]
  /\ UNCHANGED <<forest, rewarded, complaintVars>>

(* The transfer is stored as COMPLETED; nothing is sent to the chain         *)
StoreReward(c) ==
  /\ claim[c].stage = "reward"
  /\ rewarded' = [rewarded EXCEPT ![claim[c].household][claim[c].reward] = @ \union {c}]
  /\ claim' = [claim EXCEPT ![c].stage = "paid"]
  /\ UNCHANGED <<forest, complaintVars>>

-----------------------------------------------------------------------------
CommunityNext ==
  \/ \E f \in Filings :
       \/ StartFiling(f) \/ ReadMaximum(f) \/ InsertCounter(f) \/ SecondIncrement(f)
       \/ CommitFiling(f) \/ AbortFiling(f)
  \/ \E r \in Replies, f \in Filings : ReadForReply(r, f)
  \/ \E r \in Replies, status \in {"OPEN", "IN_PROGRESS", "RESOLVED", "CLOSED"} : WriteReply(r, status)
  \/ \E h \in Households : MissionDone(h) \/ KycApproved(h)
  \/ \E c \in Claims, h \in Households, reward \in Stages : ReadKyc(c, h, reward)
  \/ \E c \in Claims : CountMissions(c) \/ CheckClaimed(c) \/ StoreReward(c)

CommunitySpec == CommunityInit /\ [][CommunityNext]_communityVars

-----------------------------------------------------------------------------
(* Properties                                                              *)

CommunityTypeOK ==
  /\ counter \in [here : BOOLEAN, last : Nat]
  /\ lockedBy \in Filings \union {NoFiling}
  /\ \A f \in Filings :
       /\ filing[f].stage \in {"idle", "seeding", "inserting", "inserted", "numbered",
                               "stored", "aborted"}
       /\ filing[f].number \in 0..(Legacy + Cardinality(Filings))
       /\ complaint[f].responded \in BOOLEAN
  /\ \A r \in Replies : reply[r].stage \in {"idle", "read"}
  /\ \A h \in Households : forest[h].missions \in 0..Missions
  /\ \A c \in Claims :
       claim[c].stage \in {"idle", "count", "check", "reward", "paid", "refused"}

(* generateCorrelativeNumber: the numbers of the stored complaints go on    *)
(* from the legacy ones without a gap and without a repetition, whatever    *)
(* transactions race to make the counter of the year and whichever of them  *)
(* abort.                                                                  *)
CorrelativesGapless ==
  LET stored == {f \in Filings : FilingAt(f, "stored")}
  IN  /\ Numbers = (Legacy + 1)..(Legacy + Cardinality(stored))
      /\ Cardinality(Numbers) = Cardinality(stored)

=============================================================================
