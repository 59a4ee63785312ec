------------------------------- MODULE Profiles ------------------------------
(***************************************************************************)
(* UsersService, UserCacheProxy, JwtAuthGuard and AdminKycService: the row  *)
(* of a user with what hangs on it, the copies of the row that the guard    *)
(* goes by, and the handlers that change the row: the owner's update, the   *)
(* cancellation of the account (ARCO), the profile of a store               *)
(* (StoresService), an application for KYC and the administrator's decision *)
(* about it.                                                               *)
(*                                                                         *)
(* Several servers run; each keeps copies of its own for 10 s, and all      *)
(* share those in Redis, which live 30 s.  A DEL or SET nobody waits for    *)
(* takes effect when it is sent: the commands of a server keep their order. *)
(***************************************************************************)
EXTENDS Naturals, FiniteSets, Sequences

CONSTANTS People, Servers,
          Collectors, Stores,  \* people of role RECOLECTOR and TIENDA
          ProfileCalls,        \* requests in flight
          MaxObserved,         \* observations an application survives (3 in the code)
          MaxApplications      \* bound: applications of a person

ASSUME ProfilesAssumption ==
  /\ Collectors \subseteq People /\ Stores \subseteq People
  /\ Collectors \cap Stores = {}
  /\ People # {} /\ Servers # {}
  /\ MaxObserved \in Nat /\ MaxApplications \in Nat

VARIABLES person,       \* the row of a user, its vault and its store profile
          application,  \* the KYC applications of a person, oldest first
          memory,       \* memoryCache of a server
          redis,        \* user:cache:<id>
          visit         \* a request: its server, whose row it is about, what it has read

profileVars == <<person, application, memory, redis, visit>>

Absent == [here |-> FALSE, active |-> FALSE, deleted |-> FALSE]
NewPerson == [active |-> TRUE, deleted |-> FALSE, personal |-> TRUE, vault |-> TRUE,
              kycStatus |-> "UNVERIFIED", sponsored |-> FALSE, profiled |-> FALSE]
NoVisit == [stage |-> "idle", server |-> CHOOSE s \in Servers : TRUE,
            person |-> CHOOSE p \in People : TRUE, job |-> "none", copy |-> Absent,
            verdict |-> "none", filed |-> 0, retryCount |-> 0, sponsored |-> FALSE]

(* A user that create has stored: row, vault and, for a store, its profile, *)
(* unless the account is older than the profiles                           *)
ProfilesInit ==
  /\ \E profiled \in SUBSET Stores :
       person = [p \in People |-> [NewPerson EXCEPT !.profiled = p \in profiled]]
  /\ application = [p \in People |-> <<>>]
  /\ memory = [s \in Servers |-> [p \in People |-> Absent]]
  /\ redis = [p \in People |-> Absent]
  /\ visit = [c \in ProfileCalls |-> NoVisit]

On(c) == visit[c].person
In(c, stage) == visit[c].stage = stage
Go(c, stage) == visit' = [visit EXCEPT ![c].stage = stage]
Done(c) == visit' = [visit EXCEPT ![c] = NoVisit]

-----------------------------------------------------------------------------
(* findById and the guard                                                  *)

(* What the guard lets in                                                  *)
Admits(copy) == copy.here /\ copy.active /\ ~copy.deleted

(* A copy in memory answers at once                                        *)
Arrive(c, s, p, job) ==
  /\ In(c, "idle")
  /\ LET found == memory[s][p]
     IN  /\ found.here => Admits(found)
         /\ visit' = [visit EXCEPT ![c] =
              [NoVisit EXCEPT !.server = s, !.person = p, !.job = job,
                              !.stage = IF found.here THEN job ELSE "lookup"]]
  /\ UNCHANGED <<person, application, memory, redis>>

(* Redis has a copy, or has none or does not answer                         *)
AskRedis(c) ==
  /\ In(c, "lookup")
  /\ \/ /\ redis[On(c)].here
        /\ visit' = [visit EXCEPT ![c].stage = "found", ![c].copy = redis[On(c)]]
     \/ Go(c, "query")
  /\ UNCHANGED <<person, application, memory, redis>>

AskDatabase(c) ==
  /\ In(c, "query")
  /\ visit' = [visit EXCEPT ![c].stage = "read",
                            ![c].copy = [here |-> TRUE, active |-> person[On(c)].active,
                                         deleted |-> person[On(c)].deleted]]
  /\ UNCHANGED <<person, application, memory, redis>>

(* The copy goes to the memory, that of the database to Redis as well (the  *)
(* SET may fail); then the guard looks at it                               *)
Remember(c) ==
  LET copy == visit[c].copy
  IN  /\ visit[c].stage \in {"found", "read"}
      /\ memory' = [memory EXCEPT ![visit[c].server][On(c)] = copy]
      /\ \/ In(c, "read") /\ redis' = [redis EXCEPT ![On(c)] = copy]
         \/ UNCHANGED redis
      /\ visit' = [visit EXCEPT ![c] = IF Admits(copy)
                     THEN [@ EXCEPT !.stage = visit[c].job, !.copy = Absent] ELSE NoVisit]
      /\ UNCHANGED <<person, application>>

MemoryExpires(s, p) ==
  /\ memory[s][p].here
  /\ memory' = [memory EXCEPT ![s][p] = Absent]
  /\ UNCHANGED <<person, application, redis, visit>>

(* A SET that gives the key no time                                        *)
RedisNeverRunsOut(p) == FALSE

(* The time a key of Redis is given: it runs out                            *)
RedisRunsOut(p) == redis[p].here

RedisExpires(p) ==
  /\ RedisRunsOut(p)
  /\ redis' = [redis EXCEPT ![p] = Absent]
  /\ UNCHANGED <<person, application, memory, visit>>

(* evictCache, after the write: this server's copy goes, the other servers  *)
(* keep theirs; the DEL may fail                                           *)
Evict(c) ==
  /\ In(c, "evict")
  /\ memory' = [memory EXCEPT ![visit[c].server][On(c)] = Absent]
  /\ redis' \in {[redis EXCEPT ![On(c)] = Absent], redis}
  /\ Done(c)
  /\ UNCHANGED <<person, application>>

-----------------------------------------------------------------------------
(* update and cancelAccountARCO read the row once more, from the database   *)

ReadForWrite(c) ==
  /\ visit[c].stage \in {"update", "cancel"}
  /\ IF person[On(c)].active /\ ~person[On(c)].deleted
       THEN Go(c, IF In(c, "update") THEN "updating" ELSE "cancelling")
       ELSE Done(c)
  /\ UNCHANGED <<person, application, memory, redis>>

(* Name, phone and address, and the store's, are written by id              *)
WriteUpdate(c) ==
  /\ In(c, "updating")
  /\ person' = [person EXCEPT ![On(c)].personal = TRUE]
  /\ Go(c, "evict")
  /\ UNCHANGED <<application, memory, redis>>

Cancelled(row) == [row EXCEPT !.active = FALSE, !.deleted = TRUE, !.personal = FALSE,
                              !.vault = FALSE]

(* One transaction; it does not ask again whether the row is still active   *)
CommitCancel(c) ==
  LET p == On(c)
  IN  /\ In(c, "cancelling")
      /\ person' = [person EXCEPT ![p] = Cancelled(@)]
      /\ application' = [application EXCEPT ![p] = [i \in DOMAIN @ |->
                           [@[i] EXCEPT !.status = "REJECTED", !.document = FALSE]]]
      /\ Go(c, "evict")
      /\ UNCHANGED <<memory, redis>>

-----------------------------------------------------------------------------
(* StoresService: the profile of a store, of which a user has one (userId   *)
(* is UNIQUE).  No call asks again whether the account is still there, and  *)
(* none evicts a copy                                                      *)

AddProfile(p, personal) ==
  person' = IF person[p].profiled THEN person
            ELSE [person EXCEPT ![p].profiled = TRUE, ![p].personal = @ \/ personal]

(* Name, address and place in the row of the user: a failure is swallowed   *)
SetOwner(p) == person' \in {person, [person EXCEPT ![p].personal = TRUE]}

WriteOwner(c, stage, next) ==
  /\ In(c, stage)
  /\ SetOwner(On(c))
  /\ Go(c, next)
  /\ UNCHANGED <<application, memory, redis>>

(* The second of two profiles is refused                                    *)
WriteProfile(c) ==
  /\ In(c, "addProfile")
  /\ AddProfile(On(c), TRUE)
  /\ Done(c)
  /\ UNCHANGED <<application, memory, redis>>

CreateProfile(c) ==
  \/ /\ In(c, "createProfile")
     /\ IF person[On(c)].profiled THEN Done(c) ELSE Go(c, "newOwner")
     /\ UNCHANGED <<person, application, memory, redis>>
  \/ WriteOwner(c, "newOwner", "addProfile")
  \/ WriteProfile(c)

UpdateProfile(c) ==
  \/ /\ In(c, "updateProfile")
     /\ Go(c, IF person[On(c)].profiled THEN "owner" ELSE "newOwner")
     /\ UNCHANGED <<person, application, memory, redis>>
  \/ WriteOwner(c, "newOwner", "addProfile")
  \/ WriteProfile(c)
  \/ WriteOwner(c, "owner", "setProfile")
  \/ /\ In(c, "setProfile")
     /\ person' = [person EXCEPT ![On(c)].personal = TRUE]
     /\ Done(c)
     /\ UNCHANGED <<application, memory, redis>>

(* Every call of a store begins with it: a base profile is made of the name *)
(* that is read with the user, which a cancellation has replaced or not     *)
GetOrCreateStoreProfile(c) ==
  \/ /\ In(c, "openProfile")
     /\ IF person[On(c)].profiled THEN Done(c) ELSE Go(c, "readOwner")
     /\ UNCHANGED <<person, application, memory, redis>>
  \/ /\ In(c, "readOwner")
     /\ visit' = [visit EXCEPT ![c].stage = "baseProfile",
                               ![c].copy.deleted = person[On(c)].deleted]
     /\ UNCHANGED <<person, application, memory, redis>>
  \/ /\ In(c, "baseProfile")
     /\ AddProfile(On(c), ~visit[c].copy.deleted)
     /\ Done(c)
     /\ UNCHANGED <<application, memory, redis>>

(* getAlliedStores looks a place up for a store in the catalogue that has   *)
(* none (which stores have one is not kept), and writes it by id later      *)
ListStore(c, p) ==
  /\ In(c, "idle")
  /\ p \in Stores /\ person[p].active /\ person[p].kycStatus = "APPROVED"
  /\ visit' = [visit EXCEPT ![c] = [NoVisit EXCEPT !.stage = "locate", !.person = p]]
  /\ UNCHANGED <<person, application, memory, redis>>

(* The place, if one is found                                              *)
LocateStore(c) ==
  /\ In(c, "locate")
  /\ SetOwner(On(c))
  /\ Done(c)
  /\ UNCHANGED <<application, memory, redis>>

-----------------------------------------------------------------------------
(* createKycApplication asks nobody whether the account is still there      *)

MarkKycPending(c, business) ==
  /\ In(c, "kyc")
  /\ person' = [person EXCEPT ![On(c)].kycStatus = "PENDING", ![On(c)].personal = TRUE]
  /\ Go(c, IF business THEN "business" ELSE "file")
  /\ UNCHANGED <<application, memory, redis>>

(* The store's profile, then the user's name                               *)
WriteBusiness(c) ==
  /\ In(c, "business")
  /\ person' = [person EXCEPT ![On(c)].personal = TRUE]
  /\ Go(c, "file")
  /\ UNCHANGED <<application, memory, redis>>

Filed(status, document) == [status |-> status, retryCount |-> 0, document |-> document]

FileApplication(c) ==
  /\ In(c, "file") /\ Len(application[On(c)]) < MaxApplications
  /\ application' = [application EXCEPT ![On(c)] = Append(@, Filed("PENDING", TRUE))]
  /\ Done(c)
  /\ UNCHANGED <<person, memory, redis>>

-----------------------------------------------------------------------------
(* updateUserKycStatus, called by an administrator.  A bound of the model:  *)
(* what too many observations rejected is not observed again               *)

ObservedSoFar(p) ==
  IF application[p] = <<>> THEN 0 ELSE application[p][Len(application[p])].retryCount

ReadApplication(c, p, verdict) ==
  LET filed == Len(application[p])
  IN  /\ In(c, "idle")
      /\ visit' = [visit EXCEPT ![c] =
           [NoVisit EXCEPT !.stage = "review", !.person = p, !.verdict = verdict,
              !.filed = filed, !.retryCount = ObservedSoFar(p)]]
      /\ verdict = "OBSERVED" => ObservedSoFar(p) <= MaxObserved
      /\ UNCHANGED <<person, application, memory, redis>>

ReadUser(c) ==
  /\ In(c, "review")
  /\ visit' = [visit EXCEPT ![c].stage = "decide",
                            ![c].copy.active = person[On(c)].active,
                            ![c].sponsored = person[On(c)].sponsored]
  /\ UNCHANGED <<person, application, memory, redis>>

Retries(c) == visit[c].retryCount + IF visit[c].verdict = "OBSERVED" THEN 1 ELSE 0

(* One observation too many rejects                                        *)
Decision(c) ==
  IF visit[c].verdict = "OBSERVED" /\ Retries(c) > MaxObserved
    THEN "REJECTED" ELSE visit[c].verdict

(* The application that was read is written; for a store without one it is  *)
(* made here, which may fail                                               *)
WriteDecision(c) ==
  LET p == On(c)
      decided == [application EXCEPT ![p][visit[c].filed] =
                    [@ EXCEPT !.status = Decision(c), !.retryCount = Retries(c)]]
  IN  /\ In(c, "decide")
      /\ \/ visit[c].filed > 0 /\ application' = decided
         \/ /\ visit[c].filed = 0 /\ p \in Stores /\ Len(application[p]) < MaxApplications
            /\ application' = [application EXCEPT ![p] = Append(@, Filed(Decision(c), TRUE))]
         \/ visit[c].filed = 0 /\ UNCHANGED application
      /\ visit' = [visit EXCEPT ![c].verdict = Decision(c),
                     ![c].stage = IF Decision(c) = "APPROVED" /\ ~visit[c].sponsored
                                    THEN "sponsor" ELSE "save"]
      /\ UNCHANGED <<person, memory, redis>>

(* sponsorAccountCreation: made on the chain, or it throws and is logged    *)
Sponsor(c) ==
  /\ In(c, "sponsor")
  /\ \E made \in BOOLEAN :
       visit' = [visit EXCEPT ![c].stage = "save", ![c].sponsored = made]
  /\ UNCHANGED <<person, application, memory, redis>>

(* An approval sets the row active; a rejection writes the activity that    *)
(* was read, and FALSE for a collector                                     *)
ActiveAfter(c) ==
  \/ visit[c].verdict = "APPROVED"
  \/ /\ visit[c].verdict = "REJECTED"
     /\ On(c) \notin Collectors /\ visit[c].copy.active
  \/ visit[c].verdict = "OBSERVED" /\ person[On(c)].active

(* The row is written by id, and nothing is evicted                          *)
SaveDecision(c) ==
  LET approved == visit[c].verdict = "APPROVED"
  IN  /\ In(c, "save")
      /\ person' = [person EXCEPT ![On(c)] =
           [@ EXCEPT !.kycStatus = visit[c].verdict, !.active = ActiveAfter(c),
                     !.sponsored = person[On(c)].sponsored \/ (approved /\ visit[c].sponsored)]]
      /\ Done(c)
      /\ UNCHANGED <<application, memory, redis>>

(* updateUserStatus of an administrator: by id, be the account cancelled or *)
(* not, and nothing is evicted                                             *)
SetActive(p, active) ==
  /\ person' = [person EXCEPT ![p].active = active]
  /\ UNCHANGED <<application, memory, redis, visit>>

-----------------------------------------------------------------------------
(* A server restarts: its memory is empty and its requests are gone         *)
Restart(s) ==
  /\ memory' = [memory EXCEPT ![s] = [p \in People |-> Absent]]
  /\ visit' = [c \in ProfileCalls |-> IF visit[c].server = s THEN NoVisit ELSE visit[c]]
  /\ UNCHANGED <<person, application, redis>>

Review(c) ==
  \/ \E p \in People, verdict \in {"APPROVED", "REJECTED", "OBSERVED"} : ReadApplication(c, p, verdict)
  \/ ReadUser(c) \/ WriteDecision(c) \/ Sponsor(c) \/ SaveDecision(c)

ProfilesNext ==
  \/ \E c \in ProfileCalls :
       \/ \E s \in Servers, p \in People, job \in {"update", "cancel", "kyc"} : Arrive(c, s, p, job)
       \/ AskRedis(c) \/ AskDatabase(c) \/ Remember(c) \/ Evict(c)
       \/ ReadForWrite(c) \/ WriteUpdate(c) \/ CommitCancel(c)
       \/ \E s \in Servers, p \in Stores, job \in {"createProfile", "updateProfile", "openProfile"} :
            Arrive(c, s, p, job)
       \/ CreateProfile(c) \/ UpdateProfile(c) \/ GetOrCreateStoreProfile(c)
       \/ (\E p \in People : ListStore(c, p)) \/ LocateStore(c)
       \/ \E business \in BOOLEAN : MarkKycPending(c, business)
       \/ WriteBusiness(c) \/ FileApplication(c)
       \/ Review(c)
  \/ \E s \in Servers, p \in People : MemoryExpires(s, p)
  \/ \E p \in People : RedisExpires(p)
  \/ \E s \in Servers : Restart(s)
  \/ \E p \in People, active \in BOOLEAN : SetActive(p, active)

ProfilesSpec == ProfilesInit /\ [][ProfilesNext]_profileVars

(* Times run out, and a request that has been let go on is answered by      *)
(* Redis and by the database                                               *)
ProfilesFairness ==
  /\ \A s \in Servers, p \in People : WF_profileVars(MemoryExpires(s, p))
  /\ \A p \in People : WF_profileVars(RedisExpires(p))
  /\ \A c \in ProfileCalls : WF_profileVars(AskRedis(c) \/ AskDatabase(c) \/ Remember(c))

-----------------------------------------------------------------------------
(* Properties                                                              *)

Copies == [here : BOOLEAN, active : BOOLEAN, deleted : BOOLEAN]
KycStatus == {"PENDING", "APPROVED", "REJECTED", "OBSERVED"}

ProfilesTypeOK ==
  /\ person \in [People -> [active : BOOLEAN, deleted : BOOLEAN, personal : BOOLEAN,
                            vault : BOOLEAN, kycStatus : KycStatus \union {"UNVERIFIED"},
                            sponsored : BOOLEAN, profiled : BOOLEAN]]
  /\ \A p \in People : application[p] \in
       Seq([status : KycStatus, retryCount : 0..(MaxObserved + 1), document : BOOLEAN])
  /\ memory \in [Servers -> [People -> Copies]]
  /\ redis \in [People -> Copies]
  /\ \A c \in ProfileCalls : visit[c].server \in Servers /\ visit[c].copy \in Copies

(* "Cuenta desactivada o eliminada": from some time after a cancellation on *)
(* every guard refuses the account, although other servers keep copies,     *)
(* requests that read the row before fill the caches after, a DEL may fail, *)
(* and an administrator's decision makes the row active again.              *)
CancelledStaysOut ==
  \A p \in People :
    <>[](person[p].deleted => \A s \in Servers : ~Admits(memory[s][p]))

=============================================================================
