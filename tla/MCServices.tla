----------------------------- MODULE MCServices -----------------------------
(* Small instances of the services that share nothing but the process they *)
(* run in.  A behaviour plays one part, chosen at the start: one service,   *)
(* with what limits its clients there, so that the state spaces add up.     *)
EXTENDS RpcPool, Deposits, IdempotentRequests, Accounts, Profiles, Community,
        Registration, PushDevices, Ratings, TLC

CONSTANTS n1, n2, c1, c2, f1, s1, o1, o2, x1, p1, t1, t2

VARIABLE part

services == <<rpcVars, depositVars, idemVars, accountVars, profileVars, communityVars,
              registrationVars, pushVars, ratingVars>>
mcVars == <<services, part>>

Nodes == <<n1, n2>>
TierTable == (n1 :> "PRIMARY") @@ (n2 :> "FALLBACK")

Parts == {"nodes", "deposits", "mintAgain", "keys", "passwords", "sessions", "copies", "shop", "review",
          "ratings", "complaints", "answers", "forest", "code", "twoCodes", "devices"}

MCInit ==
  /\ part \in Parts
  /\ RpcInit /\ DepositsInit /\ IdemInit /\ AccountsInit
  /\ ProfilesInit /\ CommunityInit /\ RegistrationInit /\ PushInit /\ RatingsInit
  /\ part # "shop" => \A p \in Stores : person[p].profiled

-----------------------------------------------------------------------------
(* c1 and c2 stand for any two clients: c2 is busy only if c1 was before it. *)
(* Of tokens, users and notices too the first comes first.                  *)
InOrder(idle1, idle2, idle2Next) == idle1 /\ idle2 => idle2Next

(* Accounts: wrong passwords and resets while nobody is signed in, or       *)
(* sessions with neither                                                   *)
AuthInOrder == InOrder(At(c1, "idle"), At(c2, "idle"), At(c2, "idle")')
PasswordsPart == AccountsNext /\ live' = {} /\ AuthInOrder
SessionsPart == AccountsNext /\ <<wrong, resetLink>>' = <<wrong, resetLink>> /\ AuthInOrder
                /\ (holder'[t2] # Unissued => holder[t1] # Unissued)

(* Profiles: the copies of a row on two servers, of an owner who is active  *)
(* until the account is cancelled; the profile of a store on one server; or  *)
(* an owner whose application two administrators decide                     *)
StoreJobs == {"createProfile", "updateProfile", "openProfile"}
CopiesPart == ProfilesNext /\ application' = application
          /\ \A p \in People : /\ person'[p].kycStatus = person[p].kycStatus
                               /\ person'[p].active # person'[p].deleted
          /\ \A c \in ProfileCalls : visit'[c].stage # "review" /\ visit'[c].job \notin StoreJobs
          /\ InOrder(In(c1, "idle"), In(c2, "idle"), In(c2, "idle")')
ShopPart ==
  /\ ProfilesNext /\ <<application, redis>>' = <<application, redis>>
  /\ \A p \in People : /\ person'[p].kycStatus = person[p].kycStatus
                       /\ person'[p].active # person'[p].deleted
                       /\ \A s \in Servers \ {s1} : ~memory'[s][p].here
  /\ \A c \in ProfileCalls : /\ visit'[c].server = s1 /\ visit'[c].stage # "review"
                             /\ visit'[c].job \in StoreJobs \cup {"none", "cancel"}
  /\ InOrder(In(c1, "idle"), In(c2, "idle"), In(c2, "idle")')
ReviewPart == ProfilesNext
          /\ \A p \in People : ~redis'[p].here /\ \A s \in Servers \ {s1} : ~memory'[s][p].here
          /\ \A c \in ProfileCalls :
               IF c = c1 THEN visit'[c].verdict = "none" /\ visit'[c].job \notin StoreJobs
               ELSE visit'[c].job = "none" /\ visit'[c].verdict # "REJECTED"

(* Complaints: transactions that race for a number, or replies to one        *)
ComplaintsPart == CommunityNext /\ <<forest, reply>>' = <<forest, reply>>
AnswersPart == CommunityNext /\ forest' = forest /\ lockedBy' \in {NoFiling, f1}
ForestPart == CommunityNext /\ filing' = filing

(* Registration: one call after another with every expiry, or two at once,  *)
(* of which one stores a code, with that of the cooldowns                   *)
OneCodePart == RegistrationNext /\ calm' /\ otpCall'[c2].stage = "idle"
               /\ (codeForm' # <<>> => codeForm'[1] = f1)
TwoCodesPart == /\ RegistrationNext /\ calm' /\ codeForm' \in {<<>>, <<f1>>}
                /\ ~keys'.shared.stale /\ otpCall'[c2].job # "store"
                /\ \A key \in DOMAIN NoKeys \ {"cooldown", "sharedCooldown"} : ~KeyLapses(key)

NodesPart == RpcNext /\ InOrder(Idle(c1), Idle(c2), Idle(c2)')

(* A second deposit counts towards the limit but is not paid and nobody      *)
(* mints again, or there is one deposit, paid and notified once, and an     *)
(* administrator.  A notification is read when its push is over.            *)
DepositsPart == DepositsNext /\ charged' \subseteq {o1} /\ retry' = retry
                /\ (deposit'[o2].status # "none" => deposit[o1].status # "none")
                /\ (notice[x1].stage = "none" => \A n \in Notices : notice'[n].stage # "none" => n = x1)
MintAgainPart == /\ DepositsNext /\ deposit'[o2] = NoDeposit
                 /\ \A n \in Notices : notice'[n].stage # "none" => n = x1 /\ notice'[n].paid
DevicesPart == PushNext
               /\ InOrder(CallAt(c1, "idle"), CallAt(c2, "idle"), CallAt(c2, "idle")')
               /\ deviceCall'[c2].job # "update"
               /\ \A n \in Pushes : /\ push'[n].user \in {p1, NoOne}
                                    /\ push'[n].isRead => push'[n].stage = "done"

MCNext ==
  /\ UNCHANGED part
  /\ \/ /\ part = "nodes" /\ NodesPart
        /\ UNCHANGED <<depositVars, idemVars, accountVars, profileVars, communityVars,
                       registrationVars, pushVars, ratingVars>>
     \/ /\ \/ part = "deposits" /\ DepositsPart
           \/ part = "mintAgain" /\ MintAgainPart
        /\ UNCHANGED <<rpcVars, idemVars, accountVars, profileVars, communityVars,
                       registrationVars, pushVars, ratingVars>>
     \/ /\ part = "keys" /\ IdemNext
        /\ UNCHANGED <<rpcVars, depositVars, accountVars, profileVars, communityVars,
                       registrationVars, pushVars, ratingVars>>
     \/ /\ \/ part = "passwords" /\ PasswordsPart
           \/ part = "sessions" /\ SessionsPart
        /\ UNCHANGED <<rpcVars, depositVars, idemVars, profileVars, communityVars,
                       registrationVars, pushVars, ratingVars>>
     \/ /\ \/ part = "copies" /\ CopiesPart
           \/ part = "shop" /\ ShopPart
           \/ part = "review" /\ ReviewPart
        /\ UNCHANGED <<rpcVars, depositVars, idemVars, accountVars, communityVars,
                       registrationVars, pushVars, ratingVars>>
     \/ /\ \/ part = "complaints" /\ ComplaintsPart
           \/ part = "answers" /\ AnswersPart
           \/ part = "forest" /\ ForestPart
        /\ UNCHANGED <<rpcVars, depositVars, idemVars, accountVars, profileVars,
                       registrationVars, pushVars, ratingVars>>
     \/ /\ \/ part = "code" /\ OneCodePart
           \/ part = "twoCodes" /\ TwoCodesPart
        /\ UNCHANGED <<rpcVars, depositVars, idemVars, accountVars, profileVars, communityVars,
                       pushVars, ratingVars>>
     \/ /\ part = "devices" /\ DevicesPart
        /\ UNCHANGED <<rpcVars, depositVars, idemVars, accountVars, profileVars, communityVars,
                       registrationVars, ratingVars>>
     \/ /\ part = "ratings" /\ RatingsNext
        /\ UNCHANGED <<rpcVars, depositVars, idemVars, accountVars, profileVars, communityVars,
                       registrationVars, pushVars>>

MCSpec == MCInit /\ [][MCNext]_mcVars /\ DepositsFairness /\ ProfilesFairness

TypeOK ==
  /\ RpcTypeOK /\ DepositsTypeOK /\ IdemTypeOK /\ AccountsTypeOK
  /\ ProfilesTypeOK /\ CommunityTypeOK /\ RegistrationTypeOK /\ PushTypeOK /\ RatingsTypeOK
=============================================================================
