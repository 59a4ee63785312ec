---------------------------- MODULE Registration ----------------------------
(***************************************************************************)
(* OtpService with register, verifyEmail and resendOtp of AuthService: the *)
(* registration of one email address, before and until its account exists. *)
(*                                                                         *)
(* Redis keeps the registration twice: in keys of the service's own        *)
(* (auth:register:payload, auth:otp:code, auth:otp:attempts,               *)
(* auth:otp:cooldown) and in a shared scheme (otp:register, which holds the *)
(* form and the hash of the code, otp:attempts, otp:cooldown).  Every call  *)
(* is a sequence of commands to them, and calls interleave.                *)
(***************************************************************************)
EXTENDS Naturals, Sequences, FiniteSets

CONSTANTS Forms,        \* registration forms (RegisterDto) sent for the address
          AuthRequests, \* calls in flight
          MaxTries,     \* wrong codes before the code is deleted (5 in the code)
          MaxCodes      \* bound: codes generated

NoForm == "none"

ASSUME RegistrationAssumption ==
  /\ IsFiniteSet(AuthRequests) /\ NoForm \notin Forms
  /\ MaxTries \in Nat \ {0} /\ MaxCodes \in Nat

VARIABLES keys,      \* the seven keys of the address in Redis
          codeForm,  \* the codes generated: the form each was generated for
          mailed,    \* codes that have reached the address
          account,   \* the user that was created: with which form, by which code
          consents,  \* rows of consentAudit
          otpCall,   \* a call: what it has read and the commands it has left
          calm       \* history: no call that stores a code has met another, or died

registrationVars == <<keys, codeForm, mailed, account, consents, otpCall, calm>>

NoShared == [form |-> NoForm, code |-> 0, stale |-> FALSE]
NoKeys == [payload |-> NoForm, code |-> 0, tries |-> 0, cooldown |-> FALSE,
           shared |-> NoShared, sharedTries |-> 0, sharedCooldown |-> FALSE]
NoRequest == [stage |-> "idle", job |-> "none", form |-> NoForm, code |-> 0,
              typed |-> 0, stale |-> FALSE, own |-> TRUE, work |-> <<>>]

RegistrationInit ==
  /\ keys = NoKeys
  /\ codeForm = <<>>
  /\ mailed = {}
  /\ account = [form |-> NoForm, code |-> 0]
  /\ consents = 0
  /\ otpCall = [c \in AuthRequests |-> NoRequest]
  /\ calm = TRUE

RequestAt(c, stage) == otpCall[c].stage = stage
GoesTo(c, stage) == otpCall' = [otpCall EXCEPT ![c].stage = stage]
Answer(c) == otpCall' = [otpCall EXCEPT ![c] = NoRequest]
NewCode == Len(codeForm) + 1

(* The commands of a call, in their order: generateAndStoreRegistrationOtp, *)
(* resendRegistrationOtp, clearRegistrationOtp                             *)
StoreCommands == <<"shared", "sharedTries", "sharedCooldown", "payload", "code", "tries", "cooldown">>
ResendCommands == <<"code", "tries", "cooldown", "shared", "sharedTries", "sharedCooldown">>
ClearCommands == <<"payload", "code", "tries", "cooldown", "shared", "sharedTries", "sharedCooldown">>

Runs(c, commands) == [otpCall[c] EXCEPT !.stage = "commands", !.work = commands]

(* A SET of the payload that does not replace one                           *)
PayloadIfNone(c) == IF keys.payload = NoForm THEN otpCall[c].form ELSE keys.payload

PayloadOf(c) == otpCall[c].form

(* What a command leaves in its key: a call that stores writes its code, any *)
(* other deletes                                                           *)
Written(c) ==
  IF otpCall[c].job = "store"
    THEN [payload |-> PayloadOf(c), code |-> otpCall[c].code, tries |-> 0, cooldown |-> TRUE,
          shared |-> [form |-> otpCall[c].form, code |-> otpCall[c].code, stale |-> FALSE],
          sharedTries |-> 0, sharedCooldown |-> TRUE]
    ELSE NoKeys

Command(c) ==
  /\ RequestAt(c, "commands") /\ otpCall[c].work # <<>>
  /\ LET key == Head(otpCall[c].work) IN keys' = [keys EXCEPT ![key] = Written(c)[key]]
  /\ otpCall' = [otpCall EXCEPT ![c].work = Tail(@)]
  /\ UNCHANGED <<codeForm, mailed, account, consents>>

(* The answer; a code that was stored is mailed first                       *)
LastCommandDone(c) ==
  /\ RequestAt(c, "commands") /\ otpCall[c].work = <<>>
  /\ mailed' = IF otpCall[c].job = "store" THEN mailed \union {otpCall[c].code} ELSE mailed
  /\ Answer(c)
  /\ UNCHANGED <<keys, codeForm, account, consents>>

-----------------------------------------------------------------------------
(* register and resendOtp                                                  *)

Register(c, form) ==
  /\ RequestAt(c, "idle") /\ account.form = NoForm
  /\ codeForm' = Append(codeForm, form)
  /\ otpCall' = [otpCall EXCEPT ![c] =
       [NoRequest EXCEPT !.stage = "commands", !.job = "store", !.form = form,
                         !.code = NewCode, !.work = StoreCommands]]
  /\ UNCHANGED <<keys, mailed, account, consents>>

Resend(c) ==
  /\ RequestAt(c, "idle") /\ ~keys.cooldown /\ ~keys.sharedCooldown
  /\ otpCall' = [otpCall EXCEPT ![c] = [NoRequest EXCEPT !.stage = "lookup", !.job = "store"]]
  /\ UNCHANGED <<keys, codeForm, mailed, account, consents>>

(* The form of the service's own keys, else that of the shared one; none is *)
(* an error                                                                *)
FormFound == IF keys.payload # NoForm THEN keys.payload ELSE keys.shared.form

GenerateAgain(c) ==
  /\ RequestAt(c, "lookup")
  /\ IF FormFound = NoForm
       THEN Answer(c) /\ UNCHANGED codeForm
       ELSE /\ codeForm' = Append(codeForm, FormFound)
            /\ otpCall' = [otpCall EXCEPT ![c] =
                 [Runs(c, ResendCommands) EXCEPT !.form = FormFound, !.code = NewCode]]
  /\ UNCHANGED <<keys, mailed, account, consents>>

-----------------------------------------------------------------------------
(* verifyEmail                                                             *)

(* The payload is read; typed is a code that was mailed, or 0, a wrong one   *)
Verify(c, typed) ==
  /\ RequestAt(c, "idle")
  /\ otpCall' = [otpCall EXCEPT ![c] =
       [NoRequest EXCEPT !.stage = IF keys.payload # NoForm THEN "code" ELSE "shared",
                         !.job = "verify", !.form = keys.payload, !.typed = typed]]
  /\ UNCHANGED <<keys, codeForm, mailed, account, consents>>

ReadShared(c) ==
  /\ RequestAt(c, "shared")
  /\ IF keys.shared.form = NoForm
       THEN Answer(c)
       ELSE otpCall' = [otpCall EXCEPT ![c] =
              [@ EXCEPT !.stage = "tries", !.own = FALSE, !.form = keys.shared.form,
                        !.code = keys.shared.code, !.stale = keys.shared.stale]]
  /\ UNCHANGED <<keys, codeForm, mailed, account, consents>>

ReadCode(c) ==
  /\ RequestAt(c, "code")
  /\ IF keys.code = 0
       THEN Answer(c)
       ELSE otpCall' = [otpCall EXCEPT ![c].stage = "tries", ![c].code = keys.code]
  /\ UNCHANGED <<keys, codeForm, mailed, account, consents>>

Counter(c) == IF otpCall[c].own THEN "tries" ELSE "sharedTries"

(* Too many attempts, a shared code that is old, a wrong code, or the right  *)
(* one                                                                     *)
Compare(c) ==
  /\ RequestAt(c, "tries")
  /\ CASE keys[Counter(c)] >= MaxTries ->
            otpCall' = [otpCall EXCEPT ![c] =
              Runs(c, IF otpCall[c].own THEN <<"code">> ELSE <<"shared", "sharedTries">>)]
       [] keys[Counter(c)] < MaxTries /\ otpCall[c].stale -> Answer(c)
       [] OTHER -> GoesTo(c, IF otpCall[c].typed = otpCall[c].code THEN "create" ELSE "count")
  /\ UNCHANGED <<keys, codeForm, mailed, account, consents>>

CountTry(c) ==
  LET tries == keys[Counter(c)] + 1
      block == IF otpCall[c].own THEN <<"code">> ELSE <<"shared">>
  IN  /\ RequestAt(c, "count")
      /\ keys' = [keys EXCEPT ![Counter(c)] = tries]
      /\ otpCall' = [otpCall EXCEPT ![c] = Runs(c, IF tries >= MaxTries THEN block ELSE <<>>)]
      /\ UNCHANGED <<codeForm, mailed, account, consents>>

(* UsersService.create: the email is unique                                *)
CreateUser(c) ==
  /\ RequestAt(c, "create")
  /\ IF account.form # NoForm
       THEN Answer(c) /\ UNCHANGED account
       ELSE /\ account' = [form |-> otpCall[c].form, code |-> otpCall[c].typed]
            /\ GoesTo(c, "consent")
  /\ UNCHANGED <<keys, codeForm, mailed, consents>>

(* The consent is stored and a session made; the keys are deleted           *)
StoreConsent(c) ==
  /\ RequestAt(c, "consent")
  /\ consents' = consents + 1
  /\ otpCall' = [otpCall EXCEPT ![c] = Runs(c, ClearCommands)]
  /\ UNCHANGED <<keys, codeForm, mailed, account>>

-----------------------------------------------------------------------------
(* Redis lets a key expire: the code after 10 minutes, the payload after 30, *)
(* a cooldown after one.  A count of tries lives as long as what it is for.  *)
KeyLapses(key) ==
  /\ keys[key] # NoKeys[key]
  /\ key = "tries" => keys.payload = NoForm
  /\ key = "sharedTries" => keys.shared.form = NoForm
  /\ keys' = [keys EXCEPT ![key] = NoKeys[key]]
  /\ UNCHANGED <<codeForm, mailed, account, consents, otpCall>>

(* otpExpiresAt of the shared payload passes                                *)
SharedCodeAges ==
  /\ keys.shared.form # NoForm /\ ~keys.shared.stale
  /\ keys' = [keys EXCEPT !.shared.stale = TRUE]
  /\ UNCHANGED <<codeForm, mailed, account, consents, otpCall>>

(* A command fails, the mail is not sent, or the server dies                *)
RequestLost(c) ==
  /\ ~RequestAt(c, "idle")
  /\ Answer(c)
  /\ UNCHANGED <<keys, codeForm, mailed, account, consents>>

-----------------------------------------------------------------------------
(* calm is kept by the calls themselves                                     *)
Storing(r) == \E c \in AuthRequests : r[c].job = "store"
InFlight(r) == {c \in AuthRequests : r[c].stage # "idle"}
CalmKept == calm' = (calm /\ (Storing(otpCall') => Cardinality(InFlight(otpCall')) = 1))

RegistrationNext ==
  \/ /\ \/ \E c \in AuthRequests, form \in Forms : Len(codeForm) < MaxCodes /\ Register(c, form)
        \/ \E c \in AuthRequests :
             \/ Command(c) \/ LastCommandDone(c) \/ Resend(c)
             \/ Len(codeForm) < MaxCodes /\ GenerateAgain(c)
             \/ ReadShared(c) \/ ReadCode(c) \/ Compare(c) \/ CountTry(c)
             \/ CreateUser(c) \/ StoreConsent(c)
        \/ \E c \in AuthRequests, typed \in mailed \union {0} : Verify(c, typed)
        \/ \E key \in DOMAIN NoKeys : KeyLapses(key)
        \/ SharedCodeAges
     /\ CalmKept
  \/ \E c \in AuthRequests : RequestLost(c) /\ calm' = (calm /\ otpCall[c].job # "store")

RegistrationSpec == RegistrationInit /\ [][RegistrationNext]_registrationVars

-----------------------------------------------------------------------------
(* Properties                                                              *)

RegistrationTypeOK ==
  /\ keys.payload \in Forms \union {NoForm} /\ keys.shared.form \in Forms \union {NoForm}
  /\ {keys.code, keys.shared.code} \subseteq 0..MaxCodes
  /\ {keys.tries, keys.sharedTries} \subseteq 0..(MaxTries + Cardinality(AuthRequests))
  /\ mailed \subseteq DOMAIN codeForm
  /\ consents \in 0..1
  /\ \A c \in AuthRequests :
       otpCall[c].stage \in {"idle", "commands", "lookup", "code", "shared", "tries",
                             "count", "create", "consent"}

(* register, resendOtp and verifyEmail: the account is created from the     *)
(* form its code was mailed for, whichever of the two schemes answers and   *)
(* whatever has expired.  Only a register or a resend that met another call, *)
(* or that stopped between its commands, can pair a form with the code of   *)
(* another.                                                                *)
AccountOfItsCode ==
  (calm /\ account.form # NoForm) =>
     account.code \in mailed /\ codeForm[account.code] = account.form

=============================================================================
