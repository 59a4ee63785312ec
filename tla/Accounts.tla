------------------------------- MODULE Accounts ------------------------------
(***************************************************************************)
(* AuthService and SessionService: credentials with their count of failed   *)
(* logins, refresh tokens in Redis and the set user:sessions that lists     *)
(* them, and the handlers that log in, refresh, reset and change passwords. *)
(* Every await of a handler is a step; what a handler has read may be old   *)
(* when it writes.  cancelAccountARCO takes the credentials away.           *)
(*                                                                         *)
(* A token and the list live 30 days.  createSession sets the time of both, *)
(* rotateSession that of the new token only: the list may run out once      *)
(* every token that createSession made is gone.  A list that a rotation has *)
(* emptied and begun again has no time at all.                              *)
(***************************************************************************)
EXTENDS Naturals, FiniteSets

CONSTANTS Members,      \* users with an account
          Tokens,       \* refresh tokens randomUUID can return
          AuthCalls,    \* handlers in flight
          Passwords,
          ResetLinks,   \* tokens of recovery mails
          MaxFailures,  \* failed logins that lock an account (5 in the code)
          MaxWrong      \* bound: wrong passwords tried on an account

NoMember == "nobody"

ASSUME AccountsAssumption ==
  /\ IsFiniteSet(Tokens) /\ IsFiniteSet(Passwords) /\ Passwords # {}
  /\ NoMember \notin Members
  /\ MaxFailures \in Nat \ {0} /\ MaxWrong \in Nat

VARIABLES credential, \* password, failedAttempts and lockedUntil of a member, or none
          live,       \* refresh tokens that exist: session:rt:<token>
          holder,     \* the member and the login a token was issued for
          listed,     \* user:sessions:<member>
          timed,      \* members whose list has a time to run out
          resetLink,  \* recovery links that exist, and for whom
          authCall,   \* a handler: what it does, where it is, what it has read
          wrong,      \* wrong passwords an account was tried with
          strays      \* tokens taken off a list, or never put on one, while they lived

accountVars == <<credential, live, holder, listed, timed, resetLink, authCall, wrong, strays>>

SomePassword == CHOOSE p \in Passwords : TRUE
NewCredential == [active |-> TRUE, password |-> SomePassword, failedAttempts |-> 0,
                  lockedUntil |-> "null"]
Unissued == [member |-> NoMember, rotated |-> FALSE]
NoCall == [stage |-> "idle", member |-> NoMember, password |-> SomePassword,
           failedAttempts |-> 0, token |-> "none", tokens |-> {}, link |-> "none"]

AccountsInit ==
  /\ credential = [m \in Members |-> NewCredential]
  /\ live = {}
  /\ holder = [t \in Tokens |-> Unissued]
  /\ listed = [m \in Members |-> {}]
  /\ timed = {}
  /\ resetLink = [k \in ResetLinks |-> "unsent"]
  /\ authCall = [c \in AuthCalls |-> NoCall]
  /\ wrong = [m \in Members |-> 0]
  /\ strays = {}

At(c, stage) == authCall[c].stage = stage
Member(c) == authCall[c].member
SessionsOf(m) == {t \in live : holder[t].member = m}
Leave(c) == authCall' = [authCall EXCEPT ![c] = NoCall]
Move(c, stage) == authCall' = [authCall EXCEPT ![c].stage = stage]

-----------------------------------------------------------------------------
(* login                                                                   *)

LoginAllowed(m) == credential[m].active /\ credential[m].lockedUntil # "future"

(* The password and the count are read, and compared outside the database   *)
ReadForLogin(c, m, password) ==
  /\ At(c, "idle") /\ LoginAllowed(m)
  /\ authCall' = [authCall EXCEPT ![c] =
       [NoCall EXCEPT !.member = m, !.password = credential[m].password,
                      !.failedAttempts = credential[m].failedAttempts,
                      !.stage = IF password # credential[m].password THEN "mismatch"
                                ELSE IF credential[m].failedAttempts > 0
                                        \/ credential[m].lockedUntil # "null"
                                     THEN "match" ELSE "create"]]
  /\ password # credential[m].password => wrong[m] < MaxWrong
  /\ wrong' = IF password # credential[m].password
                THEN [wrong EXCEPT ![m] = @ + 1] ELSE wrong
  /\ UNCHANGED <<credential, live, holder, listed, timed, resetLink, strays>>

(* The count that was read, plus one, replaces the count                    *)
Locks(failedAttempts) == failedAttempts >= MaxFailures

(* The update fails when the account has lost its credentials meanwhile     *)
CountFailure(c) ==
  LET count == authCall[c].failedAttempts + 1
  IN  /\ At(c, "mismatch")
      /\ credential' = IF credential[Member(c)].active
           THEN [credential EXCEPT ![Member(c)].failedAttempts = count,
                                   ![Member(c)].lockedUntil = IF Locks(count) THEN "future" ELSE @]
           ELSE credential
      /\ Leave(c)
      /\ UNCHANGED <<live, holder, listed, timed, resetLink, wrong, strays>>

ClearFailures(c) ==
  /\ At(c, "match")
  /\ IF credential[Member(c)].active
       THEN /\ credential' = [credential EXCEPT ![Member(c)].failedAttempts = 0,
                                                ![Member(c)].lockedUntil = "null"]
            /\ Move(c, "create")
       ELSE Leave(c) /\ UNCHANGED credential
  /\ UNCHANGED <<live, holder, listed, timed, resetLink, wrong, strays>>

(* lockedUntil passes; the count stays, so the next failure locks again     *)
LockPasses(m) ==
  /\ credential[m].lockedUntil = "future"
  /\ credential' = [credential EXCEPT ![m].lockedUntil = "past"]
  /\ UNCHANGED <<live, holder, listed, timed, resetLink, authCall, wrong, strays>>

-----------------------------------------------------------------------------
(* createSession and rotateSession                                         *)

(* A token that nobody lists                                               *)
IssueUnlisted(c, t, rotated) ==
  /\ holder[t].member = NoMember
  /\ holder' = [holder EXCEPT ![t] = [member |-> Member(c), rotated |-> rotated]]
  /\ live' = live \union {t}
  /\ Leave(c)

Issue(c, t, rotated) ==
  /\ holder[t].member = NoMember
  /\ holder' = [holder EXCEPT ![t] = [member |-> Member(c), rotated |-> rotated]]
  /\ live' = live \union {t}
  /\ authCall' = [authCall EXCEPT ![c].token = t, ![c].stage = "index"]

StoreSession(c, t) ==
  /\ At(c, "create")
  /\ Issue(c, t, FALSE)
  /\ UNCHANGED <<credential, listed, timed, resetLink, wrong, strays>>

(* SADD, and for a login EXPIRE of the list: a crash between the two is left *)
(* out                                                                     *)
IndexSession(c) ==
  /\ At(c, "index")
  /\ listed' = [listed EXCEPT ![Member(c)] = @ \union {authCall[c].token}]
  /\ timed' = IF holder[authCall[c].token].rotated THEN timed ELSE timed \union {Member(c)}
  /\ Leave(c)
  /\ UNCHANGED <<credential, live, holder, resetLink, wrong, strays>>

(* rotateSession                                                           *)
ReadForRotation(c, t) ==
  /\ At(c, "idle") /\ t \in live
  /\ authCall' = [authCall EXCEPT ![c] =
       [NoCall EXCEPT !.stage = "rotate", !.member = holder[t].member, !.token = t]]
  /\ UNCHANGED <<credential, live, holder, listed, timed, resetLink, wrong, strays>>

(* DEL does not say whether the token was still there                       *)
DropRotated(c) ==
  /\ At(c, "rotate")
  /\ live' = live \ {authCall[c].token}
  /\ Move(c, "unlist")
  /\ UNCHANGED <<credential, holder, listed, timed, resetLink, wrong, strays>>

UnlistRotated(c) ==
  /\ At(c, "unlist")
  /\ listed' = [listed EXCEPT ![Member(c)] = @ \ {authCall[c].token}]
  /\ timed' = IF listed'[Member(c)] = {} THEN timed \ {Member(c)} ELSE timed
  /\ Move(c, "reissue")
  /\ UNCHANGED <<credential, live, holder, resetLink, wrong, strays>>

(* refresh looks at the account only after this, and the token stays        *)
StoreRotated(c, t) ==
  /\ At(c, "reissue")
  /\ Issue(c, t, TRUE)
  /\ UNCHANGED <<credential, listed, timed, resetLink, wrong, strays>>

TokenExpires(t) ==
  /\ t \in live
  /\ live' = live \ {t}
  /\ UNCHANGED <<credential, holder, listed, timed, resetLink, authCall, wrong, strays>>

ListExpires(m) ==
  /\ m \in timed
  /\ \A t \in SessionsOf(m) : holder[t].rotated
  /\ \A c \in AuthCalls : At(c, "index") /\ Member(c) = m => holder[authCall[c].token].rotated
  /\ listed' = [listed EXCEPT ![m] = {}]
  /\ timed' = timed \ {m}
  /\ strays' = strays \union (listed[m] \cap live)
  /\ UNCHANGED <<credential, live, holder, resetLink, authCall, wrong>>

-----------------------------------------------------------------------------
(* forgotPassword, resetPassword, changePassword                           *)

ForgotPassword(m, k) ==
  /\ resetLink[k] = "unsent"
  /\ resetLink' = [resetLink EXCEPT ![k] = m]
  /\ UNCHANGED <<credential, live, holder, listed, timed, authCall, wrong, strays>>

LinkExpires(k) ==
  /\ resetLink[k] \in Members
  /\ resetLink' = [resetLink EXCEPT ![k] = "gone"]
  /\ UNCHANGED <<credential, live, holder, listed, timed, authCall, wrong, strays>>

(* The link is read.  A cancelled account no longer has the address         *)
ReadForReset(c, k, password) ==
  /\ At(c, "idle") /\ resetLink[k] \in Members /\ credential[resetLink[k]].active
  /\ authCall' = [authCall EXCEPT ![c] =
       [NoCall EXCEPT !.stage = "setPassword", !.member = resetLink[k],
                      !.password = password, !.link = k]]
  /\ UNCHANGED <<credential, live, holder, listed, timed, resetLink, wrong, strays>>

(* changePassword compares the current password, that of the read           *)
ReadForChange(c, m, password) ==
  /\ At(c, "idle") /\ credential[m].active /\ password # credential[m].password
  /\ authCall' = [authCall EXCEPT ![c] =
       [NoCall EXCEPT !.stage = "setPassword", !.member = m, !.password = password]]
  /\ UNCHANGED <<credential, live, holder, listed, timed, resetLink, wrong, strays>>

(* The credentials are replaced.  The reset's upsert would make them again  *)
(* for an account cancelled meanwhile, which stays inactive; the update of  *)
(* changePassword throws                                                   *)
Replaced(c) == [credential EXCEPT ![Member(c)] = [NewCredential EXCEPT !.password = authCall[c].password]]

StoreReset(c) ==
  /\ At(c, "setPassword") /\ authCall[c].link # "none"
  /\ credential' = IF credential[Member(c)].active THEN Replaced(c) ELSE credential
  /\ Move(c, "list")
  /\ UNCHANGED <<live, holder, listed, timed, resetLink, wrong, strays>>

StoreChange(c) ==
  /\ At(c, "setPassword") /\ authCall[c].link = "none"
  /\ IF credential[Member(c)].active
       THEN credential' = Replaced(c) /\ Move(c, "list")
       ELSE UNCHANGED credential /\ Leave(c)
  /\ UNCHANGED <<live, holder, listed, timed, resetLink, wrong, strays>>

(* UsersService.changePassword: an upsert, which leaves a cancelled account *)
(* inactive, and no session is touched                                     *)
SetPasswordOnly(c) ==
  /\ At(c, "setPassword") /\ authCall[c].link = "none"
  /\ credential' = IF credential[Member(c)].active THEN Replaced(c) ELSE credential
  /\ Leave(c)
  /\ UNCHANGED <<live, holder, listed, timed, resetLink, wrong, strays>>

(* regularizeUserPassword of an administrator: one upsert, to the same end.  *)
(* The mail it may send is ForgotPassword's.                                *)
RegularizePassword(m, password) ==
  /\ credential[m].active
  /\ credential' = [credential EXCEPT ![m] = [NewCredential EXCEPT !.password = password]]
  /\ UNCHANGED <<live, holder, listed, timed, resetLink, authCall, wrong, strays>>

(* invalidateAllUserSessions: SMEMBERS, then one pipeline                   *)
ListSessions(c) ==
  /\ At(c, "list")
  /\ authCall' = [authCall EXCEPT ![c].tokens = listed[Member(c)], ![c].stage = "drop"]
  /\ UNCHANGED <<credential, live, holder, listed, timed, resetLink, wrong, strays>>

DropSessions(c) ==
  /\ At(c, "drop")
  /\ live' = live \ authCall[c].tokens
  /\ IF authCall[c].tokens = {}
       THEN UNCHANGED <<listed, timed, strays>>
       ELSE /\ listed' = [listed EXCEPT ![Member(c)] = {}]
            /\ timed' = timed \ {Member(c)}
            /\ strays' = strays \union ((live \cap listed[Member(c)]) \ authCall[c].tokens)
  /\ Move(c, "dropped")
  /\ UNCHANGED <<credential, holder, resetLink, wrong>>

DropLink(c) ==
  /\ At(c, "dropped")
  /\ resetLink' = [k \in ResetLinks |-> IF k = authCall[c].link THEN "gone" ELSE resetLink[k]]
  /\ Leave(c)
  /\ UNCHANGED <<credential, live, holder, listed, timed, wrong, strays>>

-----------------------------------------------------------------------------
(* A process dies under a handler; an account is cancelled                 *)

CallDies(c) ==
  /\ ~At(c, "idle")
  /\ Leave(c)
  /\ strays' = IF At(c, "index") THEN strays \union {authCall[c].token} ELSE strays
  /\ UNCHANGED <<credential, live, holder, listed, timed, resetLink, wrong>>

(* cancelAccountARCO: the account's address, credentials and activity go in *)
(* one transaction; its sessions are left to run out                        *)
CancelAccount(m) ==
  /\ credential[m].active
  /\ credential' = [credential EXCEPT ![m] = [NewCredential EXCEPT !.active = FALSE]]
  /\ UNCHANGED <<live, holder, listed, timed, resetLink, authCall, wrong, strays>>

AccountsNext ==
  \/ \E c \in AuthCalls, m \in Members, p \in Passwords : ReadForLogin(c, m, p) \/ ReadForChange(c, m, p)
  \/ \E c \in AuthCalls, t \in Tokens :
       ReadForRotation(c, t) \/ StoreSession(c, t) \/ StoreRotated(c, t)
  \/ \E c \in AuthCalls, k \in ResetLinks, p \in Passwords : ReadForReset(c, k, p)
  \/ \E c \in AuthCalls :
       \/ CountFailure(c) \/ ClearFailures(c) \/ IndexSession(c)
       \/ DropRotated(c) \/ UnlistRotated(c)
       \/ StoreReset(c) \/ StoreChange(c) \/ SetPasswordOnly(c) \/ ListSessions(c) \/ DropSessions(c) \/ DropLink(c)
       \/ CallDies(c)
  \/ \E m \in Members, k \in ResetLinks : ForgotPassword(m, k)
  \/ \E k \in ResetLinks : LinkExpires(k)
  \/ \E m \in Members, p \in Passwords : RegularizePassword(m, p)
  \/ \E m \in Members : LockPasses(m) \/ ListExpires(m) \/ CancelAccount(m)
  \/ \E t \in Tokens : TokenExpires(t)

AccountsSpec == AccountsInit /\ [][AccountsNext]_accountVars

-----------------------------------------------------------------------------
(* Properties                                                              *)

AccountsTypeOK ==
  /\ \A m \in Members :
       /\ credential[m].password \in Passwords
       /\ credential[m].failedAttempts \in 0..MaxWrong
       /\ credential[m].lockedUntil \in {"null", "past", "future"}
       /\ listed[m] \subseteq Tokens
       /\ m \in timed => listed[m] # {}
  /\ live \subseteq Tokens
  /\ \A t \in live : holder[t].member \in Members
  /\ \A k \in ResetLinks : resetLink[k] \in Members \union {"unsent", "gone"}
  /\ \A m \in Members : credential[m].lockedUntil # "null" => wrong[m] >= MaxFailures

(* The list user:sessions is what invalidateAllUserSessions goes by: a token*)
(* escapes it only while its handler has still to list it, or when the list *)
(* ran out or was dropped by an invalidation that had not read it, or when  *)
(* the process died between the two writes.  No interleaving of logins,     *)
(* rotations and invalidations loses one in another way.                    *)
UnlistedHasCause ==
  \A t \in live : \/ t \in listed[holder[t].member] \union strays
                  \/ \E c \in AuthCalls : At(c, "index") /\ authCall[c].token = t

=============================================================================
