---------------------------- MODULE AccountsProofs ---------------------------
(* Proofs about the handlers that make, list and drop refresh tokens, and   *)
(* about the calls that register an address.                                *)
EXTENDS Accounts, Registration, FiniteSetTheorems, TLAPS

-----------------------------------------------------------------------------
(* Sessions.                                                               *)

CredentialRow == [active : BOOLEAN, password : Passwords, failedAttempts : Nat,
                  lockedUntil : {"null", "past", "future"}]
HolderRow == [member : Members \union {NoMember}, rotated : BOOLEAN]
AuthStages == {"idle", "mismatch", "match", "create", "index", "rotate", "unlist", "reissue",
               "setPassword", "list", "drop", "dropped"}
AuthRow == [stage : AuthStages, member : Members \union {NoMember}, password : Passwords,
            failedAttempts : Nat, token : Tokens \union {"none"}, tokens : SUBSET Tokens,
            link : ResetLinks \union {"none"}]

AccountsTyped ==
  /\ credential \in [Members -> CredentialRow]
  /\ live \subseteq Tokens
  /\ holder \in [Tokens -> HolderRow]
  /\ listed \in [Members -> SUBSET Tokens]
  /\ timed \subseteq Members
  /\ resetLink \in [ResetLinks -> Members \union {"unsent", "gone"}]
  /\ authCall \in [AuthCalls -> AuthRow]
  /\ wrong \in [Members -> 0..MaxWrong]

\* Whose a handler's token is.  What a rotation has dropped nobody is issued again.
Owns(c) == authCall[c].token \in Tokens /\ holder[authCall[c].token].member = Member(c)
CallOK(c) ==
  /\ ~At(c, "idle") => Member(c) \in Members
  /\ At(c, "index") \/ At(c, "rotate") => Owns(c)
  /\ At(c, "unlist") => Owns(c) /\ authCall[c].token \notin live
  /\ At(c, "mismatch") => authCall[c].failedAttempts + 1 <= wrong[Member(c)]

LiveHeld == \A t \in live : holder[t].member \in Members

\* Every failure that is counted, or about to be, was a wrong password; an account has
\* been locked only after MaxFailures of them.
FailuresCounted ==
  \A m \in Members :
    /\ credential[m].failedAttempts <= wrong[m]
    /\ credential[m].lockedUntil # "null" => wrong[m] >= MaxFailures

TimedIsListed == \A m \in timed : listed[m] # {}

SessionsInv ==
  /\ AccountsTyped /\ LiveHeld /\ FailuresCounted /\ TimedIsListed
  /\ \A c \in AuthCalls : CallOK(c)
  /\ UnlistedHasCause

LEMMA NewRows == NewCredential \in CredentialRow /\ NoCall \in AuthRow /\ Unissued \in HolderRow
  <1>1. SomePassword \in Passwords
    BY AccountsAssumption DEF AccountsAssumption, SomePassword
  <1> QED
    BY <1>1 DEF NewCredential, NoCall, Unissued, CredentialRow, AuthRow, HolderRow, AuthStages

LEMMA SessionsInitInv == AccountsInit => SessionsInv
  <1> SUFFICES ASSUME AccountsInit PROVE SessionsInv
    OBVIOUS
  <1>1. AccountsTyped
    BY NewRows, AccountsAssumption DEF AccountsInit, AccountsTyped, AccountsAssumption
  <1>2. LiveHeld /\ TimedIsListed /\ UnlistedHasCause
    BY DEF AccountsInit, LiveHeld, TimedIsListed, UnlistedHasCause
  <1>3. FailuresCounted
    BY DEF AccountsInit, FailuresCounted, NewCredential
  <1>4. ASSUME NEW c \in AuthCalls PROVE CallOK(c)
    <2>1. At(c, "idle")
      BY DEF AccountsInit, At, NoCall
    <2> QED BY <2>1 DEF CallOK, At
  <1> QED
    BY <1>1, <1>2, <1>3, <1>4 DEF SessionsInv

\* What a handler relies on: a token that was issued stays as it was, and one that is gone
\* does not come back; wrong passwords are never taken back.
LEMMA OthersKept ==
  ASSUME SessionsInv, NEW d \in AuthCalls, authCall'[d] = authCall[d],
         \A t \in Tokens : holder[t].member \in Members =>
            holder'[t] = holder[t] /\ (t \notin live => t \notin live'),
         \A m \in Members : wrong'[m] >= wrong[m], wrong' \in [Members -> 0..MaxWrong]
  PROVE  CallOK(d)'
  <1>1. CallOK(d) /\ authCall[d] \in AuthRow
    BY DEF SessionsInv, AccountsTyped
  <1>2. At(d, "mismatch")' => authCall'[d].failedAttempts + 1 <= wrong'[Member(d)']
    <2>1. SUFFICES ASSUME At(d, "mismatch") PROVE authCall[d].failedAttempts + 1 <= wrong'[Member(d)]
      BY DEF At, Member
    <2>2. /\ Member(d) \in Members /\ authCall[d].failedAttempts + 1 <= wrong[Member(d)]
          /\ authCall[d].failedAttempts \in Nat
      BY <1>1, <2>1 DEF CallOK, At, AuthRow
    <2>3. wrong[Member(d)] \in Int /\ wrong'[Member(d)] \in Int /\ wrong'[Member(d)] >= wrong[Member(d)]
      BY <2>2, AccountsAssumption DEF SessionsInv, AccountsTyped, AccountsAssumption
    <2> QED BY <2>2, <2>3
  <1>3. /\ ~At(d, "idle")' => Member(d)' \in Members
        /\ At(d, "index")' \/ At(d, "rotate")' => Owns(d)'
        /\ At(d, "unlist")' => Owns(d)' /\ authCall'[d].token \notin live'
    <2>1. Owns(d) /\ Member(d) \in Members =>
            Owns(d)' /\ (authCall[d].token \notin live => authCall'[d].token \notin live')
      BY DEF Owns, Member
    <2> QED BY <1>1, <2>1 DEF CallOK, At, Member
  <1> QED
    BY <1>2, <1>3 DEF CallOK

\* No token is issued, and one that loses its place on its list, or the handler that has
\* still to list it, is a stray.
LEMMA UnlistedKept ==
  ASSUME SessionsInv, live' \subseteq live, holder' = holder, strays \subseteq strays',
         \A t \in live' : t \in listed[holder[t].member] => t \in listed'[holder[t].member] \union strays',
         \A c \in AuthCalls, t \in live' : At(c, "index") /\ authCall[c].token = t =>
            \/ At(c, "index")' /\ authCall'[c].token = t
            \/ t \in listed'[holder[t].member] \union strays'
  PROVE  UnlistedHasCause'
  <1> SUFFICES ASSUME NEW t \in live'
               PROVE  \/ t \in listed'[holder[t].member] \union strays'
                      \/ \E c \in AuthCalls : At(c, "index")' /\ authCall'[c].token = t
    BY DEF UnlistedHasCause
  <1>1. t \in live
    OBVIOUS
  <1>2. \/ t \in listed[holder[t].member] \union strays
        \/ \E c \in AuthCalls : At(c, "index") /\ authCall[c].token = t
    BY <1>1 DEF SessionsInv, UnlistedHasCause
  <1> QED
    BY <1>2

\* Passwords, counts and links are what changes; a handler far from its token moves on.
LEMMA PasswordMoves ==
  ASSUME SessionsInv, UNCHANGED <<live, holder, listed, timed, strays>>,
         resetLink' \in [ResetLinks -> Members \union {"unsent", "gone"}],
         credential' \in [Members -> CredentialRow], wrong' \in [Members -> 0..MaxWrong],
         \A m \in Members : wrong'[m] >= wrong[m], FailuresCounted',
         \/ authCall' = authCall
         \/ \E c \in AuthCalls, row \in AuthRow :
              /\ authCall' = [authCall EXCEPT ![c] = row]
              /\ authCall[c].stage # "index"
              /\ row.stage \notin {"index", "rotate", "unlist"}
              /\ row.stage # "idle" => row.member \in Members
              /\ row.stage = "mismatch" => row.failedAttempts + 1 <= wrong'[row.member]
  PROVE  SessionsInv'
  <1>1. authCall \in [AuthCalls -> AuthRow]
    BY DEF SessionsInv, AccountsTyped
  <1>2. authCall' \in [AuthCalls -> AuthRow]
    BY <1>1
  <1>3. AccountsTyped' /\ LiveHeld' /\ TimedIsListed'
    BY <1>2 DEF SessionsInv, AccountsTyped, LiveHeld, TimedIsListed
  <1>4. ASSUME NEW d \in AuthCalls PROVE CallOK(d)'
    <2>1. CASE authCall'[d] = authCall[d]
      BY <2>1, OthersKept
    <2>2. CASE authCall'[d] # authCall[d]
      <3>1. PICK row \in AuthRow :
              /\ authCall'[d] = row /\ row.stage \notin {"index", "rotate", "unlist"}
              /\ row.stage # "idle" => row.member \in Members
              /\ row.stage = "mismatch" => row.failedAttempts + 1 <= wrong'[row.member]
        BY <1>1, <2>2
      <3> QED BY <3>1 DEF CallOK, At, Member
    <2> QED BY <2>1, <2>2
  <1>5. \A c \in AuthCalls : At(c, "index") => At(c, "index")' /\ authCall'[c].token = authCall[c].token
    BY <1>1 DEF At
  <1>6. UnlistedHasCause'
    BY <1>5, UnlistedKept
  <1> QED
    BY <1>3, <1>4, <1>6 DEF SessionsInv

LEMMA CallTyped ==
  ASSUME SessionsInv, NEW c \in AuthCalls
  PROVE  authCall \in [AuthCalls -> AuthRow] /\ authCall[c] \in AuthRow /\ CallOK(c)
  BY DEF SessionsInv, AccountsTyped

\* What a handler's row is when it moves on.
LEMMA Moved ==
  ASSUME SessionsInv, NEW c \in AuthCalls, NEW stage \in AuthStages, Move(c, stage)
  PROVE  \E row \in AuthRow :
            /\ authCall' = [authCall EXCEPT ![c] = row] /\ row.stage = stage
            /\ row.member = Member(c) /\ row.token = authCall[c].token
  <1> DEFINE new == [authCall[c] EXCEPT !.stage = stage]
  <1>1. authCall \in [AuthCalls -> AuthRow] /\ authCall[c] \in AuthRow
    BY CallTyped
  <1>2. new \in AuthRow /\ new.stage = stage /\ new.member = Member(c) /\ new.token = authCall[c].token
    BY <1>1 DEF AuthRow, Member
  <1>3. authCall' = [authCall EXCEPT ![c] = new]
    BY <1>1 DEF Move
  <1> HIDE DEF new
  <1> QED
    BY <1>2, <1>3

LEMMA Left ==
  ASSUME SessionsInv, NEW c \in AuthCalls, Leave(c)
  PROVE  \E row \in AuthRow : authCall' = [authCall EXCEPT ![c] = row] /\ row.stage = "idle"
  BY NewRows DEF Leave, NoCall

\* The count of failures of one account is replaced.
LEMMA CredentialReplaced ==
  ASSUME SessionsInv, NEW m \in Members, NEW row \in CredentialRow,
         credential' = [credential EXCEPT ![m] = row], wrong' = wrong,
         row.failedAttempts <= wrong[m],
         row.lockedUntil # "null" => credential[m].lockedUntil # "null" \/ wrong[m] >= MaxFailures
  PROVE  credential' \in [Members -> CredentialRow] /\ FailuresCounted'
  BY DEF SessionsInv, AccountsTyped, FailuresCounted

LEMMA LoginKeepsInv ==
  ASSUME SessionsInv, NEW c \in AuthCalls, NEW m \in Members, NEW p \in Passwords, ReadForLogin(c, m, p)
  PROVE  SessionsInv'
  <1>1. /\ credential \in [Members -> CredentialRow] /\ credential[m] \in CredentialRow
        /\ wrong \in [Members -> 0..MaxWrong] /\ MaxWrong \in Nat
    BY AccountsAssumption DEF SessionsInv, AccountsTyped, AccountsAssumption
  <1> DEFINE stage == IF p # credential[m].password THEN "mismatch"
                      ELSE IF credential[m].failedAttempts > 0 \/ credential[m].lockedUntil # "null"
                           THEN "match" ELSE "create"
             row == [NoCall EXCEPT !.member = m, !.password = credential[m].password,
                                   !.failedAttempts = credential[m].failedAttempts, !.stage = stage]
  <1>2. row \in AuthRow /\ row.stage = stage /\ row.member = m
        /\ row.failedAttempts = credential[m].failedAttempts
    BY <1>1, NewRows DEF AuthRow, CredentialRow, AuthStages
  <1>3. authCall' = [authCall EXCEPT ![c] = row] /\ authCall[c].stage # "index"
    BY DEF ReadForLogin, At
  <1>4. /\ wrong' \in [Members -> 0..MaxWrong] /\ \A x \in Members : wrong'[x] >= wrong[x]
        /\ p # credential[m].password => wrong'[m] = wrong[m] + 1
    <2>1. CASE p # credential[m].password
      <3>1. wrong[m] + 1 \in 0..MaxWrong /\ wrong' = [wrong EXCEPT ![m] = wrong[m] + 1]
        BY <1>1, <2>1 DEF ReadForLogin
      <3> QED BY <1>1, <3>1
    <2>2. CASE p = credential[m].password
      BY <1>1, <2>2 DEF ReadForLogin
    <2> QED BY <2>1, <2>2
  <1>5. FailuresCounted'
    <2>1. ASSUME NEW x \in Members
          PROVE  /\ credential'[x].failedAttempts <= wrong'[x]
                 /\ credential'[x].lockedUntil # "null" => wrong'[x] >= MaxFailures
      <3>1. /\ credential' = credential /\ credential[x].failedAttempts \in Nat /\ wrong[x] \in Nat
            /\ wrong'[x] \in Nat /\ wrong'[x] >= wrong[x] /\ MaxFailures \in Nat
        BY <1>1, <1>4, AccountsAssumption DEF ReadForLogin, CredentialRow, AccountsAssumption
      <3>2. /\ credential[x].failedAttempts <= wrong[x]
            /\ credential[x].lockedUntil # "null" => wrong[x] >= MaxFailures
        BY DEF SessionsInv, FailuresCounted
      <3> QED BY <3>1, <3>2
    <2> QED BY <2>1 DEF FailuresCounted
  <1>6. stage = "mismatch" => credential[m].failedAttempts + 1 <= wrong'[m]
    <2>1. credential[m].failedAttempts <= wrong[m] /\ credential[m].failedAttempts \in Nat /\ wrong[m] \in Nat
      BY <1>1 DEF SessionsInv, FailuresCounted, CredentialRow
    <2>2. stage = "mismatch" => p # credential[m].password
      OBVIOUS
    <2> QED BY <1>4, <2>1, <2>2
  <1>7. stage \in {"mismatch", "match", "create"}
    OBVIOUS
  <1>8. UNCHANGED <<credential, live, holder, listed, timed, resetLink, strays>>
    BY DEF ReadForLogin
  <1> HIDE DEF row, stage
  <1>9. /\ row.stage \notin {"index", "rotate", "unlist"}
        /\ row.stage = "mismatch" => row.failedAttempts + 1 <= wrong'[row.member]
    BY <1>2, <1>6, <1>7
  <1>10. resetLink' \in [ResetLinks -> Members \union {"unsent", "gone"}]
    BY <1>8 DEF SessionsInv, AccountsTyped
  <1> QED
    BY <1>1, <1>2, <1>3, <1>4, <1>5, <1>8, <1>9, <1>10, PasswordMoves

LEMMA CountsKeepInv ==
  ASSUME SessionsInv, NEW c \in AuthCalls, CountFailure(c) \/ ClearFailures(c)
  PROVE  SessionsInv'
  <1>1. PICK m \in Members : m = Member(c)
    BY CallTyped DEF CountFailure, ClearFailures, CallOK, At
  <1>2. /\ credential \in [Members -> CredentialRow] /\ credential[m] \in CredentialRow
        /\ wrong \in [Members -> 0..MaxWrong] /\ wrong[m] \in Nat
        /\ authCall[c] \in AuthRow /\ MaxFailures \in Nat
    BY AccountsAssumption DEF SessionsInv, AccountsTyped, AccountsAssumption
  <1>3. credential' \in [Members -> CredentialRow] /\ FailuresCounted'
    <2>1. CASE credential' = credential
      BY <1>2, <2>1 DEF SessionsInv, FailuresCounted, CountFailure, ClearFailures
    <2>2. CASE CountFailure(c) /\ credential' # credential
      <3>1. PICK count \in Nat : count = authCall[c].failedAttempts + 1 /\ count <= wrong[m]
        BY <1>1, <1>2, <2>2, CallTyped DEF CountFailure, CallOK, AuthRow
      <3> DEFINE row == [credential[m] EXCEPT !.failedAttempts = count,
                           !.lockedUntil = IF Locks(count) THEN "future" ELSE credential[m].lockedUntil]
      <3>2. row \in CredentialRow /\ row.failedAttempts = count
            /\ (row.lockedUntil # "null" => credential[m].lockedUntil # "null" \/ count >= MaxFailures)
        BY <1>2 DEF CredentialRow, Locks
      <3>3. credential' = [credential EXCEPT ![m] = row]
        BY <1>1, <1>2, <2>2, <3>1 DEF CountFailure
      <3>4. count >= MaxFailures => wrong[m] >= MaxFailures
        BY <1>2, <3>1
      <3> HIDE DEF row
      <3>5. row.lockedUntil # "null" => credential[m].lockedUntil # "null" \/ wrong[m] >= MaxFailures
        BY <3>2, <3>4
      <3> QED BY <2>2, <3>1, <3>2, <3>3, <3>5, CredentialReplaced DEF CountFailure
    <2>3. CASE ClearFailures(c) /\ credential' # credential
      <3> DEFINE row == [credential[m] EXCEPT !.failedAttempts = 0, !.lockedUntil = "null"]
      <3>1. row \in CredentialRow /\ row.failedAttempts = 0 /\ row.lockedUntil = "null"
        BY <1>2 DEF CredentialRow
      <3>2. credential' = [credential EXCEPT ![m] = row]
        BY <1>1, <1>2, <2>3 DEF ClearFailures
      <3> HIDE DEF row
      <3>3. row.failedAttempts <= wrong[m]
        BY <1>2, <3>1
      <3> QED BY <2>3, <3>1, <3>2, <3>3, CredentialReplaced DEF ClearFailures
    <2> QED BY <2>1, <2>2, <2>3
  <1>4. PICK row \in AuthRow : /\ authCall' = [authCall EXCEPT ![c] = row]
                               /\ row.stage \in {"idle", "create"}
                               /\ row.stage # "idle" => row.member = m
    <2>1. CASE Leave(c)
      BY <2>1, Left
    <2>2. CASE Move(c, "create")
      BY <1>1, <2>2, Moved DEF AuthStages
    <2> QED BY <2>1, <2>2 DEF CountFailure, ClearFailures
  <1>5. UNCHANGED <<live, holder, listed, timed, resetLink, wrong, strays>> /\ authCall[c].stage # "index"
    BY DEF CountFailure, ClearFailures, At
  <1>6. /\ resetLink' \in [ResetLinks -> Members \union {"unsent", "gone"}]
        /\ wrong' \in [Members -> 0..MaxWrong] /\ \A x \in Members : wrong'[x] >= wrong[x]
    BY <1>2, <1>5, AccountsAssumption DEF SessionsInv, AccountsTyped, AccountsAssumption
  <1> QED
    BY <1>3, <1>4, <1>5, <1>6, PasswordMoves

\* A password that is set takes the failures away.
LEMMA PasswordReplaced ==
  ASSUME SessionsInv, NEW m \in Members, NEW p \in Passwords, wrong' = wrong,
         \/ credential' = credential
         \/ credential' = [credential EXCEPT ![m] = [NewCredential EXCEPT !.password = p]]
         \/ credential' = [credential EXCEPT ![m] = [NewCredential EXCEPT !.active = FALSE]]
         \/ credential' = [credential EXCEPT ![m].lockedUntil = "past"] /\ credential[m].lockedUntil = "future"
  PROVE  /\ credential' \in [Members -> CredentialRow] /\ FailuresCounted'
         /\ wrong' \in [Members -> 0..MaxWrong] /\ \A x \in Members : wrong'[x] >= wrong[x]
  <1>1. /\ credential \in [Members -> CredentialRow] /\ credential[m] \in CredentialRow
        /\ wrong \in [Members -> 0..MaxWrong] /\ wrong[m] \in Nat
    BY AccountsAssumption DEF SessionsInv, AccountsTyped, AccountsAssumption
  <1>2. wrong' \in [Members -> 0..MaxWrong] /\ \A x \in Members : wrong'[x] >= wrong[x]
    BY <1>1, AccountsAssumption DEF AccountsAssumption
  <1>3. CASE credential' = credential
    BY <1>1, <1>2, <1>3 DEF SessionsInv, FailuresCounted
  <1>4. ASSUME NEW row \in {[NewCredential EXCEPT !.password = p], [NewCredential EXCEPT !.active = FALSE]},
               credential' = [credential EXCEPT ![m] = row]
        PROVE  credential' \in [Members -> CredentialRow] /\ FailuresCounted'
    <2>1. row \in CredentialRow /\ row.failedAttempts = 0 /\ row.lockedUntil = "null"
      BY NewRows DEF CredentialRow, NewCredential
    <2>2. row.failedAttempts <= wrong[m]
      BY <1>1, <2>1
    <2> QED BY <1>4, <2>1, <2>2, CredentialReplaced
  <1>5. CASE credential' = [credential EXCEPT ![m].lockedUntil = "past"] /\ credential[m].lockedUntil = "future"
    <2> DEFINE row == [credential[m] EXCEPT !.lockedUntil = "past"]
    <2>1. row \in CredentialRow /\ row.failedAttempts = credential[m].failedAttempts
      BY <1>1 DEF CredentialRow
    <2>2. credential' = [credential EXCEPT ![m] = row] /\ credential[m].lockedUntil # "null"
      BY <1>1, <1>5
    <2>3. credential[m].failedAttempts <= wrong[m]
      BY DEF SessionsInv, FailuresCounted
    <2> HIDE DEF row
    <2>4. row.failedAttempts <= wrong[m]
          /\ (row.lockedUntil # "null" => credential[m].lockedUntil # "null" \/ wrong[m] >= MaxFailures)
      BY <2>1, <2>2, <2>3
    <2>5. credential' \in [Members -> CredentialRow] /\ FailuresCounted'
      BY <2>1, <2>2, <2>4, CredentialReplaced
    <2> QED BY <1>2, <2>5
  <1> QED
    BY <1>2, <1>3, <1>4, <1>5

LEMMA AdministrationKeepsInv ==
  ASSUME SessionsInv, NEW m \in Members, NEW p \in Passwords,
         LockPasses(m) \/ RegularizePassword(m, p) \/ CancelAccount(m)
  PROVE  SessionsInv'
  <1>1. UNCHANGED <<live, holder, listed, timed, resetLink, authCall, wrong, strays>>
    BY DEF LockPasses, RegularizePassword, CancelAccount
  <1>2. /\ credential' \in [Members -> CredentialRow] /\ FailuresCounted'
        /\ wrong' \in [Members -> 0..MaxWrong] /\ \A x \in Members : wrong'[x] >= wrong[x]
    BY <1>1, PasswordReplaced DEF LockPasses, RegularizePassword, CancelAccount
  <1>3. resetLink' \in [ResetLinks -> Members \union {"unsent", "gone"}]
    BY <1>1 DEF SessionsInv, AccountsTyped
  <1> QED
    BY <1>1, <1>2, <1>3, PasswordMoves

LEMMA SettingKeepsInv ==
  ASSUME SessionsInv, NEW c \in AuthCalls, StoreReset(c) \/ StoreChange(c) \/ SetPasswordOnly(c)
  PROVE  SessionsInv'
  <1>1. PICK m \in Members : m = Member(c)
    BY CallTyped DEF StoreReset, StoreChange, SetPasswordOnly, CallOK, At
  <1>2. PICK p \in Passwords : p = authCall[c].password
    BY CallTyped DEF AuthRow
  <1>3. /\ UNCHANGED <<live, holder, listed, timed, resetLink, wrong, strays>> /\ authCall[c].stage # "index"
        /\ \/ credential' = credential
           \/ credential' = [credential EXCEPT ![m] = [NewCredential EXCEPT !.password = p]]
    BY <1>1, <1>2 DEF StoreReset, StoreChange, SetPasswordOnly, Replaced, At
  <1>4. /\ credential' \in [Members -> CredentialRow] /\ FailuresCounted'
        /\ wrong' \in [Members -> 0..MaxWrong] /\ \A x \in Members : wrong'[x] >= wrong[x]
    BY <1>3, PasswordReplaced
  <1>5. PICK row \in AuthRow : /\ authCall' = [authCall EXCEPT ![c] = row]
                               /\ row.stage \in {"idle", "list"}
                               /\ row.stage # "idle" => row.member = m
    <2>1. CASE Leave(c)
      BY <2>1, Left
    <2>2. CASE Move(c, "list")
      BY <1>1, <2>2, Moved DEF AuthStages
    <2> QED BY <2>1, <2>2 DEF StoreReset, StoreChange, SetPasswordOnly
  <1>6. resetLink' \in [ResetLinks -> Members \union {"unsent", "gone"}]
    BY <1>3 DEF SessionsInv, AccountsTyped
  <1> QED
    BY <1>3, <1>4, <1>5, <1>6, PasswordMoves

LEMMA LinksKeepInv ==
  ASSUME SessionsInv,
         \/ \E m \in Members, k \in ResetLinks : ForgotPassword(m, k)
         \/ \E k \in ResetLinks : LinkExpires(k)
         \/ \E c \in AuthCalls : DropLink(c)
  PROVE  SessionsInv'
  <1>1. UNCHANGED <<credential, live, holder, listed, timed, wrong, strays>>
    BY DEF ForgotPassword, LinkExpires, DropLink
  <1>2. resetLink' \in [ResetLinks -> Members \union {"unsent", "gone"}]
    BY DEF ForgotPassword, LinkExpires, DropLink, SessionsInv, AccountsTyped
  <1>3. /\ credential' \in [Members -> CredentialRow] /\ FailuresCounted'
        /\ wrong' \in [Members -> 0..MaxWrong] /\ \A x \in Members : wrong'[x] >= wrong[x]
    BY <1>1, AccountsAssumption DEF SessionsInv, AccountsTyped, FailuresCounted, AccountsAssumption
  <1>4. authCall' = authCall
        \/ \E c \in AuthCalls : Leave(c) /\ authCall[c].stage # "index"
    BY DEF ForgotPassword, LinkExpires, DropLink, At
  <1>5. ASSUME NEW c \in AuthCalls, Leave(c), authCall[c].stage # "index" PROVE SessionsInv'
    <2>1. PICK row \in AuthRow : authCall' = [authCall EXCEPT ![c] = row] /\ row.stage = "idle"
      BY <1>5, Left
    <2> QED BY <1>1, <1>2, <1>3, <1>5, <2>1, PasswordMoves
  <1>6. CASE authCall' = authCall
    BY <1>1, <1>2, <1>3, <1>6, PasswordMoves
  <1> QED
    BY <1>4, <1>5, <1>6

LEMMA ReadingKeepsInv ==
  ASSUME SessionsInv, NEW c \in AuthCalls,
         \/ \E k \in ResetLinks, p \in Passwords : ReadForReset(c, k, p)
         \/ \E m \in Members, p \in Passwords : ReadForChange(c, m, p)
         \/ ListSessions(c)
  PROVE  SessionsInv'
  <1>1. /\ UNCHANGED <<credential, live, holder, listed, timed, resetLink, wrong, strays>>
        /\ authCall[c].stage # "index"
    BY DEF ReadForReset, ReadForChange, ListSessions, At
  <1>2. /\ credential' \in [Members -> CredentialRow] /\ FailuresCounted'
        /\ wrong' \in [Members -> 0..MaxWrong] /\ \A x \in Members : wrong'[x] >= wrong[x]
        /\ resetLink' \in [ResetLinks -> Members \union {"unsent", "gone"}]
    BY <1>1, AccountsAssumption DEF SessionsInv, AccountsTyped, FailuresCounted, AccountsAssumption
  <1>3. PICK row \in AuthRow : /\ authCall' = [authCall EXCEPT ![c] = row]
                               /\ row.stage \in {"setPassword", "drop"} /\ row.member \in Members
    <2>1. ASSUME NEW k \in ResetLinks, NEW p \in Passwords, ReadForReset(c, k, p)
          PROVE  \E row \in AuthRow : /\ authCall' = [authCall EXCEPT ![c] = row]
                                      /\ row.stage \in {"setPassword", "drop"} /\ row.member \in Members
      <3> DEFINE new == [NoCall EXCEPT !.stage = "setPassword", !.member = resetLink[k],
                                       !.password = p, !.link = k]
      <3>1. resetLink[k] \in Members /\ authCall' = [authCall EXCEPT ![c] = new]
        BY <2>1 DEF ReadForReset
      <3>2. new \in AuthRow /\ new.stage = "setPassword" /\ new.member = resetLink[k]
        BY <3>1, NewRows DEF AuthRow, AuthStages
      <3> HIDE DEF new
      <3> QED BY <3>1, <3>2
    <2>2. ASSUME NEW m \in Members, NEW p \in Passwords, ReadForChange(c, m, p)
          PROVE  \E row \in AuthRow : /\ authCall' = [authCall EXCEPT ![c] = row]
                                      /\ row.stage \in {"setPassword", "drop"} /\ row.member \in Members
      <3> DEFINE new == [NoCall EXCEPT !.stage = "setPassword", !.member = m, !.password = p]
      <3>1. new \in AuthRow /\ new.stage = "setPassword" /\ new.member = m
        BY NewRows DEF AuthRow, AuthStages
      <3>2. authCall' = [authCall EXCEPT ![c] = new]
        BY <2>2 DEF ReadForChange
      <3> HIDE DEF new
      <3> QED BY <3>1, <3>2
    <2>3. CASE ListSessions(c)
      <3>1. /\ authCall \in [AuthCalls -> AuthRow] /\ authCall[c] \in AuthRow
            /\ Member(c) \in Members /\ listed[Member(c)] \in SUBSET Tokens
        BY <2>3, CallTyped DEF ListSessions, CallOK, At, SessionsInv, AccountsTyped
      <3> DEFINE new == [authCall[c] EXCEPT !.tokens = listed[Member(c)], !.stage = "drop"]
      <3>2. new \in AuthRow /\ new.stage = "drop" /\ new.member = Member(c)
        BY <3>1 DEF AuthRow, AuthStages, Member
      <3>3. authCall' = [authCall EXCEPT ![c] = new]
        BY <2>3, <3>1 DEF ListSessions
      <3> HIDE DEF new
      <3> QED BY <3>1, <3>2, <3>3
    <2> QED BY <2>1, <2>2, <2>3
  <1> QED
    BY <1>1, <1>2, <1>3, PasswordMoves

\* Tokens and lists go, or a list grows; nothing is issued.
LEMMA SessionMoves ==
  ASSUME SessionsInv, UNCHANGED <<credential, holder, resetLink, wrong>>, live' \subseteq live,
         listed' \in [Members -> SUBSET Tokens], timed' \subseteq Members, TimedIsListed', UnlistedHasCause',
         \/ authCall' = authCall
         \/ \E c \in AuthCalls, row \in AuthRow :
              /\ authCall' = [authCall EXCEPT ![c] = row]
              /\ row.stage # "idle" => row.member \in Members
              /\ row.stage \notin {"mismatch", "index"}
              /\ row.stage \in {"rotate", "unlist"} =>
                   row.token \in Tokens /\ holder[row.token].member = row.member
              /\ row.stage = "unlist" => row.token \notin live'
  PROVE  SessionsInv'
  <1>1. authCall \in [AuthCalls -> AuthRow]
    BY DEF SessionsInv, AccountsTyped
  <1>2. AccountsTyped' /\ LiveHeld' /\ FailuresCounted'
    BY <1>1 DEF SessionsInv, AccountsTyped, LiveHeld, FailuresCounted
  <1>3. \A m \in Members : wrong'[m] >= wrong[m]
    BY AccountsAssumption DEF SessionsInv, AccountsTyped, AccountsAssumption
  <1>4. ASSUME NEW d \in AuthCalls PROVE CallOK(d)'
    <2>1. CASE authCall'[d] = authCall[d]
      BY <1>2, <1>3, <2>1, OthersKept DEF AccountsTyped
    <2>2. CASE authCall'[d] # authCall[d]
      <3>1. PICK row \in AuthRow :
              /\ authCall'[d] = row
              /\ row.stage # "idle" => row.member \in Members
              /\ row.stage \notin {"mismatch", "index"}
              /\ row.stage \in {"rotate", "unlist"} =>
                   row.token \in Tokens /\ holder[row.token].member = row.member
              /\ row.stage = "unlist" => row.token \notin live'
        BY <1>1, <2>2
      <3> QED BY <3>1 DEF CallOK, At, Member, Owns
    <2> QED BY <2>1, <2>2
  <1> QED
    BY <1>2, <1>4 DEF SessionsInv

LEMMA RotationKeepsInv ==
  ASSUME SessionsInv, NEW c \in AuthCalls,
         (\E t \in Tokens : ReadForRotation(c, t)) \/ DropRotated(c) \/ UnlistRotated(c)
  PROVE  SessionsInv'
  <1>1. authCall \in [AuthCalls -> AuthRow] /\ authCall[c] \in AuthRow /\ CallOK(c)
        /\ listed \in [Members -> SUBSET Tokens] /\ timed \subseteq Members
    BY CallTyped DEF SessionsInv, AccountsTyped
  <1>2. ASSUME NEW t \in Tokens, ReadForRotation(c, t) PROVE SessionsInv'
    <2> DEFINE new == [NoCall EXCEPT !.stage = "rotate", !.member = holder[t].member, !.token = t]
    <2>1. t \in live /\ holder[t].member \in Members /\ authCall' = [authCall EXCEPT ![c] = new]
          /\ UNCHANGED <<credential, live, holder, listed, timed, resetLink, wrong, strays>>
          /\ authCall[c].stage = "idle"
      BY <1>2 DEF ReadForRotation, SessionsInv, LiveHeld, At
    <2>2. new \in AuthRow /\ new.stage = "rotate" /\ new.member = holder[t].member /\ new.token = t
      BY <2>1, NewRows DEF AuthRow, AuthStages
    <2> HIDE DEF new
    <2>3. UnlistedHasCause'
      <3>1. \A d \in AuthCalls : At(d, "index") => authCall'[d] = authCall[d]
        BY <1>1, <2>1 DEF At
      <3> QED BY <2>1, <3>1, UnlistedKept DEF At
    <2>4. TimedIsListed'
      BY <2>1 DEF SessionsInv, TimedIsListed
    <2> QED BY <1>1, <2>1, <2>2, <2>3, <2>4, SessionMoves
  <1>3. CASE DropRotated(c)
    <2>1. PICK row \in AuthRow : /\ authCall' = [authCall EXCEPT ![c] = row] /\ row.stage = "unlist"
                                 /\ row.member = Member(c) /\ row.token = authCall[c].token
      BY <1>3, Moved DEF DropRotated, AuthStages
    <2>2. /\ Owns(c) /\ Member(c) \in Members /\ authCall[c].stage = "rotate"
          /\ live' = live \ {authCall[c].token}
          /\ UNCHANGED <<credential, holder, listed, timed, resetLink, wrong, strays>>
      BY <1>1, <1>3 DEF DropRotated, CallOK, At
    <2>3. UnlistedHasCause'
      <3>1. \A d \in AuthCalls : At(d, "index") => authCall'[d] = authCall[d]
        BY <1>1, <2>1, <2>2 DEF At
      <3> QED BY <2>2, <3>1, UnlistedKept DEF At
    <2>4. TimedIsListed'
      BY <2>2 DEF SessionsInv, TimedIsListed
    <2>5. live' \subseteq live /\ row.token \notin live' /\ row.member \in Members
          /\ row.token \in Tokens /\ holder[row.token].member = row.member
      BY <2>1, <2>2 DEF Owns
    <2> QED BY <1>1, <2>1, <2>2, <2>3, <2>4, <2>5, SessionMoves
  <1>4. CASE UnlistRotated(c)
    <2>1. PICK row \in AuthRow : /\ authCall' = [authCall EXCEPT ![c] = row] /\ row.stage = "reissue"
                                 /\ row.member = Member(c)
      BY <1>4, Moved DEF UnlistRotated, AuthStages
    <2>2. PICK m \in Members : m = Member(c)
      BY <1>1, <1>4 DEF UnlistRotated, CallOK, At
    <2>3. /\ authCall[c].token \notin live /\ authCall[c].stage = "unlist"
          /\ listed' = [listed EXCEPT ![m] = listed[m] \ {authCall[c].token}]
          /\ timed' = (IF listed'[m] = {} THEN timed \ {m} ELSE timed)
          /\ UNCHANGED <<credential, live, holder, resetLink, wrong, strays>>
      BY <1>1, <1>4, <2>2 DEF UnlistRotated, CallOK, At
    <2>4. UnlistedHasCause'
      <3>1. \A d \in AuthCalls : At(d, "index") => authCall'[d] = authCall[d]
        BY <1>1, <2>1, <2>3 DEF At
      <3>2. \A t \in live : holder[t].member \in Members
        BY DEF SessionsInv, LiveHeld
      <3>3. \A t \in live : t \in listed[holder[t].member] => t \in listed'[holder[t].member]
        BY <1>1, <2>3, <3>2
      <3> QED BY <2>3, <3>1, <3>3, UnlistedKept DEF At
    <2>5. TimedIsListed'
      BY <1>1, <2>3 DEF SessionsInv, TimedIsListed
    <2>6. listed' \in [Members -> SUBSET Tokens] /\ timed' \subseteq Members
      BY <1>1, <2>3
    <2> QED BY <2>1, <2>2, <2>3, <2>4, <2>5, <2>6, SessionMoves
  <1> QED
    BY <1>2, <1>3, <1>4

LEMMA ExpiryKeepsInv ==
  ASSUME SessionsInv,
         (\E t \in Tokens : TokenExpires(t)) \/ (\E m \in Members : ListExpires(m))
  PROVE  SessionsInv'
  <1>1. listed \in [Members -> SUBSET Tokens] /\ timed \subseteq Members
        /\ \A t \in live : holder[t].member \in Members
    BY DEF SessionsInv, AccountsTyped, LiveHeld
  <1>2. ASSUME NEW t \in Tokens, TokenExpires(t) PROVE SessionsInv'
    <2>1. live' \subseteq live /\ UNCHANGED <<credential, holder, listed, timed, resetLink, authCall, wrong, strays>>
      BY <1>2 DEF TokenExpires
    <2>2. UnlistedHasCause' /\ TimedIsListed'
      BY <2>1, UnlistedKept DEF At, SessionsInv, TimedIsListed
    <2> QED BY <1>1, <2>1, <2>2, SessionMoves
  <1>3. ASSUME NEW m \in Members, ListExpires(m) PROVE SessionsInv'
    <2>1. /\ UNCHANGED <<credential, live, holder, resetLink, authCall, wrong>>
          /\ listed' = [listed EXCEPT ![m] = {}] /\ timed' = timed \ {m}
          /\ strays' = strays \union (listed[m] \cap live)
      BY <1>3 DEF ListExpires
    <2>2. \A t \in live : t \in listed[holder[t].member] => t \in listed'[holder[t].member] \union strays'
      BY <1>1, <2>1
    <2>3. UnlistedHasCause'
      BY <2>1, <2>2, UnlistedKept DEF At
    <2>4. TimedIsListed'
      BY <1>1, <2>1 DEF SessionsInv, TimedIsListed
    <2>5. listed' \in [Members -> SUBSET Tokens] /\ timed' \subseteq Members
      BY <1>1, <2>1
    <2> QED BY <2>1, <2>3, <2>4, <2>5, SessionMoves
  <1> QED
    BY <1>2, <1>3

\* The pipeline drops the list with what it has not read: that strays.
LEMMA DroppingKeepsInv ==
  ASSUME SessionsInv, NEW c \in AuthCalls, DropSessions(c)
  PROVE  SessionsInv'
  <1>1. authCall \in [AuthCalls -> AuthRow] /\ authCall[c] \in AuthRow
        /\ listed \in [Members -> SUBSET Tokens] /\ timed \subseteq Members
        /\ \A t \in live : holder[t].member \in Members
    BY CallTyped DEF SessionsInv, AccountsTyped, LiveHeld
  <1>2. PICK m \in Members : m = Member(c)
    BY CallTyped DEF DropSessions, CallOK, At
  <1>3. PICK row \in AuthRow : /\ authCall' = [authCall EXCEPT ![c] = row] /\ row.stage = "dropped"
                               /\ row.member = m
    BY <1>2, Moved DEF DropSessions, AuthStages
  <1>4. /\ live' = live \ authCall[c].tokens /\ UNCHANGED <<credential, holder, resetLink, wrong>>
        /\ authCall[c].stage = "drop"
        /\ IF authCall[c].tokens = {}
             THEN UNCHANGED <<listed, timed, strays>>
             ELSE /\ listed' = [listed EXCEPT ![m] = {}] /\ timed' = timed \ {m}
                  /\ strays' = strays \union ((live \cap listed[m]) \ authCall[c].tokens)
    BY <1>2 DEF DropSessions, At
  <1>5. /\ listed' \in [Members -> SUBSET Tokens] /\ timed' \subseteq Members
        /\ strays \subseteq strays' /\ live' \subseteq live
    BY <1>1, <1>4
  <1>6. TimedIsListed'
    BY <1>1, <1>4 DEF SessionsInv, TimedIsListed
  <1>7. UnlistedHasCause'
    <2>1. \A d \in AuthCalls : At(d, "index") => authCall'[d] = authCall[d]
      BY <1>1, <1>3, <1>4 DEF At
    <2>2. \A t \in live' : t \in listed[holder[t].member] => t \in listed'[holder[t].member] \union strays'
      BY <1>1, <1>4
    <2> QED BY <1>4, <1>5, <2>1, <2>2, UnlistedKept DEF At
  <1> QED
    BY <1>3, <1>4, <1>5, <1>6, <1>7, SessionMoves

LEMMA DyingKeepsInv ==
  ASSUME SessionsInv, NEW c \in AuthCalls, CallDies(c)
  PROVE  SessionsInv'
  <1>1. authCall \in [AuthCalls -> AuthRow]
        /\ listed \in [Members -> SUBSET Tokens] /\ timed \subseteq Members
    BY CallTyped DEF SessionsInv, AccountsTyped
  <1>2. PICK row \in AuthRow : authCall' = [authCall EXCEPT ![c] = row] /\ row.stage = "idle"
    BY Left DEF CallDies
  <1>3. /\ strays' = (IF At(c, "index") THEN strays \union {authCall[c].token} ELSE strays)
        /\ UNCHANGED <<credential, live, holder, listed, timed, resetLink, wrong>>
    BY DEF CallDies
  <1>4. TimedIsListed'
    BY <1>3 DEF SessionsInv, TimedIsListed
  <1>5. UnlistedHasCause'
    <2>1. ASSUME NEW d \in AuthCalls, NEW t \in live', At(d, "index"), authCall[d].token = t
          PROVE  (At(d, "index")' /\ authCall'[d].token = t) \/ t \in strays'
      BY <1>1, <1>2, <1>3, <2>1 DEF At
    <2> QED BY <1>3, <2>1, UnlistedKept
  <1> QED
    BY <1>1, <1>2, <1>3, <1>4, <1>5, SessionMoves

LEMMA IndexingKeepsInv ==
  ASSUME SessionsInv, NEW c \in AuthCalls, IndexSession(c)
  PROVE  SessionsInv'
  <1>1. authCall \in [AuthCalls -> AuthRow]
        /\ listed \in [Members -> SUBSET Tokens] /\ timed \subseteq Members
        /\ \A t \in live : holder[t].member \in Members
    BY CallTyped DEF SessionsInv, AccountsTyped, LiveHeld
  <1>2. PICK m \in Members : m = Member(c)
    BY CallTyped DEF IndexSession, CallOK, At
  <1>3. PICK t \in Tokens : t = authCall[c].token /\ holder[t].member = m
    BY <1>2, CallTyped DEF IndexSession, CallOK, Owns
  <1>4. PICK row \in AuthRow : authCall' = [authCall EXCEPT ![c] = row] /\ row.stage = "idle"
    BY Left DEF IndexSession
  <1>5. /\ listed' = [listed EXCEPT ![m] = listed[m] \union {t}]
        /\ timed' \in {timed, timed \union {m}}
        /\ UNCHANGED <<credential, live, holder, resetLink, wrong, strays>>
    BY <1>1, <1>2, <1>3 DEF IndexSession
  <1>6. listed' \in [Members -> SUBSET Tokens] /\ timed' \subseteq Members /\ TimedIsListed'
    BY <1>1, <1>5 DEF SessionsInv, TimedIsListed
  <1>7. UnlistedHasCause'
    <2>1. ASSUME NEW d \in AuthCalls, NEW u \in live', At(d, "index"), authCall[d].token = u
          PROVE  (At(d, "index")' /\ authCall'[d].token = u) \/ u \in listed'[holder[u].member]
      BY <1>1, <1>3, <1>4, <1>5, <2>1 DEF At
    <2>2. \A u \in live' : u \in listed[holder[u].member] => u \in listed'[holder[u].member]
      BY <1>1, <1>5
    <2> QED BY <1>5, <2>1, <2>2, UnlistedKept
  <1> QED
    BY <1>4, <1>5, <1>6, <1>7, SessionMoves

\* A token is issued once; its handler goes on to list it.
LEMMA IssuingKeepsInv ==
  ASSUME SessionsInv, NEW c \in AuthCalls, NEW t \in Tokens, StoreSession(c, t) \/ StoreRotated(c, t)
  PROVE  SessionsInv'
  <1>1. /\ authCall \in [AuthCalls -> AuthRow] /\ authCall[c] \in AuthRow
        /\ holder \in [Tokens -> HolderRow] /\ live \subseteq Tokens /\ LiveHeld
        /\ wrong \in [Members -> 0..MaxWrong] /\ NoMember \notin Members
    BY CallTyped, AccountsAssumption DEF SessionsInv, AccountsTyped, AccountsAssumption
  <1>2. PICK m \in Members : m = Member(c)
    BY CallTyped DEF StoreSession, StoreRotated, CallOK, At
  <1>3. PICK rotated \in BOOLEAN :
          /\ holder[t].member = NoMember /\ live' = live \union {t}
          /\ holder' = [holder EXCEPT ![t] = [member |-> m, rotated |-> rotated]]
          /\ authCall' = [authCall EXCEPT ![c].token = t, ![c].stage = "index"]
          /\ authCall[c].stage # "index"
          /\ UNCHANGED <<credential, listed, timed, resetLink, wrong, strays>>
    BY <1>2 DEF StoreSession, StoreRotated, Issue, At
  <1> DEFINE row == [authCall[c] EXCEPT !.token = t, !.stage = "index"]
             held == [member |-> m, rotated |-> rotated]
  <1>4. row \in AuthRow /\ row.stage = "index" /\ row.token = t /\ row.member = m
    BY <1>1, <1>2 DEF AuthRow, AuthStages, Member
  <1>5. authCall' = [authCall EXCEPT ![c] = row]
    BY <1>1, <1>3
  <1>6. held \in HolderRow /\ held.member = m /\ holder' = [holder EXCEPT ![t] = held]
    BY <1>3 DEF HolderRow
  <1> HIDE DEF row, held
  <1>7. AccountsTyped'
    <2>1. authCall' \in [AuthCalls -> AuthRow]
      BY <1>1, <1>4, <1>5
    <2>2. holder' \in [Tokens -> HolderRow] /\ live' \subseteq Tokens
      BY <1>1, <1>3, <1>6
    <2>3. AccountsTyped
      BY DEF SessionsInv
    <2> QED BY <1>3, <2>1, <2>2, <2>3 DEF AccountsTyped
  <1>8. LiveHeld' /\ FailuresCounted' /\ TimedIsListed'
    BY <1>1, <1>3, <1>6 DEF SessionsInv, LiveHeld, FailuresCounted, TimedIsListed
  <1>9. \A u \in Tokens : holder[u].member \in Members =>
           holder'[u] = holder[u] /\ (u \notin live => u \notin live')
    BY <1>1, <1>3, <1>6
  <1>10. \A x \in Members : wrong'[x] >= wrong[x]
    BY <1>1, <1>3, AccountsAssumption DEF AccountsAssumption
  <1>11. ASSUME NEW d \in AuthCalls PROVE CallOK(d)'
    <2>1. CASE d # c
      BY <1>1, <1>3, <1>5, <1>9, <1>10, <2>1, OthersKept
    <2>2. CASE d = c
      BY <1>1, <1>4, <1>5, <1>6, <2>2 DEF CallOK, At, Member, Owns
    <2> QED BY <2>1, <2>2
  <1>12. ASSUME NEW u \in live'
         PROVE  \/ u \in listed'[holder'[u].member] \union strays'
                \/ \E d \in AuthCalls : At(d, "index")' /\ authCall'[d].token = u
    <2>1. CASE u = t
      BY <1>1, <1>4, <1>5, <2>1 DEF At
    <2>2. CASE u # t
      <3>1. u \in live /\ holder'[u] = holder[u]
        BY <1>1, <1>3, <1>6, <2>2
      <3>2. \/ u \in listed[holder[u].member] \union strays
            \/ \E d \in AuthCalls : At(d, "index") /\ authCall[d].token = u
        BY <3>1 DEF SessionsInv, UnlistedHasCause
      <3>3. \A d \in AuthCalls : At(d, "index") => authCall'[d] = authCall[d]
        BY <1>1, <1>3, <1>5 DEF At
      <3> QED BY <1>3, <3>1, <3>2, <3>3 DEF At
    <2> QED BY <2>1, <2>2
  <1> QED
    BY <1>7, <1>8, <1>11, <1>12 DEF SessionsInv, UnlistedHasCause

LEMMA SessionsStepInv == SessionsInv /\ [AccountsNext]_accountVars => SessionsInv'
  <1> SUFFICES ASSUME SessionsInv, [AccountsNext]_accountVars PROVE SessionsInv'
    OBVIOUS
  <1>1. CASE UNCHANGED accountVars
    BY <1>1 DEF accountVars, SessionsInv, AccountsTyped, LiveHeld, FailuresCounted, TimedIsListed,
                CallOK, At, Member, Owns, UnlistedHasCause
  <1>2. ASSUME NEW m \in Members, LockPasses(m) \/ CancelAccount(m) PROVE SessionsInv'
    <2>1. \E p : p \in Passwords
      BY AccountsAssumption DEF AccountsAssumption
    <2> QED BY <1>2, <2>1, AdministrationKeepsInv
  <1> QED
    BY <1>1, <1>2, LoginKeepsInv, CountsKeepInv, AdministrationKeepsInv, SettingKeepsInv, LinksKeepInv,
       ReadingKeepsInv, RotationKeepsInv, ExpiryKeepsInv, DroppingKeepsInv, DyingKeepsInv,
       IndexingKeepsInv, IssuingKeepsInv DEF AccountsNext

\* AuthService and SessionService, for any members, tokens and handlers in flight: a live
\* refresh token that invalidateAllUserSessions would not find is still to be listed, or
\* its list ran out, or an invalidation that had not read it dropped the list, or its
\* process died between the two writes.
THEOREM UnlistedTokensHaveCauses == AccountsSpec => []UnlistedHasCause
  <1>1. SessionsInv => UnlistedHasCause
    BY DEF SessionsInv
  <1> QED
    BY <1>1, SessionsInitInv, SessionsStepInv, PTL DEF AccountsSpec

\* login: everything keeps its type, an account never counts more failures than wrong
\* passwords it was tried with, and one that was ever locked has had MaxFailures of them.
THEOREM AccountsTyping == AccountsSpec => []AccountsTypeOK
  <1>1. SessionsInv => AccountsTypeOK
    <2> SUFFICES ASSUME SessionsInv PROVE AccountsTypeOK
      OBVIOUS
    <2>1. ASSUME NEW m \in Members
          PROVE  /\ credential[m].password \in Passwords
                 /\ credential[m].failedAttempts \in 0..MaxWrong
                 /\ credential[m].lockedUntil \in {"null", "past", "future"}
                 /\ listed[m] \subseteq Tokens
                 /\ m \in timed => listed[m] # {}
                 /\ credential[m].lockedUntil # "null" => wrong[m] >= MaxFailures
      <3>1. credential[m] \in CredentialRow /\ wrong[m] \in 0..MaxWrong /\ listed[m] \subseteq Tokens
        BY DEF SessionsInv, AccountsTyped
      <3>2. /\ credential[m].password \in Passwords /\ credential[m].failedAttempts \in Nat
            /\ credential[m].lockedUntil \in {"null", "past", "future"}
        BY <3>1 DEF CredentialRow
      <3>3. /\ credential[m].failedAttempts <= wrong[m]
            /\ credential[m].lockedUntil # "null" => wrong[m] >= MaxFailures
        BY DEF SessionsInv, FailuresCounted
      <3>4. credential[m].failedAttempts \in 0..MaxWrong
        BY <3>1, <3>2, <3>3, AccountsAssumption DEF AccountsAssumption
      <3> QED BY <3>1, <3>2, <3>3, <3>4 DEF SessionsInv, TimedIsListed
    <2> QED BY <2>1 DEF AccountsTypeOK, SessionsInv, AccountsTyped, LiveHeld
  <1> QED
    BY <1>1, SessionsInitInv, SessionsStepInv, PTL DEF AccountsSpec

-----------------------------------------------------------------------------
(* Registration.                                                           *)

KeyNames == {"payload", "code", "tries", "cooldown", "shared", "sharedTries", "sharedCooldown"}
SharedRow == [form : Forms \union {NoForm}, code : Nat, stale : BOOLEAN]
KeysRow == [payload : Forms \union {NoForm}, code : Nat, tries : Nat, cooldown : BOOLEAN,
            shared : SharedRow, sharedTries : Nat, sharedCooldown : BOOLEAN]
OtpStages == {"idle", "commands", "lookup", "code", "shared", "tries", "count", "create", "consent"}
OtpRow == [stage : OtpStages, job : {"none", "store", "verify"}, form : Forms \union {NoForm},
           code : Nat, typed : Nat, stale : BOOLEAN, own : BOOLEAN, work : Seq(KeyNames)]

\* A command that is still ahead.
Ahead(work, key) == \E i \in 1..Len(work) : work[i] = key

LEMMA CommandTaken ==
  ASSUME NEW work \in Seq(KeyNames), work # <<>>
  PROVE  /\ Head(work) \in KeyNames /\ Tail(work) \in Seq(KeyNames)
         /\ \A key : Ahead(work, key) <=> key = Head(work) \/ Ahead(Tail(work), key)
  <1>1. /\ Len(work) \in Nat /\ Len(work) >= 1 /\ Head(work) = work[1]
        /\ Tail(work) \in Seq(KeyNames) /\ Len(Tail(work)) = Len(work) - 1
        /\ \A i \in 1..(Len(work) - 1) : Tail(work)[i] = work[i + 1]
    OBVIOUS
  <1>2. ASSUME NEW key, Ahead(work, key) PROVE key = Head(work) \/ Ahead(Tail(work), key)
    <2>1. PICK i \in 1..Len(work) : work[i] = key
      BY <1>2 DEF Ahead
    <2>2. CASE i = 1
      BY <1>1, <2>1, <2>2
    <2>3. CASE i # 1
      <3>1. i - 1 \in 1..Len(Tail(work)) /\ Tail(work)[i - 1] = key
        BY <1>1, <2>1, <2>3
      <3> QED BY <3>1 DEF Ahead
    <2> QED BY <2>2, <2>3
  <1>3. ASSUME NEW key, Ahead(Tail(work), key) PROVE Ahead(work, key)
    <2>1. PICK i \in 1..Len(Tail(work)) : Tail(work)[i] = key
      BY <1>3 DEF Ahead
    <2>2. i + 1 \in 1..Len(work) /\ work[i + 1] = key
      BY <1>1, <2>1
    <2> QED BY <2>2 DEF Ahead
  <1>4. Ahead(work, Head(work)) /\ Head(work) \in KeyNames
    <2>1. 1 \in 1..Len(work) /\ work[1] \in KeyNames
      BY <1>1
    <2> QED BY <1>1, <2>1 DEF Ahead
  <1> QED
    BY <1>1, <1>2, <1>3, <1>4

LEMMA CommandLists ==
  /\ {StoreCommands, ResendCommands, ClearCommands, <<"code">>, <<"shared">>, <<"shared", "sharedTries">>, <<>>}
       \subseteq Seq(KeyNames)
  /\ Ahead(StoreCommands, "payload") /\ Ahead(StoreCommands, "code")
  /\ Ahead(ResendCommands, "code") /\ ~Ahead(ResendCommands, "payload")
  /\ \A key : ~Ahead(<<>>, key)
  <1>1. {StoreCommands, ResendCommands, ClearCommands, <<"code">>, <<"shared">>, <<"shared", "sharedTries">>, <<>>}
          \subseteq Seq(KeyNames)
    BY DEF StoreCommands, ResendCommands, ClearCommands, KeyNames
  <1>2. Ahead(StoreCommands, "payload") /\ Ahead(StoreCommands, "code")
    <2>1. /\ 4 \in 1..Len(StoreCommands) /\ StoreCommands[4] = "payload"
          /\ 5 \in 1..Len(StoreCommands) /\ StoreCommands[5] = "code"
      BY DEF StoreCommands
    <2> QED BY <2>1 DEF Ahead
  <1>3. Ahead(ResendCommands, "code")
    <2>1. 1 \in 1..Len(ResendCommands) /\ ResendCommands[1] = "code"
      BY DEF ResendCommands
    <2> QED BY <2>1 DEF Ahead
  <1> QED
    BY <1>1, <1>2, <1>3 DEF Ahead, ResendCommands

\* A code that was generated for a form.
Fits(code, form) == code \in DOMAIN codeForm /\ codeForm[code] = form

Job(c) == otpCall[c].job
Saving(c) == Job(c) = "store" /\ RequestAt(c, "commands")
Writes(c, key) == Ahead(otpCall[c].work, key)

RegistrationTyped ==
  /\ keys \in KeysRow /\ codeForm \in Seq(Forms) /\ mailed \subseteq Nat
  /\ account \in [form : Forms \union {NoForm}, code : Nat]
  /\ otpCall \in [AuthRequests -> OtpRow] /\ calm \in BOOLEAN

SharedFits == keys.shared.form # NoForm => Fits(keys.shared.code, keys.shared.form)

RequestOK(c) ==
  /\ RequestAt(c, "idle") => Job(c) = "none"
  /\ RequestAt(c, "lookup") => Job(c) = "store"
  /\ Job(c) = "store" => RequestAt(c, "lookup") \/ RequestAt(c, "commands")
  /\ Saving(c) => Fits(otpCall[c].code, otpCall[c].form)
  /\ ~RequestAt(c, "idle") /\ ~RequestAt(c, "lookup") /\ Job(c) # "store" =>
        Job(c) = "verify" /\ otpCall[c].typed \in mailed \union {0}
  /\ RequestAt(c, "create") => otpCall[c].typed = otpCall[c].code

\* A storing call is alone; what it has written is its own.
Alone == \A c, d \in AuthRequests : Job(c) = "store" /\ ~RequestAt(d, "idle") => d = c
WroteItsOwn(c) ==
  Saving(c) => /\ Writes(c, "payload") \/ keys.payload \in {otpCall[c].form, NoForm}
               /\ Writes(c, "code") \/ keys.code \in {otpCall[c].code, 0}

\* The service's own keys pair a form with its code, unless a call is about to write one.
Paired ==
  \/ keys.payload = NoForm \/ keys.code = 0 \/ Fits(keys.code, keys.payload)
  \/ \E c \in AuthRequests : Saving(c) /\ (Writes(c, "payload") \/ Writes(c, "code"))

ReadItsPair(c) ==
  /\ RequestAt(c, "code") => keys.code = 0 \/ Fits(keys.code, otpCall[c].form)
  /\ RequestAt(c, "tries") \/ RequestAt(c, "count") \/ RequestAt(c, "create") =>
        Fits(otpCall[c].code, otpCall[c].form)

AccountFits ==
  account.form # NoForm => account.code \in mailed /\ Fits(account.code, account.form)

CalmInv ==
  /\ Alone /\ Paired /\ AccountFits
  /\ \A c \in AuthRequests : WroteItsOwn(c) /\ ReadItsPair(c)

CodesInv ==
  /\ RegistrationTyped /\ SharedFits
  /\ \A c \in AuthRequests : RequestOK(c)
  /\ calm => CalmInv

LEMMA CodesInvImplies == CodesInv => AccountOfItsCode
  BY DEF CodesInv, CalmInv, AccountFits, Fits, AccountOfItsCode

LEMMA FreshRequest == NoRequest \in OtpRow /\ NoKeys \in KeysRow
  BY CommandLists DEF NoRequest, OtpRow, OtpStages, NoKeys, NoShared, KeysRow, SharedRow

LEMMA CodesInitInv == RegistrationInit => CodesInv
  <1> SUFFICES ASSUME RegistrationInit PROVE CodesInv
    OBVIOUS
  <1>1. RegistrationTyped
    BY FreshRequest DEF RegistrationInit, RegistrationTyped
  <1>2. \A c \in AuthRequests : RequestAt(c, "idle") /\ Job(c) = "none"
    BY DEF RegistrationInit, NoRequest, RequestAt, Job
  <1>3. keys.shared.form = NoForm /\ keys.payload = NoForm /\ account.form = NoForm
    BY DEF RegistrationInit, NoKeys, NoShared
  <1> QED
    BY <1>1, <1>2, <1>3 DEF CodesInv, CalmInv, SharedFits, RequestOK, Alone, WroteItsOwn, Saving, Paired,
                            ReadItsPair, AccountFits, RequestAt

\* A key keeps its value or is gone.
Lapse ==
  /\ keys' \in KeysRow
  /\ keys'.payload \in {keys.payload, NoForm} /\ keys'.code \in {keys.code, 0}
  /\ keys'.shared.form # NoForm =>
        keys'.shared.form = keys.shared.form /\ keys'.shared.code = keys.shared.code
FitsKept == \A code, form : Fits(code, form) => Fits(code, form)'

LEMMA FormAppended ==
  ASSUME codeForm \in Seq(Forms), NEW form \in Forms, codeForm' = Append(codeForm, form),
         NEW code, code = NewCode
  PROVE  codeForm' \in Seq(Forms) /\ FitsKept /\ code \in Nat /\ Fits(code, form)'
  <1>1. /\ Len(codeForm) \in Nat /\ codeForm' \in Seq(Forms) /\ Len(codeForm') = Len(codeForm) + 1
        /\ DOMAIN codeForm = 1..Len(codeForm) /\ DOMAIN codeForm' = 1..(Len(codeForm) + 1)
        /\ \A i \in 1..Len(codeForm) : codeForm'[i] = codeForm[i]
        /\ codeForm'[Len(codeForm) + 1] = form
    OBVIOUS
  <1>2. \A i \in 1..Len(codeForm) : i \in 1..(Len(codeForm) + 1)
    BY <1>1
  <1>3. Len(codeForm) + 1 \in 1..(Len(codeForm) + 1)
    BY <1>1
  <1> QED
    BY <1>1, <1>2, <1>3 DEF FitsKept, Fits, NewCode

LEMMA SameForms == UNCHANGED codeForm => FitsKept
  BY DEF FitsKept, Fits

LEMMA OthersStand ==
  ASSUME CodesInv, NEW d \in AuthRequests, otpCall'[d] = otpCall[d], Lapse, FitsKept, mailed \subseteq mailed'
  PROVE  RequestOK(d)' /\ (calm => WroteItsOwn(d)' /\ ReadItsPair(d)')
  <1>1. RequestOK(d) /\ (calm => WroteItsOwn(d) /\ ReadItsPair(d))
    BY DEF CodesInv, CalmInv
  <1>2. RequestOK(d)'
    BY <1>1 DEF RequestOK, RequestAt, Job, Saving, FitsKept
  <1>3. WroteItsOwn(d) => WroteItsOwn(d)'
    BY DEF WroteItsOwn, Saving, Writes, Job, RequestAt, Lapse
  <1>4. ReadItsPair(d) => ReadItsPair(d)'
    BY DEF ReadItsPair, RequestAt, Lapse, FitsKept
  <1> QED
    BY <1>1, <1>2, <1>3, <1>4

LEMMA PairedStands ==
  ASSUME CodesInv, calm, Lapse, FitsKept,
         \A d \in AuthRequests : Saving(d) /\ (Writes(d, "payload") \/ Writes(d, "code")) => otpCall'[d] = otpCall[d]
  PROVE  Paired'
  <1>1. Paired
    BY DEF CodesInv, CalmInv
  <1>2. CASE keys.payload = NoForm \/ keys.code = 0 \/ Fits(keys.code, keys.payload)
    BY <1>2 DEF Lapse, FitsKept, Paired
  <1>3. CASE \E d \in AuthRequests : Saving(d) /\ (Writes(d, "payload") \/ Writes(d, "code"))
    <2>1. PICK d \in AuthRequests : Saving(d) /\ (Writes(d, "payload") \/ Writes(d, "code"))
      BY <1>3
    <2>2. Saving(d)' /\ (Writes(d, "payload")' \/ Writes(d, "code")')
      BY <2>1 DEF Saving, Writes, Job, RequestAt
    <2> QED BY <2>2 DEF Paired
  <1> QED
    BY <1>1, <1>2, <1>3 DEF Paired

\* calm is what a history variable of its kind says.
LEMMA CalmMeansAlone ==
  ASSUME calm \in BOOLEAN, CalmKept, \A c \in AuthRequests : RequestOK(c)'
  PROVE  calm' \in BOOLEAN /\ (calm' => calm /\ Alone')
  <1>1. calm' = (calm /\ (Storing(otpCall') => Cardinality(InFlight(otpCall')) = 1))
    BY DEF CalmKept
  <1>2. ASSUME calm' PROVE Alone'
    <2> SUFFICES ASSUME NEW a \in AuthRequests, NEW b \in AuthRequests,
                        Job(a)' = "store", ~RequestAt(b, "idle")'
                 PROVE  b = a
      BY DEF Alone
    <2>1. otpCall'[a].job = "store" /\ otpCall'[b].stage # "idle" /\ otpCall'[a].stage # "idle"
      BY DEF RequestOK, RequestAt, Job
    <2>2. a \in InFlight(otpCall') /\ b \in InFlight(otpCall')
      BY <2>1 DEF InFlight
    <2>3. Cardinality(InFlight(otpCall')) = 1
      BY <1>1, <1>2, <2>1 DEF Storing
    <2>4. IsFiniteSet(InFlight(otpCall'))
      <3>1. InFlight(otpCall') \in SUBSET AuthRequests
        BY DEF InFlight
      <3> QED BY <3>1, RegistrationAssumption, FS_Subset DEF RegistrationAssumption
    <2>5. PICK x : InFlight(otpCall') = {x}
      BY <2>3, <2>4, FS_Singleton
    <2> QED BY <2>2, <2>5
  <1> QED
    BY <1>1, <1>2

\* A call that writes no code moves on.
LEMMA RequestMoves ==
  ASSUME CodesInv, NEW c \in AuthRequests, NEW row \in OtpRow, otpCall' = [otpCall EXCEPT ![c] = row],
         CalmKept, Lapse, codeForm' \in Seq(Forms), FitsKept, mailed \subseteq mailed', mailed' \subseteq Nat,
         account' \in [form : Forms \union {NoForm}, code : Nat], calm => AccountFits',
         ~(Saving(c) /\ (Writes(c, "payload") \/ Writes(c, "code"))),
         RequestOK(c)', calm' => WroteItsOwn(c)', calm /\ Alone' /\ Paired => ReadItsPair(c)'
  PROVE  CodesInv'
  <1>1. otpCall'[c] = row /\ \A d \in AuthRequests \ {c} : otpCall'[d] = otpCall[d]
    BY DEF CodesInv, RegistrationTyped
  <1>2. \A d \in AuthRequests : RequestOK(d)'
    BY <1>1, OthersStand
  <1>3. calm' \in BOOLEAN /\ (calm' => calm /\ Alone')
    BY <1>2, CalmMeansAlone DEF CodesInv, RegistrationTyped
  <1>4. RegistrationTyped'
    BY <1>3 DEF CodesInv, RegistrationTyped, Lapse
  <1>5. SharedFits'
    BY DEF CodesInv, SharedFits, Lapse, FitsKept
  <1>6. calm' => Paired'
    BY <1>1, <1>3, PairedStands
  <1>7. calm' => AccountFits'
    BY <1>3
  <1>8. calm' => Paired
    BY <1>3 DEF CodesInv, CalmInv
  <1>9. ASSUME calm', NEW d \in AuthRequests PROVE WroteItsOwn(d)' /\ ReadItsPair(d)'
    BY <1>1, <1>3, <1>8, <1>9, OthersStand
  <1> QED
    BY <1>2, <1>3, <1>4, <1>5, <1>6, <1>7, <1>9 DEF CodesInv, CalmInv

LEMMA NothingLapses == CodesInv /\ UNCHANGED keys => Lapse
  BY DEF CodesInv, RegistrationTyped, Lapse

LEMMA AccountStands ==
  ASSUME CodesInv, UNCHANGED account, FitsKept, mailed \subseteq mailed'
  PROVE  account' \in [form : Forms \union {NoForm}, code : Nat] /\ (calm => AccountFits')
  BY DEF CodesInv, CalmInv, RegistrationTyped, AccountFits, FitsKept

\* The row of a call that has answered.
LEMMA AnswerMoves ==
  ASSUME CodesInv, NEW c \in AuthRequests, Answer(c), CalmKept, Lapse, UNCHANGED <<codeForm, account>>,
         mailed \subseteq mailed', mailed' \subseteq Nat,
         ~(Saving(c) /\ (Writes(c, "payload") \/ Writes(c, "code")))
  PROVE  CodesInv'
  <1> DEFINE row == NoRequest
  <1>1. row \in OtpRow /\ row.stage = "idle" /\ row.job = "none" /\ otpCall' = [otpCall EXCEPT ![c] = row]
    BY FreshRequest DEF Answer, NoRequest
  <1> HIDE DEF row
  <1>2. otpCall'[c] = row
    BY <1>1 DEF CodesInv, RegistrationTyped
  <1>3. RequestOK(c)' /\ WroteItsOwn(c)' /\ ReadItsPair(c)'
    BY <1>1, <1>2 DEF RequestOK, WroteItsOwn, ReadItsPair, RequestAt, Job, Saving
  <1>4. codeForm' \in Seq(Forms)
    BY DEF CodesInv, RegistrationTyped
  <1> QED
    BY <1>1, <1>3, <1>4, SameForms, AccountStands, RequestMoves

LEMMA RegisterKeepsInv ==
  ASSUME CodesInv, NEW c \in AuthRequests, NEW form \in Forms, Register(c, form), CalmKept
  PROVE  CodesInv'
  <1>1. PICK code \in Nat : code = NewCode
    BY DEF NewCode, CodesInv, RegistrationTyped
  <1> DEFINE row == [NoRequest EXCEPT !.stage = "commands", !.job = "store", !.form = form,
                                      !.code = code, !.work = StoreCommands]
  <1>2. /\ otpCall' = [otpCall EXCEPT ![c] = row] /\ RequestAt(c, "idle")
        /\ UNCHANGED <<keys, mailed, account>> /\ codeForm' = Append(codeForm, form)
    BY <1>1 DEF Register
  <1>3. /\ row \in OtpRow /\ row.stage = "commands" /\ row.job = "store" /\ row.form = form
        /\ row.code = code /\ row.work = StoreCommands
    BY FreshRequest, CommandLists DEF OtpRow, OtpStages
  <1> HIDE DEF row
  <1>4. codeForm' \in Seq(Forms) /\ FitsKept /\ Fits(code, form)'
    BY <1>1, <1>2, FormAppended DEF CodesInv, RegistrationTyped
  <1>5. otpCall'[c] = row
    BY <1>2 DEF CodesInv, RegistrationTyped
  <1>6. RequestOK(c)'
    BY <1>3, <1>4, <1>5 DEF RequestOK, RequestAt, Job, Saving
  <1>7. WroteItsOwn(c)' /\ ReadItsPair(c)'
    BY <1>3, <1>5, CommandLists DEF WroteItsOwn, Writes, ReadItsPair, RequestAt
  <1>8. mailed' \subseteq Nat /\ ~Saving(c)
    BY <1>2 DEF CodesInv, RegistrationTyped, Saving, RequestAt
  <1> QED
    BY <1>2, <1>3, <1>4, <1>6, <1>7, <1>8, NothingLapses, AccountStands, RequestMoves

LEMMA ResendKeepsInv ==
  ASSUME CodesInv, NEW c \in AuthRequests, Resend(c), CalmKept
  PROVE  CodesInv'
  <1> DEFINE row == [NoRequest EXCEPT !.stage = "lookup", !.job = "store"]
  <1>1. /\ otpCall' = [otpCall EXCEPT ![c] = row] /\ RequestAt(c, "idle")
        /\ UNCHANGED <<keys, codeForm, mailed, account>>
    BY DEF Resend
  <1>2. row \in OtpRow /\ row.stage = "lookup" /\ row.job = "store"
    BY FreshRequest DEF OtpRow, OtpStages
  <1> HIDE DEF row
  <1>3. otpCall'[c] = row
    BY <1>1 DEF CodesInv, RegistrationTyped
  <1>4. RequestOK(c)' /\ WroteItsOwn(c)' /\ ReadItsPair(c)'
    BY <1>2, <1>3 DEF RequestOK, WroteItsOwn, ReadItsPair, RequestAt, Job, Saving
  <1>5. mailed' \subseteq Nat /\ codeForm' \in Seq(Forms) /\ ~Saving(c)
    BY <1>1 DEF CodesInv, RegistrationTyped, Saving, RequestAt
  <1> QED
    BY <1>1, <1>2, <1>4, <1>5, SameForms, NothingLapses, AccountStands, RequestMoves

\* The form a resend finds is the one the keys hold: the payload stays its own.
LEMMA GenerateKeepsInv ==
  ASSUME CodesInv, NEW c \in AuthRequests, GenerateAgain(c), CalmKept
  PROVE  CodesInv'
  <1>1. /\ UNCHANGED <<keys, mailed, account>> /\ RequestAt(c, "lookup") /\ ~Saving(c) /\ Job(c) = "store"
        /\ mailed' \subseteq Nat /\ otpCall[c] \in OtpRow /\ otpCall \in [AuthRequests -> OtpRow]
        /\ codeForm \in Seq(Forms) /\ keys \in KeysRow
    BY DEF GenerateAgain, CodesInv, RegistrationTyped, Saving, RequestAt, RequestOK
  <1>2. CASE FormFound = NoForm
    BY <1>1, <1>2, NothingLapses, AnswerMoves DEF GenerateAgain
  <1>3. CASE FormFound # NoForm
    <2>1. PICK form \in Forms : form = FormFound
      BY <1>1, <1>3 DEF FormFound, KeysRow, SharedRow
    <2>2. PICK code \in Nat : code = NewCode
      BY <1>1 DEF NewCode
    <2> DEFINE row == [otpCall[c] EXCEPT !.stage = "commands", !.work = ResendCommands,
                                         !.form = form, !.code = code]
    <2>3. /\ row \in OtpRow /\ row.stage = "commands" /\ row.job = "store" /\ row.form = form
          /\ row.code = code /\ row.work = ResendCommands
      BY <1>1, CommandLists DEF OtpRow, OtpStages, Job
    <2>4. otpCall' = [otpCall EXCEPT ![c] = row] /\ codeForm' = Append(codeForm, form)
      BY <1>1, <1>3, <2>1, <2>2 DEF GenerateAgain, Runs
    <2> HIDE DEF row
    <2>5. codeForm' \in Seq(Forms) /\ FitsKept /\ Fits(code, form)'
      BY <1>1, <2>2, <2>4, FormAppended
    <2>6. otpCall'[c] = row
      BY <1>1, <2>4
    <2>7. RequestOK(c)'
      BY <2>3, <2>5, <2>6 DEF RequestOK, RequestAt, Job, Saving
    <2>8. ReadItsPair(c)'
      BY <2>3, <2>6 DEF ReadItsPair, RequestAt
    <2>9. WroteItsOwn(c)'
      BY <1>1, <2>1, <2>3, <2>6, CommandLists DEF WroteItsOwn, Writes, FormFound
    <2> QED
      BY <1>1, <2>3, <2>4, <2>5, <2>7, <2>8, <2>9, NothingLapses, AccountStands, RequestMoves
  <1> QED
    BY <1>2, <1>3

\* A call that verifies, at its next stage.
LEMMA VerifyMoves ==
  ASSUME CodesInv, NEW c \in AuthRequests, NEW row \in OtpRow, otpCall' = [otpCall EXCEPT ![c] = row],
         CalmKept, UNCHANGED <<keys, codeForm, mailed, account>>, ~Saving(c),
         row.job = "verify", row.typed \in mailed \union {0}, row.stage \notin {"idle", "lookup"},
         row.stage = "create" => row.typed = row.code,
         calm /\ Alone' /\ Paired /\ row.stage = "code" => keys.code = 0 \/ Fits(keys.code, row.form),
         calm /\ row.stage \in {"tries", "count", "create"} => Fits(row.code, row.form)
  PROVE  CodesInv'
  <1>1. otpCall'[c] = row /\ mailed' \subseteq Nat /\ codeForm' \in Seq(Forms)
    BY DEF CodesInv, RegistrationTyped
  <1>2. RequestOK(c)' /\ WroteItsOwn(c)'
    BY <1>1 DEF RequestOK, WroteItsOwn, RequestAt, Job, Saving
  <1>3. calm /\ Alone' /\ Paired => ReadItsPair(c)'
    BY <1>1 DEF ReadItsPair, RequestAt, Fits
  <1> QED
    BY <1>1, <1>2, <1>3, SameForms, NothingLapses, AccountStands, RequestMoves

\* What a verifying call is known to be.
LEMMA Verifies ==
  ASSUME CodesInv, NEW c \in AuthRequests, otpCall[c].stage \in {"shared", "code", "tries", "count", "create", "consent"}
  PROVE  /\ otpCall \in [AuthRequests -> OtpRow] /\ otpCall[c] \in OtpRow /\ keys \in KeysRow
         /\ Job(c) = "verify" /\ otpCall[c].typed \in mailed \union {0} /\ ~Saving(c) /\ mailed \subseteq Nat
         /\ otpCall[c].stage = "create" => otpCall[c].typed = otpCall[c].code
         /\ calm => ReadItsPair(c)
  BY DEF CodesInv, CalmInv, RegistrationTyped, RequestOK, RequestAt, Saving

LEMMA VerifyKeepsInv ==
  ASSUME CodesInv, NEW c \in AuthRequests, NEW typed \in mailed \union {0}, Verify(c, typed), CalmKept
  PROVE  CodesInv'
  <1> DEFINE stage == IF keys.payload # NoForm THEN "code" ELSE "shared"
             row == [NoRequest EXCEPT !.stage = stage, !.job = "verify", !.form = keys.payload, !.typed = typed]
  <1>1. /\ otpCall' = [otpCall EXCEPT ![c] = row] /\ RequestAt(c, "idle") /\ ~Saving(c) /\ Job(c) = "none"
        /\ UNCHANGED <<keys, codeForm, mailed, account>>
        /\ otpCall \in [AuthRequests -> OtpRow] /\ keys \in KeysRow /\ typed \in Nat
    BY DEF Verify, CodesInv, RegistrationTyped, RequestOK, RequestAt, Saving
  <1>2. /\ row \in OtpRow /\ row.stage = stage /\ row.job = "verify" /\ row.form = keys.payload
        /\ row.typed = typed
    BY <1>1, FreshRequest DEF OtpRow, OtpStages, KeysRow
  <1>3. stage \in {"code", "shared"} /\ (stage = "code" => keys.payload # NoForm)
    OBVIOUS
  <1> HIDE DEF row, stage
  <1>4. calm /\ Alone' /\ Paired /\ row.stage = "code" => keys.code = 0 \/ Fits(keys.code, row.form)
    <2> SUFFICES ASSUME Alone', Paired, row.stage = "code" PROVE keys.code = 0 \/ Fits(keys.code, keys.payload)
      BY <1>2
    <2>1. ~RequestAt(c, "idle")'
      BY <1>1, <1>2, <1>3 DEF RequestAt
    <2>2. ASSUME NEW d \in AuthRequests, Saving(d) PROVE FALSE
      <3>1. d # c /\ Job(d)' = "store"
        BY <1>1, <2>2 DEF Saving, Job
      <3> QED BY <2>1, <3>1 DEF Alone
    <2> QED BY <1>2, <1>3, <2>2 DEF Paired
  <1> QED
    BY <1>1, <1>2, <1>3, <1>4, VerifyMoves

LEMMA ReadingCodesKeepsInv ==
  ASSUME CodesInv, NEW c \in AuthRequests, ReadShared(c) \/ ReadCode(c), CalmKept
  PROVE  CodesInv'
  <1>1. /\ otpCall \in [AuthRequests -> OtpRow] /\ otpCall[c] \in OtpRow /\ keys \in KeysRow
        /\ Job(c) = "verify" /\ otpCall[c].typed \in mailed \union {0} /\ ~Saving(c)
        /\ mailed' \subseteq Nat /\ UNCHANGED <<keys, codeForm, mailed, account>>
        /\ calm => ReadItsPair(c)
    BY Verifies DEF ReadShared, ReadCode, RequestAt
  <1>2. CASE Answer(c)
    BY <1>1, <1>2, NothingLapses, AnswerMoves
  <1>3. CASE ReadShared(c) /\ keys.shared.form # NoForm
    <2> DEFINE row == [otpCall[c] EXCEPT !.stage = "tries", !.own = FALSE, !.form = keys.shared.form,
                                         !.code = keys.shared.code, !.stale = keys.shared.stale]
    <2>1. keys.shared \in SharedRow
      BY <1>1 DEF KeysRow
    <2>2. /\ row \in OtpRow /\ row.stage = "tries" /\ row.job = "verify" /\ row.typed = otpCall[c].typed
          /\ row.form = keys.shared.form /\ row.code = keys.shared.code
      BY <1>1, <2>1 DEF OtpRow, OtpStages, SharedRow, Job
    <2>3. otpCall' = [otpCall EXCEPT ![c] = row]
      BY <1>1, <1>3 DEF ReadShared
    <2> HIDE DEF row
    <2>4. Fits(row.code, row.form)
      BY <1>3, <2>2 DEF CodesInv, SharedFits
    <2> QED
      BY <1>1, <2>2, <2>3, <2>4, VerifyMoves
  <1>4. CASE ReadCode(c) /\ keys.code # 0
    <2> DEFINE row == [otpCall[c] EXCEPT !.stage = "tries", !.code = keys.code]
    <2>1. /\ row \in OtpRow /\ row.stage = "tries" /\ row.job = "verify" /\ row.typed = otpCall[c].typed
          /\ row.form = otpCall[c].form /\ row.code = keys.code
      BY <1>1 DEF OtpRow, OtpStages, KeysRow, Job
    <2>2. otpCall' = [otpCall EXCEPT ![c] = row] /\ RequestAt(c, "code")
      BY <1>1, <1>4 DEF ReadCode
    <2> HIDE DEF row
    <2>3. calm => Fits(row.code, row.form)
      BY <1>1, <1>4, <2>1, <2>2 DEF ReadItsPair
    <2> QED
      BY <1>1, <2>1, <2>2, <2>3, VerifyMoves
  <1> QED
    BY <1>2, <1>3, <1>4 DEF ReadShared, ReadCode

LEMMA CompareKeepsInv ==
  ASSUME CodesInv, NEW c \in AuthRequests, Compare(c), CalmKept
  PROVE  CodesInv'
  <1>1. /\ otpCall \in [AuthRequests -> OtpRow] /\ otpCall[c] \in OtpRow
        /\ Job(c) = "verify" /\ otpCall[c].typed \in mailed \union {0} /\ ~Saving(c)
        /\ mailed' \subseteq Nat /\ UNCHANGED <<keys, codeForm, mailed, account>>
        /\ RequestAt(c, "tries") /\ (calm => ReadItsPair(c))
    BY Verifies DEF Compare, RequestAt
  <1>2. \/ \E work \in {<<"code">>, <<"shared", "sharedTries">>} : otpCall' = [otpCall EXCEPT ![c] = Runs(c, work)]
        \/ Answer(c)
        \/ GoesTo(c, IF otpCall[c].typed = otpCall[c].code THEN "create" ELSE "count")
    BY DEF Compare
  <1>3. CASE Answer(c)
    BY <1>1, <1>3, NothingLapses, AnswerMoves
  <1>4. ASSUME NEW work \in {<<"code">>, <<"shared", "sharedTries">>}, otpCall' = [otpCall EXCEPT ![c] = Runs(c, work)]
        PROVE  CodesInv'
    <2> DEFINE row == Runs(c, work)
    <2>1. row \in OtpRow /\ row.stage = "commands" /\ row.job = "verify" /\ row.typed = otpCall[c].typed
      BY <1>1, CommandLists DEF Runs, OtpRow, OtpStages, Job
    <2> HIDE DEF row
    <2> QED
      BY <1>1, <1>4, <2>1, VerifyMoves DEF row
  <1>5. CASE GoesTo(c, IF otpCall[c].typed = otpCall[c].code THEN "create" ELSE "count")
    <2>1. PICK stage \in {"create", "count"} : /\ otpCall' = [otpCall EXCEPT ![c].stage = stage]
                                               /\ stage = "create" => otpCall[c].typed = otpCall[c].code
      BY <1>5 DEF GoesTo
    <2> DEFINE row == [otpCall[c] EXCEPT !.stage = stage]
    <2>2. /\ row \in OtpRow /\ row.stage = stage /\ row.job = "verify" /\ row.typed = otpCall[c].typed
          /\ row.form = otpCall[c].form /\ row.code = otpCall[c].code
      BY <1>1 DEF OtpRow, OtpStages, Job
    <2>3. otpCall' = [otpCall EXCEPT ![c] = row]
      BY <1>1, <2>1
    <2> HIDE DEF row
    <2>4. calm => Fits(row.code, row.form)
      BY <1>1, <2>2 DEF ReadItsPair
    <2> QED
      BY <1>1, <2>1, <2>2, <2>3, <2>4, VerifyMoves
  <1> QED
    BY <1>2, <1>3, <1>4, <1>5

LEMMA CountTryKeepsInv ==
  ASSUME CodesInv, NEW c \in AuthRequests, CountTry(c), CalmKept
  PROVE  CodesInv'
  <1>1. /\ otpCall \in [AuthRequests -> OtpRow] /\ otpCall[c] \in OtpRow /\ keys \in KeysRow
        /\ Job(c) = "verify" /\ otpCall[c].typed \in mailed \union {0} /\ ~Saving(c)
        /\ mailed' \subseteq Nat /\ codeForm' \in Seq(Forms) /\ UNCHANGED <<codeForm, mailed, account>>
    BY Verifies DEF CountTry, RequestAt, CodesInv, RegistrationTyped
  <1>2. PICK key \in {"tries", "sharedTries"} : key = Counter(c)
    BY DEF Counter
  <1>3. keys[key] + 1 \in Nat
    BY <1>1 DEF KeysRow
  <1>4. Lapse
    <2>1. keys' = [keys EXCEPT ![key] = keys[key] + 1]
      BY <1>2 DEF CountTry
    <2>2. CASE key = "tries"
      <3>1. keys' = [keys EXCEPT !.tries = keys[key] + 1]
        BY <2>1, <2>2
      <3> QED BY <1>1, <1>3, <3>1 DEF KeysRow, Lapse
    <2>3. CASE key = "sharedTries"
      <3>1. keys' = [keys EXCEPT !.sharedTries = keys[key] + 1]
        BY <2>1, <2>3
      <3> QED BY <1>1, <1>3, <3>1 DEF KeysRow, Lapse
    <2> QED BY <2>2, <2>3
  <1>5. PICK work \in {<<"code">>, <<"shared">>, <<>>} : otpCall' = [otpCall EXCEPT ![c] = Runs(c, work)]
    BY DEF CountTry
  <1> DEFINE row == Runs(c, work)
  <1>6. row \in OtpRow /\ row.stage = "commands" /\ row.job = "verify" /\ row.typed = otpCall[c].typed
    BY <1>1, CommandLists DEF Runs, OtpRow, OtpStages, Job
  <1>7. otpCall' = [otpCall EXCEPT ![c] = row]
    BY <1>5
  <1> HIDE DEF row
  <1>8. otpCall'[c] = row
    BY <1>1, <1>7
  <1>9. RequestOK(c)' /\ WroteItsOwn(c)' /\ ReadItsPair(c)'
    BY <1>1, <1>6, <1>8 DEF RequestOK, WroteItsOwn, ReadItsPair, RequestAt, Job, Saving
  <1> QED
    BY <1>1, <1>4, <1>6, <1>7, <1>9, SameForms, AccountStands, RequestMoves

\* The account is created with the form whose code was typed.
LEMMA CreatingKeepsInv ==
  ASSUME CodesInv, NEW c \in AuthRequests, CreateUser(c) \/ StoreConsent(c), CalmKept
  PROVE  CodesInv'
  <1>1. /\ otpCall \in [AuthRequests -> OtpRow] /\ otpCall[c] \in OtpRow
        /\ Job(c) = "verify" /\ otpCall[c].typed \in mailed \union {0} /\ ~Saving(c)
        /\ otpCall[c].stage = "create" => otpCall[c].typed = otpCall[c].code
        /\ mailed' \subseteq Nat /\ UNCHANGED <<keys, codeForm, mailed>> /\ codeForm \in Seq(Forms)
        /\ calm => ReadItsPair(c)
    BY Verifies DEF CreateUser, StoreConsent, RequestAt, CodesInv, RegistrationTyped
  <1>2. CASE StoreConsent(c)
    <2> DEFINE row == Runs(c, ClearCommands)
    <2>1. row \in OtpRow /\ row.stage = "commands" /\ row.job = "verify" /\ row.typed = otpCall[c].typed
      BY <1>1, CommandLists DEF Runs, OtpRow, OtpStages, Job
    <2>2. otpCall' = [otpCall EXCEPT ![c] = row] /\ UNCHANGED account
      BY <1>2 DEF StoreConsent
    <2> HIDE DEF row
    <2> QED
      BY <1>1, <2>1, <2>2, VerifyMoves
  <1>3. CASE CreateUser(c) /\ account.form # NoForm
    BY <1>1, <1>3, NothingLapses, AnswerMoves DEF CreateUser
  <1>4. CASE CreateUser(c) /\ account.form = NoForm
    <2> DEFINE row == [otpCall[c] EXCEPT !.stage = "consent"]
    <2>1. row \in OtpRow /\ row.stage = "consent" /\ row.job = "verify" /\ row.typed = otpCall[c].typed
      BY <1>1 DEF OtpRow, OtpStages, Job
    <2>2. /\ otpCall' = [otpCall EXCEPT ![c] = row] /\ RequestAt(c, "create")
          /\ account' = [form |-> otpCall[c].form, code |-> otpCall[c].typed]
      BY <1>1, <1>4 DEF CreateUser, GoesTo
    <2> HIDE DEF row
    <2>3. otpCall'[c] = row
      BY <1>1, <2>2
    <2>4. RequestOK(c)' /\ WroteItsOwn(c)' /\ ReadItsPair(c)'
      BY <1>1, <2>1, <2>3 DEF RequestOK, WroteItsOwn, ReadItsPair, RequestAt, Job, Saving
    <2>5. account' \in [form : Forms \union {NoForm}, code : Nat]
      BY <1>1, <2>2 DEF OtpRow
    <2>6. calm => AccountFits'
      <3> SUFFICES ASSUME calm PROVE AccountFits'
        OBVIOUS
      <3>1. Fits(otpCall[c].typed, otpCall[c].form)
        BY <1>1, <2>2 DEF ReadItsPair, RequestAt
      <3>2. otpCall[c].typed # 0
        BY <1>1, <3>1 DEF Fits
      <3>3. otpCall[c].typed \in mailed'
        BY <1>1, <3>2
      <3>4. account'.code \in DOMAIN codeForm' /\ codeForm'[account'.code] = account'.form /\ account'.code \in mailed'
        BY <1>1, <2>2, <3>1, <3>3 DEF Fits
      <3> QED BY <3>4 DEF AccountFits, Fits
    <2> QED
      BY <1>1, <2>1, <2>2, <2>4, <2>5, <2>6, SameForms, NothingLapses, RequestMoves
  <1> QED
    BY <1>2, <1>3, <1>4

LEMMA LapsingKeepsInv ==
  ASSUME CodesInv, (\E key \in DOMAIN NoKeys : KeyLapses(key)) \/ SharedCodeAges, CalmKept
  PROVE  CodesInv'
  <1>1. /\ UNCHANGED <<codeForm, mailed, account, otpCall>> /\ keys \in KeysRow /\ RegistrationTyped
    BY DEF KeyLapses, SharedCodeAges, CodesInv, RegistrationTyped
  <1>2. Lapse
    <2>1. ASSUME NEW key \in DOMAIN NoKeys, KeyLapses(key) PROVE Lapse
      <3>1. key \in KeyNames
        BY DEF NoKeys, KeyNames
      <3>2. keys' = [keys EXCEPT ![key] = NoKeys[key]]
        BY <2>1 DEF KeyLapses
      <3>3. NoKeys.payload = NoForm /\ NoKeys.code = 0 /\ NoKeys.shared.form = NoForm
        BY DEF NoKeys, NoShared
      <3>4. /\ keys' \in KeysRow
            /\ keys'.payload = IF key = "payload" THEN NoKeys.payload ELSE keys.payload
            /\ keys'.code = IF key = "code" THEN NoKeys.code ELSE keys.code
            /\ keys'.shared = IF key = "shared" THEN NoKeys.shared ELSE keys.shared
        BY <1>1, <3>1, <3>2, FreshRequest DEF KeysRow, KeyNames
      <3> QED BY <3>3, <3>4 DEF Lapse
    <2>2. CASE SharedCodeAges
      <3> DEFINE old == [keys.shared EXCEPT !.stale = TRUE]
      <3>1. old \in SharedRow /\ old.form = keys.shared.form /\ old.code = keys.shared.code
        BY <1>1 DEF KeysRow, SharedRow
      <3>2. keys' = [keys EXCEPT !.shared = old]
        BY <1>1, <2>2 DEF SharedCodeAges
      <3> HIDE DEF old
      <3>3. keys' \in KeysRow /\ keys'.payload = keys.payload /\ keys'.code = keys.code /\ keys'.shared = old
        BY <1>1, <3>1, <3>2 DEF KeysRow
      <3> QED BY <3>1, <3>3 DEF Lapse
    <2> QED BY <2>1, <2>2
  <1>3. FitsKept
    BY <1>1, SameForms
  <1>4. \A d \in AuthRequests : RequestOK(d)' /\ (calm => WroteItsOwn(d)' /\ ReadItsPair(d)')
    BY <1>1, <1>2, <1>3, OthersStand
  <1>5. calm' \in BOOLEAN /\ (calm' => calm /\ Alone')
    BY <1>1, <1>4, CalmMeansAlone DEF RegistrationTyped
  <1>6. RegistrationTyped' /\ SharedFits'
    BY <1>1, <1>2, <1>3, <1>5 DEF CodesInv, RegistrationTyped, SharedFits, Lapse, FitsKept
  <1>7. calm => Paired' /\ AccountFits'
    BY <1>1, <1>2, <1>3, PairedStands, AccountStands
  <1> QED
    BY <1>4, <1>5, <1>6, <1>7 DEF CodesInv, CalmInv

\* A command of a call that has decided what it leaves in the keys.
LEMMA CommandWrites ==
  ASSUME CodesInv, NEW c \in AuthRequests, Command(c)
  PROVE  /\ otpCall \in [AuthRequests -> OtpRow] /\ otpCall[c] \in OtpRow /\ keys \in KeysRow
         /\ Written(c) \in KeysRow /\ otpCall[c].work # <<>> /\ RequestAt(c, "commands")
         /\ Head(otpCall[c].work) \in KeyNames /\ Tail(otpCall[c].work) \in Seq(KeyNames)
         /\ \A key : Writes(c, key) <=> key = Head(otpCall[c].work) \/ Ahead(Tail(otpCall[c].work), key)
         /\ \A key \in KeyNames : key = Head(otpCall[c].work) =>
              /\ keys' \in KeysRow
              /\ keys'.payload = IF key = "payload" THEN Written(c).payload ELSE keys.payload
              /\ keys'.code = IF key = "code" THEN Written(c).code ELSE keys.code
              /\ keys'.shared = IF key = "shared" THEN Written(c).shared ELSE keys.shared
         /\ UNCHANGED <<codeForm, mailed, account>>
         /\ \E row \in OtpRow : /\ otpCall' = [otpCall EXCEPT ![c] = row] /\ row.stage = "commands"
                                /\ row.job = Job(c) /\ row.form = otpCall[c].form /\ row.code = otpCall[c].code
                                /\ row.typed = otpCall[c].typed /\ row.work = Tail(otpCall[c].work)
  <1>1. /\ otpCall \in [AuthRequests -> OtpRow] /\ otpCall[c] \in OtpRow /\ keys \in KeysRow
        /\ otpCall[c].work # <<>> /\ RequestAt(c, "commands") /\ UNCHANGED <<codeForm, mailed, account>>
    BY DEF Command, CodesInv, RegistrationTyped
  <1>2. otpCall[c].work \in Seq(KeyNames)
    BY <1>1 DEF OtpRow
  <1>3. /\ Head(otpCall[c].work) \in KeyNames /\ Tail(otpCall[c].work) \in Seq(KeyNames)
        /\ \A key : Writes(c, key) <=> key = Head(otpCall[c].work) \/ Ahead(Tail(otpCall[c].work), key)
    BY <1>1, <1>2, CommandTaken DEF Writes
  <1>4. Written(c) \in KeysRow
    <2>1. CASE otpCall[c].job = "store"
      <3>1. /\ otpCall[c].form \in Forms \union {NoForm} /\ otpCall[c].code \in Nat
            /\ [form |-> otpCall[c].form, code |-> otpCall[c].code, stale |-> FALSE] \in SharedRow
        BY <1>1 DEF OtpRow, SharedRow
      <3> QED BY <2>1, <3>1 DEF Written, PayloadOf, KeysRow
    <2>2. CASE otpCall[c].job # "store"
      BY <2>2, FreshRequest DEF Written
    <2> QED BY <2>1, <2>2
  <1>5. ASSUME NEW key \in KeyNames, key = Head(otpCall[c].work)
        PROVE  /\ keys' \in KeysRow
               /\ keys'.payload = IF key = "payload" THEN Written(c).payload ELSE keys.payload
               /\ keys'.code = IF key = "code" THEN Written(c).code ELSE keys.code
               /\ keys'.shared = IF key = "shared" THEN Written(c).shared ELSE keys.shared
    <2>1. keys' = [keys EXCEPT ![key] = Written(c)[key]]
      BY <1>5 DEF Command
    <2> QED BY <1>1, <1>4, <2>1 DEF KeysRow, KeyNames
  <1> DEFINE new == [otpCall[c] EXCEPT !.work = Tail(otpCall[c].work)]
  <1>6. /\ new \in OtpRow /\ new.stage = "commands" /\ new.job = Job(c) /\ new.form = otpCall[c].form
        /\ new.code = otpCall[c].code /\ new.typed = otpCall[c].typed /\ new.work = Tail(otpCall[c].work)
    BY <1>1, <1>3 DEF OtpRow, Job, RequestAt
  <1>7. otpCall' = [otpCall EXCEPT ![c] = new]
    BY <1>1 DEF Command
  <1> HIDE DEF new
  <1> QED
    BY <1>1, <1>3, <1>4, <1>5, <1>6, <1>7

LEMMA CommandKeepsInv ==
  ASSUME CodesInv, NEW c \in AuthRequests, Command(c), CalmKept
  PROVE  CodesInv'
  <1>1. PICK key \in KeyNames : key = Head(otpCall[c].work)
    BY CommandWrites
  <1>2. PICK row \in OtpRow : /\ otpCall' = [otpCall EXCEPT ![c] = row] /\ row.stage = "commands"
                              /\ row.job = Job(c) /\ row.form = otpCall[c].form /\ row.code = otpCall[c].code
                              /\ row.typed = otpCall[c].typed /\ row.work = Tail(otpCall[c].work)
    BY CommandWrites
  <1>3. /\ otpCall \in [AuthRequests -> OtpRow] /\ otpCall[c] \in OtpRow /\ RequestAt(c, "commands")
        /\ \A k : Writes(c, k) <=> k = key \/ Ahead(row.work, k)
        /\ keys' \in KeysRow
        /\ keys'.payload = IF key = "payload" THEN Written(c).payload ELSE keys.payload
        /\ keys'.code = IF key = "code" THEN Written(c).code ELSE keys.code
        /\ keys'.shared = IF key = "shared" THEN Written(c).shared ELSE keys.shared
        /\ UNCHANGED <<codeForm, mailed, account>>
    BY <1>1, <1>2, CommandWrites
  <1>4. otpCall'[c] = row /\ \A d \in AuthRequests \ {c} : otpCall'[d] = otpCall[d]
    BY <1>2, <1>3
  <1>5. FitsKept /\ codeForm' \in Seq(Forms) /\ mailed' \subseteq Nat
    BY <1>3, SameForms DEF CodesInv, RegistrationTyped
  <1>6. RequestOK(c) /\ RequestOK(c)'
    <2>1. RequestOK(c)
      BY DEF CodesInv
    <2> QED BY <1>2, <1>3, <1>4, <1>5, <2>1 DEF RequestOK, RequestAt, Job, Saving, FitsKept
  <1>7. CASE Job(c) # "store"
    <2>1. Written(c) = NoKeys
      BY <1>7 DEF Written, Job
    <2>2. Lapse
      BY <1>3, <2>1 DEF Lapse, NoKeys, NoShared
    <2>3. ~Saving(c) /\ WroteItsOwn(c)' /\ ReadItsPair(c)'
      BY <1>2, <1>4, <1>7 DEF Saving, WroteItsOwn, ReadItsPair, RequestAt, Job
    <2> QED
      BY <1>2, <1>3, <1>5, <1>6, <2>2, <2>3, AccountStands, RequestMoves
  <1>8. CASE Job(c) = "store"
    <2>1. Saving(c) /\ Fits(otpCall[c].code, otpCall[c].form)
      BY <1>3, <1>6, <1>8 DEF Saving, RequestOK
    <2>2. /\ Written(c).payload = otpCall[c].form /\ Written(c).code = otpCall[c].code
          /\ Written(c).shared.form = otpCall[c].form /\ Written(c).shared.code = otpCall[c].code
      BY <1>8 DEF Written, PayloadOf, Job
    <2>3. ASSUME NEW d \in AuthRequests PROVE RequestOK(d)'
      <3>1. CASE d # c
        <4>1. RequestOK(d) /\ otpCall'[d] = otpCall[d]
          BY <1>4, <3>1 DEF CodesInv
        <4> QED BY <1>3, <1>5, <4>1 DEF RequestOK, RequestAt, Job, Saving, FitsKept
      <3> QED BY <1>6, <3>1
    <2>4. calm' \in BOOLEAN /\ (calm' => calm /\ Alone')
      BY <2>3, CalmMeansAlone DEF CodesInv, RegistrationTyped
    <2>5. RegistrationTyped'
      BY <1>2, <1>3, <1>5, <2>4 DEF CodesInv, RegistrationTyped
    <2>6. SharedFits'
      BY <1>3, <1>5, <2>1, <2>2 DEF CodesInv, SharedFits, FitsKept
    <2>7. ASSUME calm PROVE WroteItsOwn(c)'
      <3>1. WroteItsOwn(c)
        BY <2>7 DEF CodesInv, CalmInv
      <3>2. Writes(c, "payload")' \/ keys'.payload \in {otpCall'[c].form, NoForm}
        BY <1>2, <1>3, <1>4, <2>1, <2>2, <3>1 DEF WroteItsOwn, Writes
      <3>3. Writes(c, "code")' \/ keys'.code \in {otpCall'[c].code, 0}
        BY <1>2, <1>3, <1>4, <2>1, <2>2, <3>1 DEF WroteItsOwn, Writes
      <3> QED BY <3>2, <3>3 DEF WroteItsOwn
    <2>8. ASSUME calm, NEW d \in AuthRequests PROVE WroteItsOwn(d)' /\ ReadItsPair(d)'
      <3>1. CASE d = c
        BY <1>2, <1>4, <2>7, <2>8, <3>1 DEF ReadItsPair, RequestAt
      <3>2. CASE d # c
        <4>1. RequestAt(d, "idle")
          BY <1>8, <2>8, <3>2 DEF CodesInv, CalmInv, Alone
        <4>2. RequestAt(d, "idle")'
          BY <1>4, <3>2, <4>1 DEF RequestAt
        <4> QED BY <4>2 DEF WroteItsOwn, ReadItsPair, Saving, RequestAt
      <3> QED BY <3>1, <3>2
    <2>9. ASSUME calm PROVE Paired'
      <3>1. Saving(c)'
        BY <1>2, <1>4, <1>8 DEF Saving, Job, RequestAt
      <3>2. CASE Writes(c, "payload")' \/ Writes(c, "code")'
        BY <3>1, <3>2 DEF Paired
      <3>3. CASE ~Writes(c, "payload")' /\ ~Writes(c, "code")'
        <4>1. keys'.payload \in {otpCall'[c].form, NoForm} /\ keys'.code \in {otpCall'[c].code, 0}
          BY <2>7, <2>9, <3>1, <3>3 DEF WroteItsOwn
        <4>2. otpCall'[c].form = otpCall[c].form /\ otpCall'[c].code = otpCall[c].code
          BY <1>2, <1>4
        <4> QED BY <1>5, <2>1, <4>1, <4>2 DEF Paired, FitsKept
      <3> QED BY <3>2, <3>3
    <2> QED
      BY <1>3, <1>5, <2>3, <2>4, <2>5, <2>6, <2>8, <2>9, AccountStands DEF CodesInv, CalmInv
  <1> QED
    BY <1>7, <1>8

LEMMA DoneKeepsInv ==
  ASSUME CodesInv, NEW c \in AuthRequests, LastCommandDone(c), CalmKept
  PROVE  CodesInv'
  <1>1. /\ Answer(c) /\ UNCHANGED <<keys, codeForm, account>> /\ otpCall[c].work = <<>>
        /\ mailed' \in {mailed, mailed \union {otpCall[c].code}}
    BY DEF LastCommandDone
  <1>2. otpCall[c].code \in Nat /\ mailed \subseteq Nat
    BY DEF CodesInv, RegistrationTyped, OtpRow
  <1>3. ~Writes(c, "payload") /\ ~Writes(c, "code")
    BY <1>1, CommandLists DEF Writes
  <1> QED
    BY <1>1, <1>2, <1>3, NothingLapses, AnswerMoves

\* A storing call that is lost leaves its keys torn: that is not calm.
LEMMA LosingKeepsInv ==
  ASSUME CodesInv, NEW c \in AuthRequests, RequestLost(c), calm' = (calm /\ otpCall[c].job # "store")
  PROVE  CodesInv'
  <1>1. UNCHANGED <<keys, codeForm, mailed, account>> /\ otpCall' = [otpCall EXCEPT ![c] = NoRequest]
    BY DEF RequestLost, Answer
  <1>2. /\ otpCall'[c] = NoRequest /\ NoRequest.stage = "idle" /\ NoRequest.job = "none"
        /\ \A d \in AuthRequests \ {c} : otpCall'[d] = otpCall[d]
    BY <1>1 DEF NoRequest, CodesInv, RegistrationTyped
  <1>3. RegistrationTyped'
    BY <1>1, FreshRequest DEF CodesInv, RegistrationTyped
  <1>4. FitsKept /\ Lapse
    BY <1>1, SameForms, NothingLapses
  <1>5. SharedFits'
    BY <1>1, <1>4 DEF CodesInv, SharedFits, FitsKept
  <1>6. ASSUME NEW d \in AuthRequests PROVE RequestOK(d)' /\ (calm => WroteItsOwn(d)' /\ ReadItsPair(d)')
    <2>1. CASE d = c
      BY <1>2, <2>1 DEF RequestOK, WroteItsOwn, ReadItsPair, RequestAt, Job, Saving
    <2>2. CASE d # c
      BY <1>1, <1>2, <1>4, <2>2, OthersStand
    <2> QED BY <2>1, <2>2
  <1>7. ASSUME calm' PROVE calm /\ Alone' /\ Paired' /\ AccountFits'
    <2>1. calm /\ Job(c) # "store"
      BY <1>7 DEF Job
    <2>2. Alone'
      <3>1. \A d \in AuthRequests : /\ Job(d)' = "store" => Job(d) = "store"
                                    /\ ~RequestAt(d, "idle")' => ~RequestAt(d, "idle")
        BY <1>2 DEF Job, RequestAt, CodesInv, RequestOK
      <3> QED BY <2>1, <3>1 DEF CodesInv, CalmInv, Alone
    <2>3. Paired'
      BY <1>2, <1>4, <2>1, PairedStands DEF Saving
    <2> QED BY <1>1, <1>4, <2>1, <2>2, <2>3, AccountStands
  <1> QED
    BY <1>3, <1>5, <1>6, <1>7 DEF CodesInv, CalmInv

LEMMA CodesStepInv == CodesInv /\ [RegistrationNext]_registrationVars => CodesInv'
  <1> SUFFICES ASSUME CodesInv, [RegistrationNext]_registrationVars PROVE CodesInv'
    OBVIOUS
  <1>1. CASE UNCHANGED registrationVars
    BY <1>1 DEF registrationVars, CodesInv, RegistrationTyped, SharedFits, RequestOK, CalmInv, Alone, Paired,
                AccountFits, WroteItsOwn, ReadItsPair, Fits, Job, Saving, Writes, RequestAt
  <1> QED
    BY <1>1, RegisterKeepsInv, ResendKeepsInv, GenerateKeepsInv, VerifyKeepsInv, ReadingCodesKeepsInv,
       CompareKeepsInv, CountTryKeepsInv, CreatingKeepsInv, LapsingKeepsInv, CommandKeepsInv,
       DoneKeepsInv, LosingKeepsInv DEF RegistrationNext

\* register, resendOtp and verifyEmail, for any number of calls, forms and codes: unless a
\* call that stores a code met another or was lost between its commands, the account has
\* the form that the code its owner typed was mailed for, whichever scheme answered.
THEOREM AccountsOfTheirCodes == RegistrationSpec => []AccountOfItsCode
  BY CodesInitInv, CodesStepInv, CodesInvImplies, PTL DEF RegistrationSpec

\* How often a code is tried, how many codes there are, and the consent, once.
Counting(own) == {c \in AuthRequests : RequestAt(c, "count") /\ otpCall[c].own = own}
Bounded(tries, calls) == tries + Cardinality(calls) < MaxTries + Cardinality(AuthRequests)
TriesBounded == Bounded(keys.tries, Counting(TRUE)) /\ Bounded(keys.sharedTries, Counting(FALSE))

CodesBounded ==
  /\ Len(codeForm) <= MaxCodes
  /\ keys.code <= Len(codeForm) /\ keys.shared.code <= Len(codeForm)
  /\ mailed \subseteq 1..Len(codeForm)

\* A call that has found a form goes on with it.
FormFoundBy(c) == otpCall[c].stage \in {"code", "tries", "count", "create"} => otpCall[c].form # NoForm
ConsentOnce ==
  /\ consents \in {0, 1}
  /\ account.form = NoForm => consents = 0 /\ \A c \in AuthRequests : ~RequestAt(c, "consent")
  /\ \A c, d \in AuthRequests : RequestAt(c, "consent") /\ RequestAt(d, "consent") => c = d
  /\ \A c \in AuthRequests : RequestAt(c, "consent") => consents = 0

RegistrationInv ==
  /\ CodesInv /\ TriesBounded /\ CodesBounded /\ ConsentOnce
  /\ \A c \in AuthRequests : FormFoundBy(c)

LEMMA BoundsKept ==
  ASSUME NEW n \in Nat, NEW m \in Nat, NEW S \in SUBSET AuthRequests, NEW T \in SUBSET AuthRequests
  PROVE  /\ Bounded(n, S) /\ m <= n /\ T \subseteq S => Bounded(m, T)
         /\ m < MaxTries => Bounded(m, T)
         /\ Bounded(n, S) /\ m = n + 1 /\ (\E c \in S : T \subseteq S \ {c}) => Bounded(m, T)
         /\ Bounded(n, S) => n \in 0..(MaxTries + Cardinality(AuthRequests))
  <1>1. IsFiniteSet(AuthRequests) /\ MaxTries \in Nat \ {0}
    BY RegistrationAssumption DEF RegistrationAssumption
  <1>2. /\ Cardinality(S) \in Nat /\ Cardinality(T) \in Nat /\ Cardinality(AuthRequests) \in Nat
        /\ IsFiniteSet(S) /\ Cardinality(T) <= Cardinality(AuthRequests)
    BY <1>1, FS_Subset, FS_CardinalityType
  <1>3. T \subseteq S => Cardinality(T) <= Cardinality(S)
    BY <1>2, FS_Subset
  <1>4. ASSUME NEW c \in S, T \subseteq S \ {c} PROVE Cardinality(T) <= Cardinality(S) - 1
    <2>1. IsFiniteSet(S \ {c}) /\ Cardinality(S \ {c}) = Cardinality(S) - 1
      BY <1>2, FS_RemoveElement
    <2> QED BY <1>4, <2>1, FS_Subset
  <1> QED
    BY <1>1, <1>2, <1>3, <1>4 DEF Bounded

LEMMA RegistrationInvImplies == RegistrationInv => RegistrationTypeOK
  <1> SUFFICES ASSUME RegistrationInv PROVE RegistrationTypeOK
    OBVIOUS
  <1>1. /\ keys \in KeysRow /\ keys.shared \in SharedRow /\ codeForm \in Seq(Forms)
        /\ otpCall \in [AuthRequests -> OtpRow]
    BY DEF RegistrationInv, CodesInv, RegistrationTyped, KeysRow
  <1>2. /\ keys.payload \in Forms \union {NoForm} /\ keys.shared.form \in Forms \union {NoForm}
        /\ keys.code \in Nat /\ keys.shared.code \in Nat /\ keys.tries \in Nat /\ keys.sharedTries \in Nat
    BY <1>1 DEF KeysRow, SharedRow
  <1>3. /\ Len(codeForm) \in Nat /\ DOMAIN codeForm = 1..Len(codeForm) /\ MaxCodes \in Nat
    BY <1>1, RegistrationAssumption DEF RegistrationAssumption
  <1>4. keys.code \in 0..MaxCodes /\ keys.shared.code \in 0..MaxCodes
    BY <1>2, <1>3 DEF RegistrationInv, CodesBounded
  <1>5. /\ keys.tries \in 0..(MaxTries + Cardinality(AuthRequests))
        /\ keys.sharedTries \in 0..(MaxTries + Cardinality(AuthRequests))
    <2>1. \A own : Counting(own) \in SUBSET AuthRequests
      BY DEF Counting
    <2> QED BY <1>2, <2>1, BoundsKept DEF RegistrationInv, TriesBounded
  <1>6. \A c \in AuthRequests : otpCall[c].stage \in OtpStages
    BY <1>1 DEF OtpRow
  <1> QED
    BY <1>2, <1>3, <1>4, <1>5, <1>6 DEF RegistrationTypeOK, RegistrationInv, CodesBounded, ConsentOnce, OtpStages

LEMMA RegistrationInitInv == RegistrationInit => RegistrationInv
  <1> SUFFICES ASSUME RegistrationInit PROVE RegistrationInv
    OBVIOUS
  <1>1. \A c \in AuthRequests : otpCall[c].stage = "idle"
    BY DEF RegistrationInit, NoRequest
  <1>2. keys.tries = 0 /\ keys.sharedTries = 0 /\ keys.code = 0 /\ keys.shared.code = 0
    BY DEF RegistrationInit, NoKeys, NoShared
  <1>3. TriesBounded
    <2>1. 0 < MaxTries /\ \A own : Counting(own) \in SUBSET AuthRequests
      BY RegistrationAssumption DEF RegistrationAssumption, Counting
    <2> QED BY <1>2, <2>1, BoundsKept DEF TriesBounded
  <1>4. CodesBounded
    BY <1>2, RegistrationAssumption DEF RegistrationAssumption, CodesBounded, RegistrationInit
  <1> QED
    BY <1>1, <1>3, <1>4, CodesInitInv DEF RegistrationInv, ConsentOnce, FormFoundBy, RequestAt, RegistrationInit

\* The steps of one call, and what the keys lose by themselves.
OfCall(c) ==
  \/ \E form \in Forms : Len(codeForm) < MaxCodes /\ Register(c, form)
  \/ Command(c) \/ LastCommandDone(c) \/ Resend(c)
  \/ Len(codeForm) < MaxCodes /\ GenerateAgain(c)
  \/ ReadShared(c) \/ ReadCode(c) \/ Compare(c) \/ CountTry(c) \/ CreateUser(c) \/ StoreConsent(c)
  \/ \E typed \in mailed \union {0} : Verify(c, typed)
  \/ RequestLost(c)
Lapses == SharedCodeAges \/ \E key \in DOMAIN NoKeys : KeyLapses(key)

LEMMA StepsOfCalls ==
  [RegistrationNext]_registrationVars =>
     \/ \E c \in AuthRequests : OfCall(c)
     \/ Lapses
     \/ UNCHANGED registrationVars
  BY DEF RegistrationNext, OfCall, Lapses

\* A call only changes its own row; it counts a try after it has compared the codes, and
\* consents after it has made the account.
LEMMA CallGoesOn ==
  ASSUME RegistrationInv, NEW c \in AuthRequests, OfCall(c)
  PROVE  /\ \A d \in AuthRequests \ {c} : otpCall'[d] = otpCall[d]
         /\ FormFoundBy(c)'
         /\ otpCall'[c].stage = "count" => Compare(c) /\ otpCall'[c].own = otpCall[c].own
         /\ otpCall'[c].stage = "consent" => CreateUser(c)
  <1>1. /\ otpCall \in [AuthRequests -> OtpRow] /\ otpCall[c] \in OtpRow /\ FormFoundBy(c)
    BY DEF RegistrationInv, CodesInv, RegistrationTyped
  <1>2. ASSUME NEW row, otpCall' = [otpCall EXCEPT ![c] = row],
               row.stage \in {"code", "tries", "count", "create"} => row.form # NoForm,
               row.stage = "count" => Compare(c) /\ row.own = otpCall[c].own,
               row.stage = "consent" => CreateUser(c)
        PROVE  /\ \A d \in AuthRequests \ {c} : otpCall'[d] = otpCall[d]
               /\ FormFoundBy(c)'
               /\ otpCall'[c].stage = "count" => Compare(c) /\ otpCall'[c].own = otpCall[c].own
               /\ otpCall'[c].stage = "consent" => CreateUser(c)
    BY <1>1, <1>2 DEF FormFoundBy
  <1>3. ASSUME NEW row, otpCall' = [otpCall EXCEPT ![c] = row],
               row.stage \in {"idle", "commands", "lookup", "shared"}
        PROVE  /\ \A d \in AuthRequests \ {c} : otpCall'[d] = otpCall[d]
               /\ FormFoundBy(c)'
               /\ otpCall'[c].stage = "count" => Compare(c) /\ otpCall'[c].own = otpCall[c].own
               /\ otpCall'[c].stage = "consent" => CreateUser(c)
    BY <1>2, <1>3
  <1>4. NoRequest.stage = "idle" /\ \A work : Runs(c, work).stage = "commands"
    BY <1>1 DEF NoRequest, Runs, OtpRow
  <1>5. CASE Answer(c)
    BY <1>3, <1>4, <1>5 DEF Answer
  <1>6. ASSUME NEW work, otpCall' = [otpCall EXCEPT ![c] = Runs(c, work)]
        PROVE  /\ \A d \in AuthRequests \ {c} : otpCall'[d] = otpCall[d]
               /\ FormFoundBy(c)'
               /\ otpCall'[c].stage = "count" => Compare(c) /\ otpCall'[c].own = otpCall[c].own
               /\ otpCall'[c].stage = "consent" => CreateUser(c)
    BY <1>3, <1>4, <1>6
  <1>7. ASSUME NEW form, Register(c, form) \/ Resend(c) \/ GenerateAgain(c) \/ Command(c)
        PROVE  /\ \A d \in AuthRequests \ {c} : otpCall'[d] = otpCall[d]
               /\ FormFoundBy(c)'
               /\ otpCall'[c].stage = "count" => Compare(c) /\ otpCall'[c].own = otpCall[c].own
               /\ otpCall'[c].stage = "consent" => CreateUser(c)
    <2>1. CASE Register(c, form)
      <3> DEFINE row == [NoRequest EXCEPT !.stage = "commands", !.job = "store", !.form = form,
                                          !.code = NewCode, !.work = StoreCommands]
      <3>1. row.stage = "commands" /\ otpCall' = [otpCall EXCEPT ![c] = row]
        BY <2>1 DEF Register, NoRequest
      <3> HIDE DEF row
      <3> QED BY <1>3, <3>1
    <2>2. CASE Resend(c)
      <3> DEFINE row == [NoRequest EXCEPT !.stage = "lookup", !.job = "store"]
      <3>1. row.stage = "lookup" /\ otpCall' = [otpCall EXCEPT ![c] = row]
        BY <2>2 DEF Resend, NoRequest
      <3> HIDE DEF row
      <3> QED BY <1>3, <3>1
    <2>3. CASE GenerateAgain(c) /\ ~Answer(c)
      <3> DEFINE row == [Runs(c, ResendCommands) EXCEPT !.form = FormFound, !.code = NewCode]
      <3>1. row.stage = "commands" /\ otpCall' = [otpCall EXCEPT ![c] = row]
        BY <1>1, <2>3 DEF GenerateAgain, Runs, OtpRow
      <3> HIDE DEF row
      <3> QED BY <1>3, <3>1
    <2>4. CASE Command(c)
      <3> DEFINE row == [otpCall[c] EXCEPT !.work = Tail(otpCall[c].work)]
      <3>1. row.stage = "commands" /\ otpCall' = [otpCall EXCEPT ![c] = row]
        BY <1>1, <2>4 DEF Command, RequestAt, OtpRow
      <3> HIDE DEF row
      <3> QED BY <1>3, <3>1
    <2> QED BY <1>5, <1>7, <2>1, <2>2, <2>3, <2>4
  <1>8. ASSUME NEW typed, Verify(c, typed)
        PROVE  /\ \A d \in AuthRequests \ {c} : otpCall'[d] = otpCall[d]
               /\ FormFoundBy(c)'
               /\ otpCall'[c].stage = "count" => Compare(c) /\ otpCall'[c].own = otpCall[c].own
               /\ otpCall'[c].stage = "consent" => CreateUser(c)
    <2>1. PICK stage \in {"code", "shared"} : stage = IF keys.payload # NoForm THEN "code" ELSE "shared"
      OBVIOUS
    <2> DEFINE row == [NoRequest EXCEPT !.stage = stage, !.job = "verify", !.form = keys.payload, !.typed = typed]
    <2>2. row.stage = stage /\ row.form = keys.payload /\ otpCall' = [otpCall EXCEPT ![c] = row]
      BY <1>8, <2>1 DEF Verify, NoRequest
    <2> HIDE DEF row
    <2> QED BY <1>2, <2>1, <2>2
  <1>9. CASE ReadShared(c) /\ ~Answer(c)
    <2> DEFINE row == [otpCall[c] EXCEPT !.stage = "tries", !.own = FALSE, !.form = keys.shared.form,
                                         !.code = keys.shared.code, !.stale = keys.shared.stale]
    <2>1. /\ row.stage = "tries" /\ row.form # NoForm /\ otpCall' = [otpCall EXCEPT ![c] = row]
      BY <1>1, <1>9 DEF ReadShared, OtpRow
    <2> HIDE DEF row
    <2> QED BY <1>2, <2>1
  <1>10. CASE ReadCode(c) /\ ~Answer(c)
    <2> DEFINE row == [otpCall[c] EXCEPT !.stage = "tries", !.code = keys.code]
    <2>1. /\ row.stage = "tries" /\ row.form # NoForm /\ otpCall' = [otpCall EXCEPT ![c] = row]
      BY <1>1, <1>10 DEF ReadCode, OtpRow, FormFoundBy, RequestAt
    <2> HIDE DEF row
    <2> QED BY <1>2, <2>1
  <1>11. ASSUME NEW stage \in {"create", "count", "consent"}, GoesTo(c, stage),
                stage = "consent" => CreateUser(c), stage # "consent" => Compare(c)
         PROVE  /\ \A d \in AuthRequests \ {c} : otpCall'[d] = otpCall[d]
                /\ FormFoundBy(c)'
                /\ otpCall'[c].stage = "count" => Compare(c) /\ otpCall'[c].own = otpCall[c].own
                /\ otpCall'[c].stage = "consent" => CreateUser(c)
    <2> DEFINE row == [otpCall[c] EXCEPT !.stage = stage]
    <2>1. /\ row.stage = stage /\ row.form = otpCall[c].form /\ row.own = otpCall[c].own
          /\ otpCall' = [otpCall EXCEPT ![c] = row]
      BY <1>1, <1>11 DEF GoesTo, OtpRow
    <2>2. stage # "consent" => otpCall[c].form # NoForm
      BY <1>1, <1>11 DEF Compare, RequestAt, FormFoundBy
    <2> HIDE DEF row
    <2> QED BY <1>2, <1>11, <2>1, <2>2
  <1>12. CASE Compare(c) /\ ~Answer(c)
    <2>1. \/ \E work : otpCall' = [otpCall EXCEPT ![c] = Runs(c, work)]
          \/ \E stage \in {"create", "count"} : GoesTo(c, stage)
      BY <1>12 DEF Compare
    <2> QED BY <1>6, <1>11, <1>12, <2>1
  <1>13. CASE CreateUser(c) /\ ~Answer(c)
    BY <1>11, <1>13 DEF CreateUser
  <1>14. CASE CountTry(c) \/ StoreConsent(c)
    BY <1>6, <1>14 DEF CountTry, StoreConsent
  <1>15. CASE LastCommandDone(c) \/ RequestLost(c)
    BY <1>5, <1>15 DEF LastCommandDone, RequestLost
  <1> QED
    BY <1>5, <1>7, <1>8, <1>9, <1>10, <1>12, <1>13, <1>14, <1>15 DEF OfCall

LEMMA KeyReplaced ==
  ASSUME keys \in KeysRow, NEW row \in KeysRow, NEW key \in KeyNames, keys' = [keys EXCEPT ![key] = row[key]]
  PROVE  /\ keys'.tries \in {keys.tries, row.tries} /\ keys'.sharedTries \in {keys.sharedTries, row.sharedTries}
         /\ keys'.code \in {keys.code, row.code} /\ keys'.shared \in {keys.shared, row.shared}
  BY DEF KeysRow, KeyNames

LEMMA CommandWritesIt ==
  ASSUME RegistrationInv, NEW c \in AuthRequests, Command(c)
  PROVE  /\ Written(c).tries = 0 /\ Written(c).sharedTries = 0
         /\ Written(c).code \in 0..Len(codeForm) /\ Written(c).shared.code \in 0..Len(codeForm)
         /\ Written(c) \in KeysRow
         /\ \E key \in KeyNames : keys' = [keys EXCEPT ![key] = Written(c)[key]]
  <1>1. CodesInv /\ codeForm \in Seq(Forms)
    BY DEF RegistrationInv, CodesInv, RegistrationTyped
  <1>2. Written(c) \in KeysRow /\ Head(otpCall[c].work) \in KeyNames /\ RequestAt(c, "commands")
    BY <1>1, CommandWrites
  <1>3. \E key \in KeyNames : keys' = [keys EXCEPT ![key] = Written(c)[key]]
    BY <1>2 DEF Command
  <1>4. CASE otpCall[c].job = "store"
    <2>1. Fits(otpCall[c].code, otpCall[c].form)
      BY <1>1, <1>2, <1>4 DEF CodesInv, RequestOK, Saving, Job
    <2>2. otpCall[c].code \in 0..Len(codeForm)
      BY <1>1, <2>1 DEF Fits
    <2> QED BY <1>2, <1>3, <1>4, <2>2 DEF Written
  <1>5. CASE otpCall[c].job # "store"
    <2>1. NoKeys.tries = 0 /\ NoKeys.sharedTries = 0 /\ NoKeys.code = 0 /\ NoKeys.shared.code = 0
      BY DEF NoKeys, NoShared
    <2>2. Len(codeForm) \in Nat /\ Written(c) = NoKeys
      BY <1>1, <1>5 DEF Written
    <2>3. 0 \in 0..Len(codeForm)
      BY <2>2
    <2> QED BY <1>2, <1>3, <2>1, <2>2, <2>3
  <1> QED
    BY <1>4, <1>5

\* What the keys lose by themselves.
LEMMA LapseLightens ==
  ASSUME RegistrationInv, Lapses
  PROVE  /\ keys'.tries \in {keys.tries, 0} /\ keys'.sharedTries \in {keys.sharedTries, 0}
         /\ keys'.code \in {keys.code, 0} /\ keys'.shared.code \in {keys.shared.code, 0}
         /\ UNCHANGED <<codeForm, mailed, account, consents, otpCall>>
  <1>1. keys \in KeysRow
    BY DEF RegistrationInv, CodesInv, RegistrationTyped
  <1>2. ASSUME NEW key \in DOMAIN NoKeys, KeyLapses(key)
        PROVE  /\ keys'.tries \in {keys.tries, 0} /\ keys'.sharedTries \in {keys.sharedTries, 0}
               /\ keys'.code \in {keys.code, 0} /\ keys'.shared.code \in {keys.shared.code, 0}
    <2>1. /\ NoKeys.tries = 0 /\ NoKeys.sharedTries = 0 /\ NoKeys.code = 0 /\ NoKeys.shared.code = 0
          /\ NoKeys \in KeysRow /\ key \in KeyNames
      BY FreshRequest DEF NoKeys, NoShared, KeyNames
    <2>2. keys' = [keys EXCEPT ![key] = NoKeys[key]]
      BY <1>2 DEF KeyLapses
    <2>3. /\ keys'.tries \in {keys.tries, NoKeys.tries} /\ keys'.sharedTries \in {keys.sharedTries, NoKeys.sharedTries}
          /\ keys'.code \in {keys.code, NoKeys.code} /\ keys'.shared \in {keys.shared, NoKeys.shared}
      BY <1>1, <2>1, <2>2, KeyReplaced
    <2> QED BY <2>1, <2>3
  <1>3. CASE SharedCodeAges
    <2> DEFINE old == [keys.shared EXCEPT !.stale = TRUE]
    <2>1. old.code = keys.shared.code /\ keys' = [keys EXCEPT !.shared = old]
      BY <1>1, <1>3 DEF SharedCodeAges, KeysRow, SharedRow
    <2> HIDE DEF old
    <2>2. /\ keys'.tries = keys.tries /\ keys'.sharedTries = keys.sharedTries
          /\ keys'.code = keys.code /\ keys'.shared = old
      BY <1>1, <2>1 DEF KeysRow
    <2>3. UNCHANGED <<codeForm, mailed, account, consents, otpCall>>
      BY <1>3 DEF SharedCodeAges
    <2> QED BY <2>1, <2>2, <2>3
  <1> QED
    BY <1>2, <1>3 DEF Lapses, KeyLapses, SharedCodeAges

LEMMA TriesStayBounded ==
  ASSUME RegistrationInv, NEW c \in AuthRequests, OfCall(c)
  PROVE  TriesBounded'
  <1>1. /\ keys \in KeysRow /\ keys.tries \in Nat /\ keys.sharedTries \in Nat
        /\ otpCall \in [AuthRequests -> OtpRow] /\ otpCall[c].own \in BOOLEAN
    BY DEF RegistrationInv, CodesInv, RegistrationTyped, KeysRow, OtpRow
  <1>2. \A own : Counting(own) \in SUBSET AuthRequests /\ Counting(own)' \in SUBSET AuthRequests
    BY DEF Counting
  <1>3. ASSUME NEW own, ~(Compare(c) /\ otpCall'[c].stage = "count" /\ otpCall[c].own = own)
        PROVE  Counting(own)' \subseteq Counting(own) /\ (otpCall'[c].stage # "count" => c \notin Counting(own)')
    BY <1>3, CallGoesOn DEF Counting, RequestAt
  <1>4. Bounded(keys.tries, Counting(TRUE)) /\ Bounded(keys.sharedTries, Counting(FALSE))
    BY DEF RegistrationInv, TriesBounded
  <1>4a. ASSUME NEW n \in Nat, NEW m \in Nat, NEW own \in BOOLEAN, Bounded(n, Counting(own)),
                \/ m <= n /\ Counting(own)' \subseteq Counting(own)
                \/ m = n + 1 /\ \E d \in Counting(own) : Counting(own)' \subseteq Counting(own) \ {d}
                \/ m < MaxTries
         PROVE  Bounded(m, Counting(own)')
    <2> DEFINE S == Counting(own)  T == Counting(own)'
    <2>1. S \in SUBSET AuthRequests /\ T \in SUBSET AuthRequests
      BY <1>2
    <2>2. /\ Bounded(n, S)
          /\ \/ m <= n /\ T \subseteq S
             \/ m = n + 1 /\ \E d \in S : T \subseteq S \ {d}
             \/ m < MaxTries
      BY <1>4a
    <2> HIDE DEF S, T
    <2>3. Bounded(m, T)
      BY <2>1, <2>2, BoundsKept
    <2> QED BY <2>3 DEF T
  <1>5. CASE Compare(c)
    <2>1. UNCHANGED keys
      BY <1>5 DEF Compare
    <2>2. ASSUME otpCall'[c].stage = "count" PROVE keys[Counter(c)] < MaxTries
      <3>1. keys[Counter(c)] \in Nat /\ MaxTries \in Nat
        BY <1>1, RegistrationAssumption DEF Counter, RegistrationAssumption
      <3>2. ~(keys[Counter(c)] >= MaxTries)
        <4>1. ASSUME keys[Counter(c)] >= MaxTries PROVE \E work : otpCall' = [otpCall EXCEPT ![c] = Runs(c, work)]
          <5>1. ~(keys[Counter(c)] < MaxTries)
            BY <3>1, <4>1
          <5> QED BY <1>5, <4>1, <5>1 DEF Compare
        <4>2. \A work : Runs(c, work).stage = "commands"
          BY <1>1 DEF Runs, OtpRow
        <4> QED BY <1>1, <2>2, <4>1, <4>2
      <3> QED BY <3>1, <3>2
    <2>3. Bounded(keys'.tries, Counting(TRUE)')
      <3>1. CASE otpCall'[c].stage = "count" /\ otpCall[c].own
        BY <1>1, <1>4, <1>4a, <2>1, <2>2, <3>1 DEF Counter
      <3>2. CASE ~(otpCall'[c].stage = "count" /\ otpCall[c].own)
        <4>1. Counting(TRUE)' \subseteq Counting(TRUE)
          BY <1>1, <1>3, <3>2
        <4>2. keys.tries <= keys.tries /\ keys.sharedTries <= keys.sharedTries
          BY <1>1
        <4> QED BY <1>1, <1>4, <1>4a, <2>1, <4>1, <4>2
      <3> QED BY <3>1, <3>2
    <2>4. Bounded(keys'.sharedTries, Counting(FALSE)')
      <3>1. CASE otpCall'[c].stage = "count" /\ ~otpCall[c].own
        BY <1>1, <1>4, <1>4a, <2>1, <2>2, <3>1 DEF Counter
      <3>2. CASE ~(otpCall'[c].stage = "count" /\ ~otpCall[c].own)
        <4>1. Counting(FALSE)' \subseteq Counting(FALSE)
          BY <1>1, <1>3, <3>2
        <4>2. keys.tries <= keys.tries /\ keys.sharedTries <= keys.sharedTries
          BY <1>1
        <4> QED BY <1>1, <1>4, <1>4a, <2>1, <4>1, <4>2
      <3> QED BY <3>1, <3>2
    <2> QED BY <2>3, <2>4 DEF TriesBounded
  <1>6. ASSUME ~Compare(c)
        PROVE  /\ Counting(TRUE)' \subseteq Counting(TRUE) /\ Counting(FALSE)' \subseteq Counting(FALSE)
               /\ c \notin Counting(TRUE)' /\ c \notin Counting(FALSE)'
    BY <1>3, <1>6, CallGoesOn
  <1>7. ASSUME ~Compare(c), keys'.tries \in {keys.tries, 0}, keys'.sharedTries \in {keys.sharedTries, 0}
        PROVE  TriesBounded'
    <2>1. /\ keys'.tries \in Nat /\ keys'.tries <= keys.tries
          /\ keys'.sharedTries \in Nat /\ keys'.sharedTries <= keys.sharedTries
      BY <1>1, <1>7
    <2> QED BY <1>1, <1>4, <1>6, <1>7, <1>4a, <2>1 DEF TriesBounded
  <1>8. CASE CountTry(c) /\ ~Compare(c)
    <2>1. c \in Counting(otpCall[c].own) /\ keys' = [keys EXCEPT ![Counter(c)] = keys[Counter(c)] + 1]
      BY <1>8 DEF CountTry, Counting, RequestAt
    <2>2. CASE otpCall[c].own
      <3>1. Counter(c) = "tries" /\ keys'.tries = keys.tries + 1 /\ keys'.sharedTries = keys.sharedTries
        BY <1>1, <2>1, <2>2 DEF Counter, KeysRow
      <3>2. Counting(TRUE)' \subseteq Counting(TRUE) \ {c} /\ c \in Counting(TRUE)
        BY <1>1, <1>6, <1>8, <2>1, <2>2
      <3>3. keys.tries + 1 \in Nat /\ keys.sharedTries <= keys.sharedTries
        BY <1>1
      <3>4. Bounded(keys'.tries, Counting(TRUE)')
        BY <1>1, <1>4, <1>4a, <3>1, <3>2, <3>3
      <3>5. Bounded(keys'.sharedTries, Counting(FALSE)')
        BY <1>1, <1>4, <1>6, <1>8, <1>4a, <3>1, <3>3
      <3> QED BY <3>4, <3>5 DEF TriesBounded
    <2>3. CASE ~otpCall[c].own
      <3>1. Counter(c) = "sharedTries" /\ keys'.sharedTries = keys.sharedTries + 1 /\ keys'.tries = keys.tries
        BY <1>1, <2>1, <2>3 DEF Counter, KeysRow
      <3>2. Counting(FALSE)' \subseteq Counting(FALSE) \ {c} /\ c \in Counting(FALSE)
        BY <1>1, <1>6, <1>8, <2>1, <2>3
      <3>3. keys.sharedTries + 1 \in Nat /\ keys.tries <= keys.tries
        BY <1>1
      <3>4. Bounded(keys'.sharedTries, Counting(FALSE)')
        BY <1>1, <1>4, <1>4a, <3>1, <3>2, <3>3
      <3>5. Bounded(keys'.tries, Counting(TRUE)')
        BY <1>1, <1>4, <1>6, <1>8, <1>4a, <3>1, <3>3
      <3> QED BY <3>4, <3>5 DEF TriesBounded
    <2> QED BY <2>2, <2>3
  <1>9. CASE Command(c) /\ ~Compare(c)
    BY <1>1, <1>7, <1>9, CommandWritesIt, KeyReplaced
  <1>10. ASSUME UNCHANGED keys, ~Compare(c) PROVE TriesBounded'
    BY <1>7, <1>10
  <1> QED
    BY <1>5, <1>8, <1>9, <1>10
       DEF OfCall, Register, LastCommandDone, Resend, GenerateAgain, ReadShared, ReadCode, CreateUser, StoreConsent,
           Verify, RequestLost

LEMMA CodesStayBounded ==
  ASSUME RegistrationInv, NEW c \in AuthRequests, OfCall(c)
  PROVE  CodesBounded'
  <1>1. /\ keys \in KeysRow /\ keys.shared \in SharedRow /\ codeForm \in Seq(Forms) /\ Len(codeForm) \in Nat
        /\ keys.code \in Nat /\ keys.shared.code \in Nat /\ DOMAIN codeForm = 1..Len(codeForm)
        /\ CodesInv /\ CodesBounded /\ MaxCodes \in Nat
    BY RegistrationAssumption
       DEF RegistrationInv, CodesInv, RegistrationTyped, KeysRow, SharedRow, RegistrationAssumption
  <1>2. ASSUME NEW form \in Forms, codeForm' = Append(codeForm, form), Len(codeForm) < MaxCodes,
               UNCHANGED <<keys, mailed>>
        PROVE  CodesBounded'
    <2>1. Len(codeForm') = Len(codeForm) + 1
      BY <1>1, <1>2
    <2>2. /\ Len(codeForm) + 1 <= MaxCodes
          /\ keys.code <= Len(codeForm) + 1 /\ keys.shared.code <= Len(codeForm) + 1
          /\ \A m \in 1..Len(codeForm) : m \in 1..(Len(codeForm) + 1)
      BY <1>1, <1>2 DEF CodesBounded
    <2> QED BY <1>1, <1>2, <2>1, <2>2 DEF CodesBounded
  <1>3. CASE \E form \in Forms : Len(codeForm) < MaxCodes /\ Register(c, form)
    BY <1>2, <1>3 DEF Register
  <1>4. CASE Len(codeForm) < MaxCodes /\ GenerateAgain(c)
    <2>1. CASE FormFound = NoForm
      BY <1>1, <1>4, <2>1 DEF GenerateAgain, CodesBounded
    <2>2. CASE FormFound # NoForm
      <3>1. FormFound \in Forms
        BY <1>1, <2>2 DEF FormFound, KeysRow, SharedRow
      <3> QED BY <1>2, <1>4, <2>2, <3>1 DEF GenerateAgain
    <2> QED BY <2>1, <2>2
  <1>5. CASE Command(c)
    <2>1. /\ Written(c) \in KeysRow /\ Written(c).code \in 0..Len(codeForm)
          /\ Written(c).shared.code \in 0..Len(codeForm)
          /\ \E key \in KeyNames : keys' = [keys EXCEPT ![key] = Written(c)[key]]
      BY <1>5, CommandWritesIt
    <2>2. keys'.code \in {keys.code, Written(c).code} /\ keys'.shared \in {keys.shared, Written(c).shared}
      BY <1>1, <2>1, KeyReplaced
    <2>3. keys'.code <= Len(codeForm) /\ keys'.shared.code <= Len(codeForm)
      BY <1>1, <2>1, <2>2 DEF CodesBounded
    <2> QED BY <1>1, <1>5, <2>3 DEF Command, CodesBounded
  <1>6. CASE LastCommandDone(c)
    <2>1. otpCall[c].job = "store" => otpCall[c].code \in 1..Len(codeForm)
      BY <1>1, <1>6 DEF LastCommandDone, CodesInv, RequestOK, Saving, Job, Fits
    <2>2. mailed' \subseteq 1..Len(codeForm) /\ UNCHANGED <<keys, codeForm>>
      BY <1>1, <1>6, <2>1 DEF LastCommandDone, CodesBounded
    <2> QED BY <1>1, <2>2 DEF CodesBounded
  <1>7. CASE CountTry(c)
    <2>1. keys' = [keys EXCEPT ![Counter(c)] = keys[Counter(c)] + 1] /\ UNCHANGED <<codeForm, mailed>>
      BY <1>7 DEF CountTry
    <2>2. keys'.code = keys.code /\ keys'.shared = keys.shared
      BY <1>1, <2>1 DEF Counter, KeysRow
    <2> QED BY <1>1, <2>1, <2>2 DEF CodesBounded
  <1>8. ASSUME UNCHANGED <<keys, codeForm, mailed>> PROVE CodesBounded'
    BY <1>1, <1>8 DEF CodesBounded
  <1> QED
    BY <1>3, <1>4, <1>5, <1>6, <1>7, <1>8
       DEF OfCall, Resend, ReadShared, ReadCode, Compare, CreateUser, StoreConsent, Verify, RequestLost

\* The account is made once, and whoever made it stores the consent.
LEMMA ConsentStaysOnce ==
  ASSUME RegistrationInv, NEW c \in AuthRequests, OfCall(c)
  PROVE  ConsentOnce'
  <1>1. /\ ConsentOnce /\ FormFoundBy(c) /\ otpCall \in [AuthRequests -> OtpRow] /\ otpCall[c] \in OtpRow
        /\ account \in [form : Forms \union {NoForm}, code : Nat]
    BY DEF RegistrationInv, CodesInv, RegistrationTyped
  <1>2. ASSUME NEW d \in AuthRequests, RequestAt(d, "consent")' PROVE RequestAt(d, "consent") \/ (d = c /\ CreateUser(c))
    BY <1>2, CallGoesOn DEF RequestAt
  <1>3. CASE CreateUser(c) /\ ~Answer(c)
    <2>1. account.form = NoForm /\ UNCHANGED consents /\ account'.form = otpCall[c].form /\ otpCall[c].form # NoForm
      BY <1>1, <1>3 DEF CreateUser, RequestAt, FormFoundBy
    <2>2. consents = 0 /\ \A d \in AuthRequests : RequestAt(d, "consent")' => d = c
      BY <1>1, <1>2, <2>1 DEF ConsentOnce
    <2> QED BY <2>1, <2>2 DEF ConsentOnce
  <1>4. ASSUME UNCHANGED <<account, consents>>, ~CreateUser(c) \/ Answer(c) PROVE ConsentOnce'
    <2>1. \A d \in AuthRequests : RequestAt(d, "consent")' => RequestAt(d, "consent")
      <3>1. Answer(c) => ~RequestAt(c, "consent")'
        BY <1>1 DEF Answer, NoRequest, RequestAt
      <3> QED BY <1>2, <1>4, <3>1
    <2> QED BY <1>1, <1>4, <2>1 DEF ConsentOnce
  <1>5. CASE StoreConsent(c)
    <2>1. RequestAt(c, "consent") /\ UNCHANGED account /\ consents' = consents + 1 /\ ~RequestAt(c, "consent")'
      <3>1. ClearCommands \in Seq(KeyNames) /\ Runs(c, ClearCommands).stage = "commands"
        BY <1>1, CommandLists DEF Runs, OtpRow
      <3> QED BY <1>1, <1>5, <3>1 DEF StoreConsent, RequestAt
    <2>2. consents = 0 /\ consents' = 1 /\ account.form # NoForm
      BY <1>1, <2>1 DEF ConsentOnce
    <2>3. ~CreateUser(c)
      BY <2>1 DEF CreateUser, RequestAt
    <2>4. \A d \in AuthRequests : ~RequestAt(d, "consent")'
      BY <1>1, <1>2, <2>1, <2>3 DEF ConsentOnce
    <2> QED BY <2>1, <2>2, <2>4 DEF ConsentOnce
  <1>6. CASE CreateUser(c) /\ Answer(c)
    <2>1. ~GoesTo(c, "consent")
      <3>1. otpCall'[c].stage = "idle"
        BY <1>1, <1>6 DEF Answer, NoRequest
      <3>2. GoesTo(c, "consent") => otpCall'[c].stage = "consent"
        BY <1>1 DEF GoesTo, OtpRow
      <3> QED BY <3>1, <3>2
    <2>2. UNCHANGED <<account, consents>>
      BY <1>6, <2>1 DEF CreateUser
    <2> QED BY <1>4, <1>6, <2>2
  <1> QED
    BY <1>3, <1>4, <1>5, <1>6
       DEF OfCall, Register, Command, LastCommandDone, Resend, GenerateAgain, ReadShared, ReadCode, Compare,
           CountTry, Verify, RequestLost

LEMMA RegistrationStepInv == RegistrationInv /\ [RegistrationNext]_registrationVars => RegistrationInv'
  <1> SUFFICES ASSUME RegistrationInv, [RegistrationNext]_registrationVars PROVE RegistrationInv'
    OBVIOUS
  <1>1. CodesInv'
    BY CodesStepInv DEF RegistrationInv
  <1>2. ASSUME NEW c \in AuthRequests, OfCall(c) PROVE RegistrationInv'
    <2>1. \A d \in AuthRequests : FormFoundBy(d)'
      BY <1>2, CallGoesOn DEF RegistrationInv, FormFoundBy
    <2> QED BY <1>1, <1>2, <2>1, TriesStayBounded, CodesStayBounded, ConsentStaysOnce DEF RegistrationInv
  <1>3. CASE Lapses
    <2>1. /\ keys'.tries \in {keys.tries, 0} /\ keys'.sharedTries \in {keys.sharedTries, 0}
          /\ keys'.code \in {keys.code, 0} /\ keys'.shared.code \in {keys.shared.code, 0}
          /\ UNCHANGED <<codeForm, mailed, account, consents, otpCall>>
      BY <1>3, LapseLightens
    <2>2. /\ keys.tries \in Nat /\ keys.sharedTries \in Nat /\ codeForm \in Seq(Forms) /\ Len(codeForm) \in Nat
          /\ \A own : Counting(own) \in SUBSET AuthRequests /\ Counting(own)' = Counting(own)
      BY <2>1 DEF RegistrationInv, CodesInv, RegistrationTyped, KeysRow, Counting, RequestAt
    <2>3. /\ keys'.tries \in Nat /\ keys'.tries <= keys.tries
          /\ keys'.sharedTries \in Nat /\ keys'.sharedTries <= keys.sharedTries
      BY <2>1, <2>2
    <2>4. Bounded(keys'.tries, Counting(TRUE)) /\ Bounded(keys'.sharedTries, Counting(FALSE))
      <3>1. Bounded(keys.tries, Counting(TRUE)) /\ Bounded(keys.sharedTries, Counting(FALSE))
        BY DEF RegistrationInv, TriesBounded
      <3>2. ASSUME NEW n \in Nat, NEW m \in Nat, NEW S \in SUBSET AuthRequests, m <= n, Bounded(n, S)
            PROVE  Bounded(m, S)
        <4>1. S \subseteq S
          OBVIOUS
        <4> QED BY <3>2, <4>1, BoundsKept
      <3> QED BY <2>2, <2>3, <3>1, <3>2
    <2>5. TriesBounded'
      BY <2>2, <2>4 DEF TriesBounded
    <2>6. CodesBounded'
      BY <2>1, <2>2 DEF RegistrationInv, CodesBounded
    <2>7. ConsentOnce' /\ \A c \in AuthRequests : FormFoundBy(c)'
      BY <2>1 DEF RegistrationInv, ConsentOnce, FormFoundBy, RequestAt
    <2> QED BY <1>1, <2>5, <2>6, <2>7 DEF RegistrationInv
  <1>4. CASE UNCHANGED registrationVars
    BY <1>1, <1>4 DEF registrationVars, RegistrationInv, TriesBounded, Bounded, Counting, CodesBounded, ConsentOnce,
                      FormFoundBy, RequestAt
  <1> QED
    BY <1>2, <1>3, <1>4, StepsOfCalls

\* OtpService's keys and calls keep their types for any number of forms, calls and codes: a
\* counter passes the limit by at most the calls that compare at once, every code mailed or
\* stored was generated, and the consent is stored once.
THEOREM RegistrationTyping == RegistrationSpec => []RegistrationTypeOK
  BY RegistrationInitInv, RegistrationStepInv, RegistrationInvImplies, PTL DEF RegistrationSpec
=============================================================================
