------------------------ MODULE PasswordReset_proofs ------------------------
(***************************************************************************)
(* PasswordReset: the inductive invariant and what follows from it, for    *)
(* any number of accounts, tokens and resets.                              *)
(***************************************************************************)
EXTENDS PasswordReset, TLAPS

\* The invariant holds at the start.
LEMMA InitIndInv == Init => IndInv
  BY DEF Init, IndInv, TypeOK, AccountRow, Slot, Idle, TokenUsedOnce, UsedTokenIsDead,
         LatestTokenStays, RowInv, HolderInv, At

\* A token just generated is in no row, in no request and has not been used.
LEMMA FreshToken ==
    ASSUME IndInv, NEW t \in Tokens, issued[t] = None
    PROVE  /\ t \notin used
           /\ \A a \in Accounts : account[a].token # t /\ latest[a] # t
           /\ \A r \in Requests : At(r, "save") => req[r].token # t
  BY PasswordResetAssumption DEF IndInv, TypeOK, AccountRow, Slot, RowInv, HolderInv

\* Storing a new token keeps the invariant.
LEMMA ForgotStep ==
    ASSUME IndInv, NEW a \in Accounts, NEW t \in Tokens, ForgotPassword(a, t)
    PROVE  IndInv'
<1> USE PasswordResetAssumption
<1>1. /\ issued[t] = None
      /\ issued' = [issued EXCEPT ![t] = a]
      /\ latest' = [latest EXCEPT ![a] = t]
      /\ crossed' = IF InFlight(a) THEN crossed \cup {a} ELSE crossed \ {a}
      /\ account' = [account EXCEPT ![a] = [@ EXCEPT !.token = t, !.expired = FALSE]]
      /\ UNCHANGED <<req, used, again, shared>>
  BY DEF ForgotPassword, Generate
<1>2. /\ t \notin used
      /\ \A x \in Accounts : account[x].token # t /\ latest[x] # t
      /\ \A r \in Requests : At(r, "save") => req[r].token # t
  BY <1>1, FreshToken
<1>3. /\ account \in [Accounts -> AccountRow] /\ issued \in [Tokens -> Accounts \cup {None}]
      /\ latest \in [Accounts -> Tokens \cup {None}] /\ req \in [Requests -> Slot]
  BY DEF IndInv, TypeOK
<1>4. account'[a].token = t /\ \A x \in Accounts \ {a} : account'[x] = account[x]
  BY <1>1, <1>3 DEF AccountRow
<1>5. TypeOK'
  BY <1>1, <1>3 DEF IndInv, TypeOK, AccountRow
<1>6. TokenUsedOnce'
  BY <1>1 DEF IndInv, TokenUsedOnce
<1>7. UsedTokenIsDead'
  BY <1>1, <1>2, <1>4 DEF IndInv, UsedTokenIsDead
<1>8. LatestTokenStays'
  BY <1>1, <1>3, <1>4 DEF IndInv, LatestTokenStays
<1>9. \A u \in used' : issued'[u] # None
  BY <1>1, <1>3 DEF IndInv, TypeOK
<1>10. ASSUME NEW x \in Accounts PROVE RowInv(x)'
  BY <1>1, <1>2, <1>3, <1>4 DEF IndInv, RowInv, AccountRow
<1>11. ASSUME NEW r \in Requests PROVE HolderInv(r)'
  <2>1. At(r, "save") => req[r].token \in Tokens /\ req[r].token # t
    BY <1>2, <1>3 DEF IndInv, HolderInv, Slot
  <2>2. At(r, "save") /\ req[r].account = a => a \in crossed'
    BY <1>1 DEF InFlight
  <2>3. At(r, "save") /\ req[r].account # a => latest'[req[r].account] = latest[req[r].account]
    BY <1>1, <1>3 DEF IndInv, HolderInv
  <2> QED
    BY <1>1, <1>3, <2>1, <2>2, <2>3 DEF IndInv, HolderInv, At
<1> QED BY <1>5, <1>6, <1>7, <1>8, <1>9, <1>10, <1>11 DEF IndInv

\* So does finding the row of a token.
LEMMA FindStep ==
    ASSUME IndInv, NEW a \in Accounts, NEW t \in Tokens, NEW r \in Requests, ResetFind(r, a, t)
    PROVE  IndInv'
<1> USE PasswordResetAssumption
<1>1. /\ account[a].token = t /\ At(r, "idle")
      /\ req' = [req EXCEPT ![r] = [at |-> "save", token |-> t, account |-> a]]
      /\ shared' = IF \E q \in Requests : req[q].token = t THEN shared \cup {t} ELSE shared
      /\ UNCHANGED <<account, issued, latest, crossed, used, again>>
  BY DEF ResetFind, Hold
<1>2. issued[t] = a /\ t = latest[a] /\ t \notin used /\ t # None
  BY <1>1 DEF IndInv, RowInv, UsedTokenIsDead
<1>3. TypeOK'
  BY <1>1 DEF IndInv, TypeOK, Slot
<1>4. /\ TokenUsedOnce' /\ UsedTokenIsDead' /\ LatestTokenStays'
      /\ \A u \in used' : issued'[u] # None
      /\ \A x \in Accounts : RowInv(x)'
  BY <1>1 DEF IndInv, TokenUsedOnce, UsedTokenIsDead, LatestTokenStays, RowInv
<1>5. req \in [Requests -> Slot]
  BY DEF IndInv, TypeOK
<1>6. req'[r] = [at |-> "save", token |-> t, account |-> a]
      /\ \A q \in Requests \ {r} : req'[q] = req[q]
  BY <1>1, <1>5
<1>7. ASSUME NEW q \in Requests, q # r, req[q].token = t PROVE t \in shared'
  BY <1>1, <1>7
<1>8. ASSUME NEW q \in Requests PROVE HolderInv(q)'
  <2>1. CASE q = r
    BY <1>1, <1>2, <1>6, <1>7, <2>1 DEF HolderInv, At
  <2>2. CASE q # r
    BY <1>1, <1>2, <1>6, <1>7, <2>2 DEF IndInv, HolderInv, At
  <2> QED BY <2>1, <2>2
<1> QED BY <1>3, <1>4, <1>8 DEF IndInv

\* So does writing the new password.
LEMMA SaveStep ==
    ASSUME IndInv, NEW r \in Requests, ResetSave(r)
    PROVE  IndInv'
<1> USE PasswordResetAssumption
<1> DEFINE a == req[r].account
           t == req[r].token
<1>1. /\ At(r, "save")
      /\ account' = [account EXCEPT ![a] = [token |-> None, expired |-> FALSE, password |-> t]]
      /\ used' = used \cup {t}
      /\ again' = IF t \in used THEN again \cup {t} ELSE again
      /\ req' = [req EXCEPT ![r] = Idle]
      /\ UNCHANGED <<issued, latest, crossed, shared>>
  BY DEF ResetSave, Count, Finish
<1>2. /\ t \in Tokens /\ a \in Accounts /\ issued[t] = a
      /\ a \notin crossed => t = latest[a]
      /\ t \in used => t \in shared
      /\ \A q \in Requests : At(q, "save") /\ req[q].token = t => q = r \/ t \in shared
  BY <1>1 DEF IndInv, TypeOK, Slot, HolderInv
<1>3. account \in [Accounts -> AccountRow] /\ req \in [Requests -> Slot]
  BY DEF IndInv, TypeOK
<1> HIDE DEF a, t
<1>4. /\ account'[a].token = None
      /\ \A x \in Accounts \ {a} : account'[x] = account[x]
      /\ req'[r] = Idle
      /\ \A q \in Requests \ {r} : req'[q] = req[q]
  BY <1>1, <1>2, <1>3
<1>5. TypeOK'
  BY <1>1, <1>2, <1>3 DEF IndInv, TypeOK, AccountRow, Slot, Idle
<1>6. TokenUsedOnce'
  BY <1>1, <1>2 DEF IndInv, TokenUsedOnce
<1>7. UsedTokenIsDead'
  <2>1. ASSUME NEW x \in Accounts, x # a PROVE account[x].token # t
    BY <1>2, <2>1 DEF IndInv, RowInv
  <2>2. None \notin used'
    BY <1>1, <1>2 DEF IndInv, TypeOK
  <2> QED BY <1>1, <1>4, <2>1, <2>2 DEF IndInv, UsedTokenIsDead
<1>8. LatestTokenStays'
  BY <1>1, <1>2, <1>4 DEF IndInv, LatestTokenStays
<1>9. \A u \in used' : issued'[u] # None
  BY <1>1, <1>2 DEF IndInv
<1>10. ASSUME NEW x \in Accounts PROVE RowInv(x)'
  BY <1>1, <1>4 DEF IndInv, RowInv
<1>11. ASSUME NEW q \in Requests PROVE HolderInv(q)'
  <2>1. CASE q = r
    BY <1>4, <2>1 DEF HolderInv, At, Idle
  <2>2. CASE q # r
    <3>1. req'[q] = req[q] /\ HolderInv(q)
      BY <1>4, <2>2 DEF IndInv
    <3>2. At(q, "save") /\ req[q].token \in used' => req[q].token \in shared
      BY <1>1, <1>2, <2>2, <3>1 DEF HolderInv
    <3>3. \A p \in Requests : At(p, "save")' => At(p, "save") /\ req'[p] = req[p]
      BY <1>4 DEF At, Idle
    <3> QED BY <1>1, <3>1, <3>2, <3>3 DEF HolderInv, At
  <2> QED BY <2>1, <2>2
<1> QED BY <1>5, <1>6, <1>7, <1>8, <1>9, <1>10, <1>11 DEF IndInv

\* So do the passing of an hour and a crash.
LEMMA QuietStep ==
    ASSUME IndInv,
           (\E a \in Accounts : Expire(a)) \/ (\E r \in Requests : Crash(r))
    PROVE  IndInv'
<1>1. ASSUME NEW a \in Accounts, Expire(a) PROVE IndInv'
  <2>1. account \in [Accounts -> AccountRow]
    BY DEF IndInv, TypeOK
  <2>2. account' \in [Accounts -> AccountRow]
        /\ \A x \in Accounts : account'[x].token = account[x].token
    BY <1>1, <2>1 DEF Expire, AccountRow
  <2> QED
    BY <1>1, <2>2
       DEF Expire, IndInv, TypeOK, TokenUsedOnce, UsedTokenIsDead, LatestTokenStays, RowInv,
           HolderInv, At
<1>2. ASSUME NEW r \in Requests, Crash(r) PROVE IndInv'
  <2>1. req' = [req EXCEPT ![r] = Idle] /\ req \in [Requests -> Slot]
        /\ UNCHANGED <<account, issued, latest, crossed, used, again, shared>>
    BY <1>2 DEF Crash, Finish, IndInv, TypeOK
  <2>2. TypeOK'
    BY <2>1 DEF IndInv, TypeOK, Slot, Idle
  <2>3. ASSUME NEW q \in Requests PROVE HolderInv(q)'
    <3>1. \A p \in Requests : At(p, "save")' => At(p, "save") /\ req'[p] = req[p]
      BY <2>1 DEF At, Idle
    <3>2. req'[q] = Idle \/ req'[q] = req[q]
      BY <2>1
    <3> QED BY <2>1, <3>1, <3>2 DEF IndInv, HolderInv, At, Idle
  <2> QED
    BY <2>1, <2>2, <2>3
       DEF IndInv, TokenUsedOnce, UsedTokenIsDead, LatestTokenStays, RowInv
<1> QED BY <1>1, <1>2

\* So does every step.
LEMMA NextIndInv == IndInv /\ [Next]_vars => IndInv'
<1> SUFFICES ASSUME IndInv, [Next]_vars PROVE IndInv'
  OBVIOUS
<1>1. CASE UNCHANGED vars
  BY <1>1
     DEF vars, IndInv, TypeOK, TokenUsedOnce, UsedTokenIsDead, LatestTokenStays, RowInv,
         HolderInv, At
<1>2. CASE Next
  BY <1>2, ForgotStep, FindStep, SaveStep, QuietStep DEF Next
<1> QED BY <1>1, <1>2

\* Rows and requests agree on whose token is whose and which one is the last.
THEOREM Agreement == Spec => []IndInv
<1> QED BY InitIndInv, NextIndInv, PTL DEF Spec

\* Rows, requests and histories keep the columns and values of the code.
THEOREM Typed == Spec => []TypeOK
<1>1. IndInv => TypeOK
  BY DEF IndInv
<1> QED BY <1>1, Agreement, PTL

\* resetPassword uses a token once, unless two resets hold it at once.
THEOREM SingleUse == Spec => []TokenUsedOnce
<1>1. IndInv => TokenUsedOnce
  BY DEF IndInv
<1> QED BY <1>1, Agreement, PTL

\* A used token is on no row.
THEOREM UsedIsDead == Spec => []UsedTokenIsDead
<1>1. IndInv => UsedTokenIsDead
  BY DEF IndInv
<1> QED BY <1>1, Agreement, PTL

\* The last token stays on its row until it is used, unless an older one was under
\* way when it was stored.
THEOREM LastStays == Spec => []LatestTokenStays
<1>1. IndInv => LatestTokenStays
  BY DEF IndInv
<1> QED BY <1>1, Agreement, PTL

\* Passwords are written with the last token, with the same exception.
THEOREM LastResets == Spec => OnlyLatestResets
<1>1. IndInv /\ [Next]_vars
        => [\A r \in Requests :
              ResetSave(r) /\ req[r].account \notin crossed
                => req[r].token = latest[req[r].account]]_vars
  BY DEF IndInv, HolderInv, ResetSave
<1> QED BY <1>1, Agreement, PTL DEF Spec, OnlyLatestResets
=============================================================================
