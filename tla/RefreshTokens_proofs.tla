------------------------- MODULE RefreshTokens_proofs -------------------------
(***************************************************************************)
(* One usable refresh token per session, and no session comes back to      *)
(* life, for any number of tokens, sessions and concurrent requests.       *)
(***************************************************************************)
EXTENDS RefreshTokens, TLAPS

LEMMA InitInv == Init => IndInv
BY NoneAssumption
   DEF Init, IndInv, TypeOK, TokenRow, NoRow, Slot, Idle, OneLiveTokenPerFamily, Live, RotationInv, At

\* Slots and rows after the steps of a request.
LEMMA FinishSlot ==
    ASSUME TypeOK, NEW r \in Requests, Finish(r)
    PROVE  /\ req' \in [Requests -> Slot]
           /\ req'[r].pc = "idle"
           /\ \A q \in Requests : q # r => req'[q] = req[q]
BY DEF TypeOK, Finish, Idle, Slot

LEMMA GotoSlot ==
    ASSUME TypeOK, NEW r \in Requests, NEW pc \in {"issue", "revoke"}, Goto(r, pc)
    PROVE  /\ req' \in [Requests -> Slot]
           /\ req'[r].pc = pc /\ req'[r].token = req[r].token /\ req'[r].family = req[r].family
           /\ \A q \in Requests : q # r => req'[q] = req[q]
BY DEF TypeOK, Goto, Slot

LEMMA RevokeRow ==
    ASSUME TypeOK, NEW t \in Tokens, Revoke(t)
    PROVE  /\ token' \in [Tokens -> TokenRow]
           /\ token'[t].status = "revoked" /\ token'[t].family = token[t].family
           /\ \A u \in Tokens : u # t => token'[u] = token[u]
BY DEF TypeOK, Revoke, TokenRow

LEMMA CreateRow ==
    ASSUME TypeOK, NEW t \in Tokens, NEW f \in Families, Create(t, f)
    PROVE  /\ token' \in [Tokens -> TokenRow]
           /\ token'[t].status = "live" /\ token'[t].family = f
           /\ \A u \in Tokens : u # t => token'[u] = token[u]
BY DEF TypeOK, Create, TokenRow

\* A step that at most revokes or deletes rows and starts no rotation is harmless.
LEMMA Shrinks ==
    ASSUME IndInv, TypeOK',
           \A t \in Tokens : \/ token'[t].status = "none"
                             \/ /\ token[t].status # "none" /\ token'[t].family = token[t].family
                                /\ Live(t)' => Live(t),
           \A r \in Requests : req'[r] = req[r] \/ req'[r].pc = "idle"
    PROVE  IndInv'
<1>1. \A t \in Tokens : token'[t].status # "none" => token'[t].family \in Families
  BY DEF IndInv
<1>2. OneLiveTokenPerFamily'
  BY DEF IndInv, OneLiveTokenPerFamily, Live
<1>3. ASSUME NEW r \in Requests PROVE RotationInv(r)'
  <2>1. CASE req'[r].pc = "idle"
    BY <2>1 DEF RotationInv, At
  <2>2. CASE req'[r] = req[r]
    <3>1. RotationInv(r) BY DEF IndInv
    <3> QED BY <2>2, <3>1 DEF RotationInv, At, Live
  <2> QED BY <2>1, <2>2
<1> QED BY <1>1, <1>2, <1>3 DEF IndInv

LEMMA LoginStep ==
    ASSUME IndInv, NEW t \in Tokens, NEW f \in Families, Login(t, f) PROVE IndInv'
<1> TypeOK BY DEF IndInv
<1>1. /\ token' \in [Tokens -> TokenRow]
      /\ token'[t].status = "live" /\ token'[t].family = f
      /\ \A u \in Tokens : u # t => token'[u] = token[u]
  BY CreateRow DEF Login
<1>2. TypeOK'
  BY <1>1 DEF Login, TypeOK
<1>3. \A u \in Tokens : token'[u].status # "none" => token'[u].family \in Families
  BY <1>1 DEF IndInv
<1>4. OneLiveTokenPerFamily'
  BY <1>1 DEF Login, FreshFamily, IndInv, OneLiveTokenPerFamily, Live
<1>5. ASSUME NEW r \in Requests PROVE RotationInv(r)'
  <2>1. RotationInv(r) /\ req[r].family # f /\ req[r].token # t
    BY DEF IndInv, Login, FreshFamily, FreshToken
  <2> QED BY <1>1, <2>1 DEF Login, RotationInv, At, Live
<1> QED BY <1>2, <1>3, <1>4, <1>5 DEF IndInv

LEMMA RefreshFindStep ==
    ASSUME IndInv, NEW r \in Requests, NEW t \in Tokens, RefreshFind(r, t) PROVE IndInv'
<1> TypeOK BY DEF IndInv
<1>1. token[t].family \in Families
  BY DEF RefreshFind, IndInv
<1>2. /\ req' \in [Requests -> Slot]
      /\ req'[r].pc \in {"consume", "revoke"} /\ req'[r].token = t
      /\ req'[r].family = token[t].family
      /\ \A q \in Requests : q # r => req'[q] = req[q]
  BY <1>1 DEF RefreshFind, TypeOK, Slot
<1>3. TypeOK' BY <1>2 DEF RefreshFind, TypeOK
<1>4. ASSUME NEW q \in Requests PROVE RotationInv(q)'
  <2>1. CASE q = r BY <1>1, <1>2, <2>1 DEF RefreshFind, RotationInv, At
  <2>2. CASE q # r
    <3>1. RotationInv(q) BY DEF IndInv
    <3> QED BY <1>2, <2>2, <3>1 DEF RefreshFind, RotationInv, At, Live
  <2> QED BY <2>1, <2>2
<1> QED BY <1>3, <1>4 DEF IndInv, RefreshFind, OneLiveTokenPerFamily, Live

LEMMA ConsumeStep ==
    ASSUME IndInv, NEW r \in Requests, Consume(r) PROVE IndInv'
<1> TypeOK BY DEF IndInv
<1> PICK t \in Tokens : t = req[r].token
  BY DEF Consume, IndInv, RotationInv
<1> PICK f \in Families : f = req[r].family
  BY DEF Consume, IndInv, RotationInv
<1>1. CASE Live(t) /\ Revoke(t) /\ Goto(r, "issue")
  <2>1. /\ token' \in [Tokens -> TokenRow]
        /\ token'[t].status = "revoked" /\ token'[t].family = token[t].family
        /\ \A u \in Tokens : u # t => token'[u] = token[u]
    BY <1>1, RevokeRow
  <2>2. /\ req' \in [Requests -> Slot]
        /\ req'[r].pc = "issue" /\ req'[r].family = f
        /\ \A q \in Requests : q # r => req'[q] = req[q]
    BY <1>1, GotoSlot
  <2>3. TypeOK' BY <2>1, <2>2 DEF Consume, TypeOK
  <2>4. token[t].family = f
    BY <1>1 DEF Consume, IndInv, RotationInv, Live
  <2>5. OneLiveTokenPerFamily'
    BY <2>1 DEF IndInv, OneLiveTokenPerFamily, Live
  <2>6. \A u \in Tokens : Live(u)' => token'[u].family # f
    BY <1>1, <2>1, <2>4 DEF IndInv, OneLiveTokenPerFamily, Live
  <2>7. \A q \in Requests : At(q, "issue") => req[q].family # f
    BY <1>1, <2>4 DEF IndInv, RotationInv
  <2>8. ASSUME NEW q \in Requests PROVE RotationInv(q)'
    <3>1. CASE q = r
      BY <2>2, <2>6, <2>7, <3>1 DEF RotationInv, At
    <3>2. CASE q # r
      <4>1. RotationInv(q) BY DEF IndInv
      <4> QED BY <1>1, <2>1, <2>2, <2>7, <3>2, <4>1 DEF RotationInv, At, Live
    <3> QED BY <3>1, <3>2
  <2> QED BY <1>1, <2>1, <2>3, <2>5, <2>8 DEF IndInv, Live
<1>2. CASE Goto(r, "revoke") /\ UNCHANGED token
  <2>1. /\ req' \in [Requests -> Slot]
        /\ req'[r].pc = "revoke" /\ req'[r].family = f
        /\ \A q \in Requests : q # r => req'[q] = req[q]
    BY <1>2, GotoSlot
  <2>2. TypeOK' BY <1>2, <2>1 DEF Consume, TypeOK
  <2>3. ASSUME NEW q \in Requests PROVE RotationInv(q)'
    <3>1. CASE q = r BY <2>1, <3>1 DEF RotationInv, At
    <3>2. CASE q # r
      <4>1. RotationInv(q) BY DEF IndInv
      <4> QED BY <1>2, <2>1, <3>2, <4>1 DEF RotationInv, At, Live
    <3> QED BY <3>1, <3>2
  <2> QED BY <1>2, <2>2, <2>3 DEF IndInv, OneLiveTokenPerFamily, Live
<1> QED BY <1>1, <1>2 DEF Consume

LEMMA IssueStep ==
    ASSUME IndInv, NEW r \in Requests, NEW t \in Tokens, Issue(r, t) PROVE IndInv'
<1> TypeOK BY DEF IndInv
<1> PICK f \in Families : f = req[r].family
  BY DEF Issue, IndInv, RotationInv
<1>1. /\ token' \in [Tokens -> TokenRow]
      /\ token'[t].status = "live" /\ token'[t].family = f
      /\ \A u \in Tokens : u # t => token'[u] = token[u]
  BY CreateRow DEF Issue
<1>2. /\ req' \in [Requests -> Slot]
      /\ req'[r].pc = "idle"
      /\ \A q \in Requests : q # r => req'[q] = req[q]
  BY FinishSlot DEF Issue
<1>3. TypeOK' BY <1>1, <1>2 DEF Issue, TypeOK
<1>4. /\ \A u \in Tokens : Live(u) => token[u].family # f
      /\ \A q \in Requests : At(q, "issue") /\ req[q].family = f => q = r
  BY DEF Issue, IndInv, RotationInv
<1>5. OneLiveTokenPerFamily'
  BY <1>1, <1>4 DEF IndInv, OneLiveTokenPerFamily, Live
<1>6. ASSUME NEW q \in Requests PROVE RotationInv(q)'
  <2>1. CASE q = r BY <1>2, <2>1 DEF RotationInv, At
  <2>2. CASE q # r
    <3>1. RotationInv(q) /\ req[q].token # t
      BY DEF IndInv, Issue, FreshToken
    <3> QED BY <1>1, <1>2, <1>4, <2>2, <3>1 DEF RotationInv, At, Live
  <2> QED BY <2>1, <2>2
<1> QED BY <1>1, <1>3, <1>5, <1>6 DEF IndInv

LEMMA RevokeFamilyStep ==
    ASSUME IndInv, NEW r \in Requests, RevokeFamily(r) PROVE IndInv'
<1> TypeOK BY DEF IndInv
<1>1. /\ req' \in [Requests -> Slot]
      /\ req'[r].pc = "idle"
      /\ \A q \in Requests : q # r => req'[q] = req[q]
  BY FinishSlot DEF RevokeFamily
<1>2. req[r].family \in Families
  BY DEF RevokeFamily, IndInv, RotationInv
<1>3. ASSUME NEW t \in Tokens
      PROVE  /\ token'[t] \in TokenRow
             /\ token'[t].family = token[t].family
             /\ Live(t)' => Live(t)
             /\ token'[t].status # "none" => token[t].status # "none"
  <2>1. token[t] \in TokenRow BY DEF TypeOK
  <2>2. \/ token'[t] = token[t]
        \/ Live(t) /\ token'[t] = [token[t] EXCEPT !.status = "revoked"]
    BY DEF RevokeFamily
  <2> QED BY <2>1, <2>2 DEF TokenRow, Live
<1>4. TypeOK' BY <1>1, <1>2, <1>3 DEF RevokeFamily, TypeOK
<1> QED BY <1>1, <1>3, <1>4, Shrinks

LEMMA OthersStep ==
    ASSUME IndInv,
           \/ \E t \in Tokens : Logout(t) \/ Expire(t)
           \/ purgeStaleTokens
           \/ \E r \in Requests : Crash(r)
           \/ UNCHANGED vars
    PROVE  IndInv'
<1> TypeOK BY DEF IndInv
<1>1. ASSUME NEW t \in Tokens, Logout(t) PROVE IndInv'
  <2>1. /\ token' \in [Tokens -> TokenRow]
        /\ token'[t].status = "revoked" /\ token'[t].family = token[t].family
        /\ \A u \in Tokens : u # t => token'[u] = token[u]
    BY <1>1, RevokeRow DEF Logout
  <2>2. TypeOK' BY <1>1, <2>1 DEF Logout, TypeOK
  <2>3. token[t].status = "live" /\ UNCHANGED req BY <1>1 DEF Logout, Live
  <2> QED BY <2>1, <2>2, <2>3, Shrinks DEF Live
<1>2. ASSUME NEW t \in Tokens, Expire(t) PROVE IndInv'
  <2>1. /\ token' \in [Tokens -> TokenRow]
        /\ token'[t].status = token[t].status /\ token'[t].family = token[t].family
        /\ \A u \in Tokens : u # t => token'[u] = token[u]
    BY <1>2 DEF Expire, TypeOK, TokenRow
  <2>2. TypeOK' BY <1>2, <2>1 DEF Expire, TypeOK
  <2>3. UNCHANGED req BY <1>2 DEF Expire
  <2> QED BY <2>1, <2>2, <2>3, Shrinks DEF Live
<1>3. CASE purgeStaleTokens
  <2>1. \A t \in Tokens : token'[t] = NoRow \/ token'[t] = token[t]
    BY <1>3 DEF purgeStaleTokens
  <2>2. NoRow \in TokenRow BY DEF NoRow, TokenRow
  <2>3. TypeOK' BY <1>3, <2>2 DEF purgeStaleTokens, TypeOK
  <2>4. UNCHANGED req BY <1>3 DEF purgeStaleTokens
  <2> QED BY <2>1, <2>3, <2>4, Shrinks DEF Live, NoRow
<1>4. ASSUME NEW r \in Requests, Crash(r) PROVE IndInv'
  <2>1. /\ req' \in [Requests -> Slot]
        /\ req'[r].pc = "idle"
        /\ \A q \in Requests : q # r => req'[q] = req[q]
    BY <1>4, FinishSlot DEF Crash
  <2>2. UNCHANGED <<token, compromised>> BY <1>4 DEF Crash
  <2>3. TypeOK' BY <2>1, <2>2 DEF TypeOK
  <2> QED BY <2>1, <2>2, <2>3, Shrinks DEF Live
<1>5. CASE UNCHANGED vars
  <2>1. TypeOK' BY <1>5 DEF vars, TypeOK
  <2> QED BY <1>5, <2>1, Shrinks DEF vars, Live
<1> QED BY <1>1, <1>2, <1>3, <1>4, <1>5

LEMMA NextInv == IndInv /\ [Next]_vars => IndInv'
<1> SUFFICES ASSUME IndInv, [Next]_vars PROVE IndInv'
  OBVIOUS
<1>1. ASSUME NEW r \in Requests, Continue(r) PROVE IndInv'
  BY <1>1, ConsumeStep, IssueStep, RevokeFamilyStep DEF Continue
<1> QED BY <1>1, LoginStep, RefreshFindStep, OthersStep DEF Next

LEMMA Inductive == Spec => []IndInv
BY InitInv, NextInv, PTL DEF Spec

\* Rows and requests keep the columns and values of the code.
THEOREM Typed == Spec => []TypeOK
<1>1. IndInv => TypeOK BY DEF IndInv
<1> QED BY <1>1, Inductive, PTL

\* A session never has two usable refresh tokens, whatever is refreshed at once.
THEOREM OneLiveToken == Spec => []OneLiveTokenPerFamily
<1>1. IndInv => OneLiveTokenPerFamily BY DEF IndInv
<1> QED BY <1>1, Inductive, PTL

\* Only a login makes a session active: what was logged out, revoked or lost in a
\* crash stays ended.
THEOREM SessionsEndForGood == Spec => EndedSessionStaysEnded
<1> DEFINE Revived(f) == ~Active(f) /\ Active(f)'
<1>1. ASSUME IndInv, Next, NEW f \in Families, Revived(f) PROVE FreshFamily(f)
  <2> TypeOK BY <1>1 DEF IndInv
  <2>1. ASSUME NEW t \in Tokens, NEW g \in Families, Login(t, g) PROVE FreshFamily(f)
    <3>1. CASE f = g BY <2>1, <3>1 DEF Login
    <3>2. CASE f # g
      <4>1. token'[t].family = g /\ \A u \in Tokens : u # t => token'[u] = token[u]
        BY <2>1, CreateRow DEF Login
      <4>2. ~Revived(f)
        BY <2>1, <3>2, <4>1 DEF Login, Active, Live, At
      <4> QED BY <1>1, <4>2
    <3> QED BY <3>1, <3>2
  <2>2. ASSUME NEW r \in Requests, NEW t \in Tokens, RefreshFind(r, t) PROVE ~Revived(f)
    <3>1. req'[r].pc # "issue" /\ \A q \in Requests : q # r => req'[q] = req[q]
      BY <2>2 DEF RefreshFind, TypeOK
    <3> QED BY <2>2, <3>1 DEF RefreshFind, Active, Live, At
  <2>3. ASSUME NEW r \in Requests, Consume(r) PROVE ~Revived(f)
    <3>0. req[r].token \in Tokens
      BY <1>1, <2>3 DEF Consume, IndInv, RotationInv
    <3>1. CASE Live(req[r].token) /\ Revoke(req[r].token) /\ Goto(r, "issue")
      <4>1. \A u \in Tokens : Live(u)' => Live(u) /\ token'[u] = token[u]
        BY <3>0, <3>1, RevokeRow DEF Live
      <4>2. token[req[r].token].family = req[r].family
        BY <1>1, <2>3, <3>1 DEF Consume, IndInv, RotationInv, Live
      <4>3. req'[r].family = req[r].family /\ \A q \in Requests : q # r => req'[q] = req[q]
        BY <3>1, GotoSlot
      <4> QED BY <3>0, <3>1, <4>1, <4>2, <4>3 DEF Active, At
    <3>2. CASE Goto(r, "revoke") /\ UNCHANGED token
      <4>1. req'[r].pc = "revoke" /\ \A q \in Requests : q # r => req'[q] = req[q]
        BY <3>2, GotoSlot
      <4> QED BY <3>2, <4>1 DEF Active, Live, At
    <3> QED BY <2>3, <3>1, <3>2 DEF Consume
  <2>4. ASSUME NEW r \in Requests, NEW t \in Tokens, Issue(r, t) PROVE ~Revived(f)
    <3>1. req[r].family \in Families
      BY <1>1, <2>4 DEF Issue, IndInv, RotationInv
    <3>2. token'[t].family = req[r].family /\ \A u \in Tokens : u # t => token'[u] = token[u]
      BY <2>4, <3>1, CreateRow DEF Issue
    <3>3. req'[r].pc = "idle" /\ \A q \in Requests : q # r => req'[q] = req[q]
      BY <2>4, FinishSlot DEF Issue
    <3> QED BY <2>4, <3>2, <3>3 DEF Issue, Active, Live, At
  <2>5. ASSUME NEW r \in Requests, RevokeFamily(r) PROVE ~Revived(f)
    <3>1. \A t \in Tokens : Live(t)' => Live(t) /\ token'[t] = token[t]
      <4> TAKE t \in Tokens
      <4>1. token[t] \in TokenRow BY DEF TypeOK
      <4>2. token'[t] = token[t] \/ token'[t] = [token[t] EXCEPT !.status = "revoked"]
        BY <2>5 DEF RevokeFamily
      <4> QED BY <4>1, <4>2 DEF TokenRow, Live
    <3>2. req'[r].pc = "idle" /\ \A q \in Requests : q # r => req'[q] = req[q]
      BY <2>5, FinishSlot DEF RevokeFamily
    <3> QED BY <3>1, <3>2 DEF Active, At
  <2>6. ASSUME NEW t \in Tokens, Logout(t) \/ Expire(t) PROVE ~Revived(f)
    <3>1. \A u \in Tokens : Live(u)' => Live(u) /\ token'[u].family = token[u].family
      BY <2>6, RevokeRow DEF Logout, Expire, TypeOK, TokenRow, Live
    <3> QED BY <2>6, <3>1 DEF Logout, Expire, Active, At
  <2>7. ASSUME purgeStaleTokens PROVE ~Revived(f)
    <3>1. \A u \in Tokens : Live(u)' => Live(u) /\ token'[u] = token[u]
      BY <2>7 DEF purgeStaleTokens, NoRow, Live
    <3> QED BY <2>7, <3>1 DEF purgeStaleTokens, Active, At
  <2>8. ASSUME NEW r \in Requests, Crash(r) PROVE ~Revived(f)
    <3>1. req'[r].pc = "idle" /\ \A q \in Requests : q # r => req'[q] = req[q]
      BY <2>8, FinishSlot DEF Crash
    <3> QED BY <2>8, <3>1 DEF Crash, Active, Live, At
  <2> QED BY <1>1, <2>1, <2>2, <2>3, <2>4, <2>5, <2>6, <2>7, <2>8 DEF Next, Continue
<1>2. IndInv /\ [Next]_vars
        => [\A f \in Families : ~Active(f) /\ Active(f)' => FreshFamily(f)]_vars
  BY <1>1
<1> QED BY <1>2, Inductive, PTL DEF Spec, EndedSessionStaysEnded

(***************************************************************************)
(* The chain of a family.                                                  *)
(***************************************************************************)
\* What a step must leave alone for the chain of a family not to change.
LEMMA SameCurrent ==
    ASSUME NEW f \in Families,
           \A t \in Tokens : Live(t)' /\ token'[t].family = f <=> Live(t) /\ token[t].family = f
    PROVE  Current(f)' = Current(f)
BY DEF Current

LEMMA SameRotating ==
    ASSUME \A r \in Requests : At(r, "issue")' \/ At(r, "issue") => req'[r] = req[r]
    PROVE  Rotating' = Rotating
BY DEF Rotating, At

\* Each live token is all its family has, and its family does not rotate.
LEMMA LiveIsCurrent ==
    ASSUME IndInv, NEW t \in Tokens, Live(t)
    PROVE  /\ token[t].family \in Families
           /\ Current(token[t].family) = {t}
           /\ token[t].family \notin Rotating
<1>1. token[t].family \in Families
  BY DEF IndInv, Live
<1>2. Current(token[t].family) = {t}
  BY DEF IndInv, OneLiveTokenPerFamily, Current
<1>3. token[t].family \notin Rotating
  BY DEF IndInv, RotationInv, Rotating
<1> QED BY <1>1, <1>2, <1>3

\* A rotation in flight is the only one of its family, which has no current token.
LEMMA RotationIsAlone ==
    ASSUME IndInv, NEW r \in Requests, At(r, "issue")
    PROVE  /\ req[r].family \in Rotating
           /\ Current(req[r].family) = {}
           /\ \A q \in Requests : At(q, "issue") /\ req[q].family = req[r].family => q = r
BY DEF IndInv, RotationInv, Rotating, Current

LEMMA LoginOpens ==
    ASSUME IndInv, NEW t \in Tokens, NEW f \in Families, Login(t, f)
    PROVE  Chain!Open(f, t)
<1> TypeOK BY DEF IndInv
<1>1. /\ token'[t].status = "live" /\ token'[t].family = f
      /\ \A u \in Tokens : u # t => token'[u] = token[u]
  BY CreateRow DEF Login
<1>2. ~Live(t) /\ \A u \in Tokens : token[u].family # f
  BY DEF Login, FreshToken, FreshFamily, Live
<1>3. Current(f) = {} /\ f \notin Rotating
  BY <1>2 DEF Login, FreshFamily, Current, Rotating
<1>4. Current(f)' = {t}
  BY <1>1, <1>2 DEF Current, Live
<1>5. ASSUME NEW g \in Families, g # f PROVE Current(g)' = Current(g)
  BY <1>1, <1>2, <1>5, SameCurrent DEF Live
<1>6. \A g \in Families : t \notin Current(g)
  BY <1>2 DEF Current
<1>7. Currents' = [Currents EXCEPT ![f] = {t}]
  BY <1>4, <1>5 DEF Currents
<1>8. Rotating' = Rotating
  BY SameRotating DEF Login
<1> QED BY <1>3, <1>6, <1>7, <1>8 DEF Chain!Open, Chain!Fresh, Currents

LEMMA ConsumeUses ==
    ASSUME IndInv, NEW r \in Requests, Consume(r)
    PROVE  Chain!Next \/ UNCHANGED <<Currents, Rotating>>
<1> TypeOK BY DEF IndInv
<1> PICK t \in Tokens : t = req[r].token
  BY DEF Consume, IndInv, RotationInv
<1> PICK f \in Families : f = req[r].family
  BY DEF Consume, IndInv, RotationInv
<1>1. CASE Live(t) /\ Revoke(t) /\ Goto(r, "issue")
  <2>1. /\ token'[t].status = "revoked" /\ token'[t].family = token[t].family
        /\ \A u \in Tokens : u # t => token'[u] = token[u]
    BY <1>1, RevokeRow
  <2>2. /\ req'[r].pc = "issue" /\ req'[r].family = f
        /\ \A q \in Requests : q # r => req'[q] = req[q]
    BY <1>1, GotoSlot
  <2>3. token[t].family = f
    BY <1>1 DEF Consume, IndInv, RotationInv, Live
  <2>4. Current(f) = {t}
    BY <1>1, <2>3, LiveIsCurrent
  <2>5. Current(f)' = {}
    BY <2>1, <2>4 DEF Current, Live
  <2>6. ASSUME NEW g \in Families, g # f PROVE Current(g)' = Current(g)
    BY <2>1, <2>3, <2>6, SameCurrent DEF Live
  <2>7. Rotating' = Rotating \cup {f}
    BY <2>2 DEF Consume, Rotating, At
  <2>8. Chain!Use(f)
    BY <2>4, <2>5, <2>6, <2>7 DEF Chain!Use, Currents
  <2> QED BY <2>8 DEF Chain!Next
<1>2. CASE Goto(r, "revoke") /\ UNCHANGED token
  <2>1. req'[r].pc = "revoke" /\ \A q \in Requests : q # r => req'[q] = req[q]
    BY <1>2, GotoSlot
  <2>2. Rotating' = Rotating
    BY <2>1, SameRotating DEF Consume, At
  <2> QED BY <1>2, <2>2 DEF Currents, Current, Live
<1> QED BY <1>1, <1>2 DEF Consume

LEMMA IssueGrants ==
    ASSUME IndInv, NEW r \in Requests, NEW t \in Tokens, Issue(r, t)
    PROVE  Chain!Next
<1> TypeOK BY DEF IndInv
<1> PICK f \in Families : f = req[r].family
  BY DEF Issue, IndInv, RotationInv
<1>1. /\ token'[t].status = "live" /\ token'[t].family = f
      /\ \A u \in Tokens : u # t => token'[u] = token[u]
  BY CreateRow DEF Issue
<1>2. req'[r].pc = "idle" /\ \A q \in Requests : q # r => req'[q] = req[q]
  BY FinishSlot DEF Issue
<1>3. /\ f \in Rotating /\ Current(f) = {}
      /\ \A q \in Requests : At(q, "issue") /\ req[q].family = f => q = r
  BY RotationIsAlone DEF Issue
<1>4. ~Live(t)
  BY DEF Issue, FreshToken, Live
<1>5. Current(f)' = {t}
  BY <1>1, <1>3 DEF Current, Live
<1>6. ASSUME NEW g \in Families, g # f PROVE Current(g)' = Current(g)
  BY <1>1, <1>4, <1>6, SameCurrent DEF Live
<1>7. Rotating' = Rotating \ {f}
  BY <1>2, <1>3 DEF Issue, Rotating, At
<1>8. \A g \in Families : t \notin Current(g)
  BY <1>4 DEF Current
<1>9. Currents' = [Currents EXCEPT ![f] = {t}]
  BY <1>5, <1>6 DEF Currents
<1>10. Chain!Grant(f, t)
  BY <1>3, <1>7, <1>8, <1>9 DEF Chain!Grant, Chain!Fresh, Currents
<1> QED BY <1>10 DEF Chain!Next

\* A step that only takes current tokens or rotations away ends sessions.
LEMMA EndsSome ==
    ASSUME NEW S \in SUBSET Families,
           \A f \in Families : Current(f)' = IF f \in S THEN {} ELSE Current(f),
           Rotating' = Rotating \ S
    PROVE  Chain!Next
<1>1. Chain!End(S) BY DEF Chain!End, Currents
<1> QED BY <1>1 DEF Chain!Next

LEMMA RevokeFamilyEnds ==
    ASSUME IndInv, NEW r \in Requests, RevokeFamily(r)
    PROVE  Chain!Next
<1> TypeOK BY DEF IndInv
<1> PICK f \in Families : f = req[r].family
  BY DEF RevokeFamily, IndInv, RotationInv
<1>1. req'[r].pc = "idle" /\ \A q \in Requests : q # r => req'[q] = req[q]
  BY FinishSlot DEF RevokeFamily
<1>2. Rotating' = Rotating
  BY <1>1, SameRotating DEF RevokeFamily, At
<1>3. ASSUME NEW u \in Tokens
      PROVE  IF Live(u) /\ token[u].family = f THEN ~Live(u)' ELSE token'[u] = token[u]
  <2>1. token[u] \in TokenRow BY DEF TypeOK
  <2> QED BY <2>1 DEF RevokeFamily, TokenRow, Live
<1>4. Current(f)' = {}
  BY <1>3 DEF Current, Live
<1>5. ASSUME NEW g \in Families, g # f PROVE Current(g)' = Current(g)
  BY <1>3, <1>5, SameCurrent DEF Live
<1> DEFINE S == {f} \ Rotating
<1>6. ASSUME NEW g \in Families PROVE Current(g)' = IF g \in S THEN {} ELSE Current(g)
  <2>1. f \in Rotating => Current(f) = {}
    BY RotationIsAlone DEF Rotating
  <2> QED BY <1>4, <1>5, <2>1
<1>7. S \in SUBSET Families /\ Rotating' = Rotating \ S
  BY <1>2
<1> QED BY <1>6, <1>7, EndsSome

LEMMA LogoutEnds ==
    ASSUME IndInv, NEW t \in Tokens, Logout(t)
    PROVE  Chain!Next
<1> TypeOK BY DEF IndInv
<1>1. /\ token'[t].status = "revoked"
      /\ \A u \in Tokens : u # t => token'[u] = token[u]
  BY RevokeRow DEF Logout
<1> PICK f \in Families : f = token[t].family
  BY LiveIsCurrent DEF Logout
<1>2. Current(f) = {t} /\ f \notin Rotating
  BY LiveIsCurrent DEF Logout
<1>3. ASSUME NEW g \in Families PROVE Current(g)' = IF g \in {f} THEN {} ELSE Current(g)
  BY <1>1, <1>2 DEF Current, Live
<1>4. Rotating' = Rotating
  BY SameRotating DEF Logout
<1>5. {f} \in SUBSET Families /\ Rotating' = Rotating \ {f}
  BY <1>2, <1>4
<1> QED BY <1>3, <1>5, EndsSome

LEMMA PurgeEnds ==
    ASSUME IndInv, purgeStaleTokens
    PROVE  Chain!Next
<1>1. \A u \in Tokens : token'[u] = NoRow \/ token'[u] = token[u]
  BY DEF purgeStaleTokens
<1> DEFINE S == {f \in Families : Current(f) # {} /\ Current(f)' = {}}
<1>2. ASSUME NEW f \in Families PROVE Current(f)' = IF f \in S THEN {} ELSE Current(f)
  <2>1. Current(f)' \subseteq Current(f)
    BY <1>1 DEF Current, Live, NoRow
  <2>2. \A t, u \in Current(f) : t = u
    BY DEF IndInv, OneLiveTokenPerFamily, Current
  <2> QED BY <2>1, <2>2
<1>3. Rotating' = Rotating
  BY SameRotating DEF purgeStaleTokens
<1>4. \A f \in S : f \notin Rotating
  BY RotationIsAlone DEF Rotating
<1>5. S \in SUBSET Families /\ Rotating' = Rotating \ S
  BY <1>3, <1>4
<1> QED BY <1>2, <1>5, EndsSome

LEMMA CrashEnds ==
    ASSUME IndInv, NEW r \in Requests, Crash(r)
    PROVE  Chain!Next
<1> TypeOK BY DEF IndInv
<1>1. req'[r].pc = "idle" /\ \A q \in Requests : q # r => req'[q] = req[q]
  BY FinishSlot DEF Crash
<1>2. \A f \in Families : Current(f)' = Current(f)
  BY SameCurrent DEF Crash, Live
<1>3. CASE At(r, "issue")
  <2> PICK f \in Families : f = req[r].family
    BY <1>3, RotationIsAlone DEF Rotating
  <2>1. /\ Current(f) = {}
        /\ \A q \in Requests : At(q, "issue") /\ req[q].family = f => q = r
    BY <1>3, RotationIsAlone
  <2>2. Rotating' = Rotating \ {f}
    BY <1>1, <1>3, <2>1 DEF Rotating, At
  <2>3. ASSUME NEW g \in Families PROVE Current(g)' = IF g \in {f} THEN {} ELSE Current(g)
    BY <1>2, <2>1
  <2> QED BY <2>2, <2>3, EndsSome
<1>4. CASE ~At(r, "issue")
  <2> DEFINE S == {}
  <2>1. S \in SUBSET Families /\ Rotating' = Rotating \ S
    BY <1>1, <1>4, SameRotating DEF At
  <2>2. ASSUME NEW g \in Families PROVE Current(g)' = IF g \in S THEN {} ELSE Current(g)
    BY <1>2
  <2> HIDE DEF S
  <2> QED BY <2>1, <2>2, EndsSome
<1> QED BY <1>3, <1>4

LEMMA NextChains ==
    ASSUME IndInv, [Next]_vars
    PROVE  Chain!Next \/ UNCHANGED <<Currents, Rotating>>
<1> TypeOK BY DEF IndInv
<1>1. ASSUME NEW t \in Tokens, NEW f \in Families, Login(t, f) PROVE Chain!Next
  BY <1>1, LoginOpens DEF Chain!Next
<1>2. ASSUME NEW r \in Requests, NEW t \in Tokens, RefreshFind(r, t)
      PROVE  UNCHANGED <<Currents, Rotating>>
  <2>1. req'[r].pc # "issue" /\ \A q \in Requests : q # r => req'[q] = req[q]
    BY <1>2 DEF RefreshFind, TypeOK
  <2>2. Rotating' = Rotating
    BY <1>2, <2>1, SameRotating DEF RefreshFind, At
  <2> QED BY <1>2, <2>2 DEF RefreshFind, Currents, Current, Live
<1>3. ASSUME NEW t \in Tokens, Expire(t) PROVE UNCHANGED <<Currents, Rotating>>
  <2>1. \A u \in Tokens : token'[u].status = token[u].status /\ token'[u].family = token[u].family
    BY <1>3 DEF Expire, TypeOK, TokenRow
  <2>2. \A f \in Families : Current(f)' = Current(f)
    BY <2>1, SameCurrent DEF Live
  <2>3. Rotating' = Rotating
    BY <1>3, SameRotating DEF Expire
  <2> QED BY <2>2, <2>3 DEF Currents
<1>4. CASE UNCHANGED vars
  BY <1>4 DEF vars, Currents, Current, Rotating, Live, At
<1> QED BY <1>1, <1>2, <1>3, <1>4, ConsumeUses, IssueGrants, RevokeFamilyEnds, LogoutEnds,
           PurgeEnds, CrashEnds DEF Next, Continue

\* Sessions implement a chain of tokens, each granted for one that was used up, for any
\* number of tokens, sessions and requests.
THEOREM Refinement == Spec => ImplementsSession
<1>1. Init => Chain!Init
  BY DEF Init, Chain!Init, Currents, Current, Rotating, Live, NoRow, At, Idle
<1>2. IndInv /\ [Next]_vars => [Chain!Next]_<<Currents, Rotating>>
  BY NextChains
<1> QED BY <1>1, <1>2, Inductive, PTL DEF Spec, ImplementsSession, Chain!Spec
=============================================================================
