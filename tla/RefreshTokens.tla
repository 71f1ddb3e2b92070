---------------------------- MODULE RefreshTokens ----------------------------
(***************************************************************************)
(* Sessions: the refresh tokens AuthService issues at login, rotates in    *)
(* refreshTokens, revokes in logout and on reuse, and that the nightly     *)
(* RefreshTokenCleanupService deletes.  A refresh request gives up control *)
(* after reading the row, after consuming it and while it signs the new    *)
(* pair; any request may overtake it there, or its server may die.         *)
(***************************************************************************)
EXTENDS Naturals, FiniteSets

CONSTANTS
    Tokens,         \* token rows; a row stands for the secret whose hash it stores
    Families,       \* familyId values: one per login
    Requests,       \* refresh requests in flight
    None

ASSUME NoneAssumption == None \notin Tokens /\ None \notin Families

VARIABLES
    token,          \* [Tokens -> RefreshToken row]
    req,            \* [Requests -> refresh request]
    compromised     \* history: families that revokeFamily was called for

vars == <<token, req, compromised>>

\* "none" is the absence of the row, "live" is revokedAt = null.
TokenRow == [status : {"none", "live", "revoked"}, family : Families \cup {None}, expired : BOOLEAN]

NoRow == [status |-> "none", family |-> None, expired |-> FALSE]

Slot == [pc : {"idle", "consume", "issue", "revoke"}, token : Tokens \cup {None},
         family : Families \cup {None}]

Idle == [pc |-> "idle", token |-> None, family |-> None]

Live(t) == token[t].status = "live"

At(r, pc) == req[r].pc = pc
Finish(r) == req' = [req EXCEPT ![r] = Idle]
Goto(r, pc) == req' = [req EXCEPT ![r] = [@ EXCEPT !.pc = pc]]

Init ==
    /\ token = [t \in Tokens |-> NoRow]
    /\ req = [r \in Requests |-> Idle]
    /\ compromised = {}

\* Secrets and families are random: a new one is in no row and in no request.
FreshToken(t) == token[t].status = "none" /\ \A r \in Requests : req[r].token # t

FreshFamily(f) ==
    /\ \A t \in Tokens : token[t].family # f
    /\ \A r \in Requests : req[r].family # f

\* issueRefreshToken
Create(t, f) ==
    token' = [token EXCEPT ![t] = [status |-> "live", family |-> f, expired |-> FALSE]]

Login(t, f) ==
    /\ FreshToken(t) /\ FreshFamily(f)
    /\ Create(t, f)
    /\ compromised' = compromised \ {f}
    /\ UNCHANGED req

(***************************************************************************)
(* refreshTokens                                                           *)
(***************************************************************************)
\* An unknown or an expired token is turned down and nothing happens.
RefreshFind(r, t) ==
    /\ At(r, "idle")
    /\ token[t].status # "none"
    /\ Live(t) => ~token[t].expired
    /\ req' = [req EXCEPT ![r] = [pc |-> IF Live(t) THEN "consume" ELSE "revoke",
                                  token |-> t, family |-> token[t].family]]
    /\ UNCHANGED <<token, compromised>>

Revoke(t) == token' = [token EXCEPT ![t] = [@ EXCEPT !.status = "revoked"]]

\* Mutant: revokedAt = null is not part of the update's condition.
Consume_Unconditional(r) ==
    /\ At(r, "consume")
    /\ \/ token[req[r].token].status # "none" /\ Revoke(req[r].token) /\ Goto(r, "issue")
       \/ token[req[r].token].status = "none" /\ Goto(r, "revoke") /\ UNCHANGED token
    /\ UNCHANGED compromised

\* updateMany by id where revokedAt is null: only one request gets count 1.
Consume(r) ==
    /\ At(r, "consume")
    /\ \/ Live(req[r].token) /\ Revoke(req[r].token) /\ Goto(r, "issue")
       \/ ~Live(req[r].token) /\ Goto(r, "revoke") /\ UNCHANGED token
    /\ UNCHANGED compromised

Issue(r, t) ==
    /\ At(r, "issue")
    /\ FreshToken(t)
    /\ Create(t, req[r].family)
    /\ Finish(r)
    /\ UNCHANGED compromised

\* revokeFamily: reuse was detected, by the row read or by losing the update.
RevokeFamily(r) ==
    /\ At(r, "revoke")
    /\ token' = [t \in Tokens |->
                   IF Live(t) /\ token[t].family = req[r].family
                   THEN [token[t] EXCEPT !.status = "revoked"] ELSE token[t]]
    /\ compromised' = compromised \cup {req[r].family}
    /\ Finish(r)

(***************************************************************************)
(* logout, the passing of 30 days, the nightly purge, crashes              *)
(***************************************************************************)
Logout(t) ==
    /\ Live(t)
    /\ Revoke(t)
    /\ UNCHANGED <<req, compromised>>

Expire(t) ==
    /\ token[t].status # "none" /\ ~token[t].expired
    /\ token' = [token EXCEPT ![t] = [@ EXCEPT !.expired = TRUE]]
    /\ UNCHANGED <<req, compromised>>

Stale(t) == token[t].status = "revoked" \/ token[t].expired

\* Mutant: only what has expired is deleted.
purgeStaleTokens_ExpiredOnly ==
    /\ \E t \in Tokens : token[t].expired
    /\ token' = [t \in Tokens |-> IF token[t].expired THEN NoRow ELSE token[t]]
    /\ UNCHANGED <<req, compromised>>

purgeStaleTokens ==
    /\ \E t \in Tokens : Stale(t)
    /\ token' = [t \in Tokens |-> IF Stale(t) THEN NoRow ELSE token[t]]
    /\ UNCHANGED <<req, compromised>>

Crash(r) ==
    /\ ~At(r, "idle")
    /\ Finish(r)
    /\ UNCHANGED <<token, compromised>>

Continue(r) == Consume(r) \/ (\E t \in Tokens : Issue(r, t)) \/ RevokeFamily(r)

Next ==
    \/ \E t \in Tokens : Logout(t) \/ Expire(t) \/ \E f \in Families : Login(t, f)
    \/ \E r \in Requests : Continue(r) \/ Crash(r) \/ \E t \in Tokens : RefreshFind(r, t)
    \/ purgeStaleTokens

Spec == Init /\ [][Next]_vars

\* The purge runs every night, whatever clients do.
LiveSpec == Spec /\ WF_vars(purgeStaleTokens)

(***************************************************************************)
(* Properties                                                              *)
(***************************************************************************)
\* Rows and requests have the columns and the values of the code.
TypeOK ==
    /\ token \in [Tokens -> TokenRow]
    /\ req \in [Requests -> Slot]
    /\ compromised \subseteq Families

\* However refreshes, reuse, logout and the purge interleave, a session never has
\* two usable refresh tokens (the updateMany on revokedAt in refreshTokens).
OneLiveTokenPerFamily ==
    \A t, u \in Tokens : Live(t) /\ Live(u) /\ token[t].family = token[u].family => t = u

\* What makes it so: while a rotation is about to issue a token its family has no
\* live one and no second rotation, and a request knows the family of its row.
RotationInv(r) ==
    /\ At(r, "issue") =>
         /\ req[r].family \in Families
         /\ \A t \in Tokens : Live(t) => token[t].family # req[r].family
         /\ \A q \in Requests : At(q, "issue") /\ req[q].family = req[r].family => q = r
    /\ At(r, "consume") =>
         /\ req[r].token \in Tokens /\ req[r].family \in Families
         /\ token[req[r].token].status # "none" => token[req[r].token].family = req[r].family
    /\ At(r, "revoke") => req[r].family \in Families

\* Inductive.
IndInv ==
    /\ TypeOK
    /\ \A t \in Tokens : token[t].status # "none" => token[t].family \in Families
    /\ OneLiveTokenPerFamily
    /\ \A r \in Requests : RotationInv(r)

\* A session is active while it has a live token or a rotation about to issue one.
Active(f) ==
    \/ \E t \in Tokens : Live(t) /\ token[t].family = f
    \/ \E r \in Requests : At(r, "issue") /\ req[r].family = f

\* A session that was logged out, revoked or lost in a crash never comes back to
\* life: only a login, with a family nobody uses, makes a family active.
EndedSessionStaysEnded ==
    [][\A f \in Families : ~Active(f) /\ Active(f)' => FreshFamily(f)]_vars

\* A revoked or expired row does not stay in the table (the nightly purge).
StaleRowsArePurged == \A t \in Tokens : Stale(t) ~> token[t].status = "none"

\* docs/architecture.md:111, when a token is reused the whole family is revoked:
\* a family that was revoked has no usable token.
ReuseEndsSession == \A t \in Tokens : Live(t) => token[t].family \notin compromised

(***************************************************************************)
(* Refinement: a family is a chain of tokens.                              *)
(***************************************************************************)
Current(f) == {t \in Tokens : Live(t) /\ token[t].family = f}

Currents == [f \in Families |-> Current(f)]

Rotating == {f \in Families : \E r \in Requests : At(r, "issue") /\ req[r].family = f}

Chain == INSTANCE Session WITH
    Sessions <- Families, current <- Currents, rotating <- Rotating

\* Every token but the one of the login was granted for one that was used up, one at
\* a time, whatever is refreshed, reused, logged out, purged or lost at once.
ImplementsSession == Chain!Spec
=============================================================================
