---------------------------- MODULE PasswordReset ----------------------------
(***************************************************************************)
(* forgotPassword and resetPassword of AuthService.  A request for a reset *)
(* overwrites the one token on the account's row and mails it; a reset     *)
(* finds the row by the token, hashes the new password and then writes the *)
(* row by id.  While it hashes, other requests run and its server may die. *)
(***************************************************************************)
EXTENDS Naturals, Handlers

CONSTANTS
    Accounts,       \* students and instructors
    Shadowed,       \* instructors whose email a student had registered before them
    Tokens          \* bound: the random tokens there are

ASSUME PasswordResetAssumption ==
    /\ Shadowed \subseteq Accounts
    /\ None \notin Tokens /\ None \notin Accounts

VARIABLES
    account,        \* [Accounts -> row]
    issued,         \* [Tokens -> the account the token was generated for]
    req,            \* [Requests -> reset]
    latest,         \* history: [Accounts -> the last token stored for the account]
    crossed,        \* history: accounts with a reset in flight when that token was stored
    used,           \* history: tokens a reset was completed with
    again,          \* history: tokens two resets were completed with
    shared          \* history: tokens two resets held at once

vars == <<account, issued, req, latest, crossed, used, again, shared>>

\* password is the token of the reset that wrote it, None the registered one.
AccountRow == [token : Tokens \cup {None}, expired : BOOLEAN, password : Tokens \cup {None}]

Slot == [at : {"idle", "save"}, token : Tokens \cup {None}, account : Accounts \cup {None}]

Idle == [at |-> "idle", token |-> None, account |-> None]

At(r, at) == req[r].at = at
Finish(r) == req' = [req EXCEPT ![r] = Idle]

Init ==
    /\ account = [a \in Accounts |-> [token |-> None, expired |-> FALSE, password |-> None]]
    /\ issued = [t \in Tokens |-> None]
    /\ req = [r \in Requests |-> Idle]
    /\ latest = [a \in Accounts |-> None]
    /\ crossed = {} /\ used = {} /\ again = {} /\ shared = {}

(***************************************************************************)
(* forgotPassword.  The mail needs no channel: whoever knows a token may   *)
(* use it at any later time, and the token of a lost mail is never used.   *)
(***************************************************************************)
InFlight(a) == \E r \in Requests : At(r, "save") /\ req[r].account = a

Generate(a, t) ==
    /\ issued[t] = None
    /\ issued' = [issued EXCEPT ![t] = a]
    /\ latest' = [latest EXCEPT ![a] = t]
    /\ crossed' = IF InFlight(a) THEN crossed \cup {a} ELSE crossed \ {a}

\* Mutant: a token that is still there is kept.
ForgotPassword_Keep(a, t) ==
    /\ a \notin Shadowed
    /\ Generate(a, t)
    /\ account' = IF account[a].token # None THEN account
                  ELSE [account EXCEPT ![a] = [@ EXCEPT !.token = t, !.expired = FALSE]]
    /\ UNCHANGED <<req, used, again, shared>>

\* The email is looked for among the students first: an instructor with the email
\* of a student is never reached.  Ids do not change, so that the row found is the
\* row written.
ForgotPassword(a, t) ==
    /\ a \notin Shadowed
    /\ Generate(a, t)
    /\ account' = [account EXCEPT ![a] = [@ EXCEPT !.token = t, !.expired = FALSE]]
    /\ UNCHANGED <<req, used, again, shared>>

\* passwordResetExpires passes.
Expire(a) ==
    /\ account[a].token # None /\ ~account[a].expired
    /\ account' = [account EXCEPT ![a] = [@ EXCEPT !.expired = TRUE]]
    /\ UNCHANGED <<issued, req, latest, crossed, used, again, shared>>

(***************************************************************************)
(* resetPassword                                                           *)
(***************************************************************************)
Hold(r, a, t) ==
    /\ At(r, "idle")
    /\ req' = [req EXCEPT ![r] = [at |-> "save", token |-> t, account |-> a]]
    /\ shared' = IF \E q \in Requests : req[q].token = t THEN shared \cup {t} ELSE shared

\* Mutant: the row is looked for by whom the token was generated for.
ResetFind_Issued(r, a, t) ==
    /\ issued[t] = a /\ ~account[a].expired
    /\ Hold(r, a, t)
    /\ UNCHANGED <<account, issued, latest, crossed, used, again>>

\* An unknown or expired token is turned down and nothing happens.
ResetFind(r, a, t) ==
    /\ account[a].token = t /\ ~account[a].expired
    /\ Hold(r, a, t)
    /\ UNCHANGED <<account, issued, latest, crossed, used, again>>

Count(t) ==
    /\ used' = used \cup {t}
    /\ again' = IF t \in used THEN again \cup {t} ELSE again

\* Mutant: the token stays on the row.
ResetSave_KeepsToken(r) ==
    /\ At(r, "save")
    /\ account' = [account EXCEPT ![req[r].account] = [@ EXCEPT !.password = req[r].token]]
    /\ Count(req[r].token)
    /\ Finish(r)
    /\ UNCHANGED <<issued, latest, crossed, shared>>

\* By id: whatever token the row has by now is cleared.
ResetSave(r) ==
    /\ At(r, "save")
    /\ account' = [account EXCEPT ![req[r].account] =
                     [token |-> None, expired |-> FALSE, password |-> req[r].token]]
    /\ Count(req[r].token)
    /\ Finish(r)
    /\ UNCHANGED <<issued, latest, crossed, shared>>

Crash(r) ==
    /\ ~At(r, "idle")
    /\ Finish(r)
    /\ UNCHANGED <<account, issued, latest, crossed, used, again, shared>>

Next ==
    \/ \E a \in Accounts :
         \/ Expire(a)
         \/ \E t \in Tokens : ForgotPassword(a, t) \/ \E r \in Requests : ResetFind(r, a, t)
    \/ \E r \in Requests : ResetSave(r) \/ Crash(r)

Spec == Init /\ [][Next]_vars

(***************************************************************************)
(* Properties                                                              *)
(***************************************************************************)
\* Rows, requests and histories have the columns and values of the code.
TypeOK ==
    /\ account \in [Accounts -> AccountRow]
    /\ issued \in [Tokens -> Accounts \cup {None}]
    /\ req \in [Requests -> Slot]
    /\ latest \in [Accounts -> Tokens \cup {None}]
    /\ crossed \subseteq Accounts
    /\ used \subseteq Tokens /\ again \subseteq Tokens /\ shared \subseteq Tokens

\* A token resets a password once, unless two requests have found its row before
\* either wrote it: nothing but the cleared column makes a token single-use.
TokenUsedOnce == again \subseteq shared

\* A token that was used is on no row, whatever requests are under way.
UsedTokenIsDead == \A a \in Accounts : account[a].token \notin used

\* Whoever asks for a reset finds the token on the row until it is used, unless a
\* reset with an older token was under way and has cleared it.
LatestTokenStays ==
    \A a \in Accounts :
        latest[a] # None /\ latest[a] \notin used /\ a \notin crossed => account[a].token = latest[a]

\* A new token replaces the one before: a password is written with the last token
\* stored for its account, unless an older one was under way when it was stored.
OnlyLatestResets ==
    [][\A r \in Requests :
         ResetSave(r) /\ req[r].account \notin crossed => req[r].token = latest[req[r].account]]_vars

\* What makes them so: rows and requests hold tokens of their account, and a
\* request that holds a used token shared it with the one that used it.
RowInv(a) ==
    /\ account[a].token # None =>
         /\ issued[account[a].token] = a
         /\ account[a].token = latest[a]
    /\ latest[a] # None => issued[latest[a]] = a

HolderInv(r) ==
    LET t == req[r].token IN
    /\ At(r, "idle") => req[r] = Idle
    /\ At(r, "save") =>
         /\ t # None /\ req[r].account \in Accounts /\ issued[t] = req[r].account
         /\ req[r].account \notin crossed => t = latest[req[r].account]
         /\ t \in used => t \in shared
         /\ \A q \in Requests : At(q, "save") /\ req[q].token = t => q = r \/ t \in shared

\* Inductive.
IndInv ==
    /\ TypeOK
    /\ TokenUsedOnce /\ UsedTokenIsDead /\ LatestTokenStays
    /\ \A t \in used : issued[t] # None
    /\ \A a \in Accounts : RowInv(a)
    /\ \A r \in Requests : HolderInv(r)
=============================================================================
