------------------------------- MODULE Wallet -------------------------------
(***************************************************************************)
(* A student's saved cards (PaymentMethodsService) and the Asaas customer  *)
(* they are tokenized for.  escrow's charge takes the one card that is     *)
(* default and active and bills it to Student.asaasCustomerId, so the      *)
(* wallet must keep one default card, and cards of that customer.  A       *)
(* handler gives up control at every query and call; none locks.           *)
(***************************************************************************)
EXTENDS Naturals, FiniteSets

CONSTANTS
    Tokens,         \* asaasCreditCardToken: unique, so it names the row as well
    Customers,      \* customers Asaas may create
    Requests,       \* requests in flight
    None

ASSUME WalletAssumption == IsFiniteSet(Tokens) /\ None \notin Tokens /\ None \notin Customers

VARIABLES
    card,           \* [Tokens -> PaymentMethod row]
    customer,       \* Student.asaasCustomerId
    issued,         \* Asaas: [Tokens -> the customer and whether for the test card]
    created,        \* Asaas: the customers there are
    req,            \* [Requests -> request]
    raced,          \* history: a request set out to create the customer beside another
    upset           \* history: since the last undisturbed setDefault, requests overlapped or
                    \* died, a client chose isDefault itself, or seedTest restored a card

vars == <<card, customer, issued, created, req, raced, upset>>

\* born is createdAt, as the number of rows there were.
CardRow == [at : {"none", "active", "deleted"}, default : BOOLEAN, born : Nat]

NoRow == [at |-> "none", default |-> FALSE, born |-> 0]

TokenRow == [to : Customers \cup {None}, seed : BOOLEAN]

Pc == {"idle", "newCustomer", "link", "tokenize", "existing", "restore", "count", "create",
       "delete", "next", "promote", "clear", "swap"}

\* chosen: dto.isDefault was given; default: that value, or pm.isDefault; seen: rows
\* the updateMany of setDefault found.
Slot == [at : Pc, seed : BOOLEAN, chosen : BOOLEAN, default : BOOLEAN,
         customer : Customers \cup {None}, token : Tokens \cup {None}, seen : SUBSET Tokens]

Idle == [at |-> "idle", seed |-> FALSE, chosen |-> FALSE, default |-> FALSE,
         customer |-> None, token |-> None, seen |-> {}]

At(r, at) == req[r].at = at
Goto(r, slot) == req' = [req EXCEPT ![r] = slot]
Step(r, at) == Goto(r, [req[r] EXCEPT !.at = at])
Finish(r) == Goto(r, Idle)

Active == {t \in Tokens : card[t].at = "active"}
Defaults == {t \in Tokens : card[t].default}
Rows == {t \in Tokens : card[t].at # "none"}

Quiet == \A r \in Requests : At(r, "idle")
Ensuring == {r \in Requests : req[r].at \in {"newCustomer", "link"}}

Begin(r, slot, upsets) ==
    /\ At(r, "idle")
    /\ Goto(r, slot)
    /\ raced' = (raced \/ (slot.at = "newCustomer" /\ Ensuring # {}))
    /\ upset' = (upsets \/ ~Quiet)
    /\ UNCHANGED <<card, customer, issued, created>>

Init ==
    /\ card = [t \in Tokens |-> NoRow]
    /\ customer = None
    /\ issued = [t \in Tokens |-> [to |-> None, seed |-> FALSE]]
    /\ created = {}
    /\ req = [r \in Requests |-> Idle]
    /\ raced = FALSE /\ upset = FALSE

(***************************************************************************)
(* ensureAsaasCustomer                                                     *)
(***************************************************************************)
Ensured == [Idle EXCEPT !.at = IF customer = None THEN "newCustomer" ELSE "tokenize",
                        !.customer = customer]

NewCustomer(r, k) ==
    /\ At(r, "newCustomer")
    /\ k \notin created
    /\ created' = created \cup {k}
    /\ Goto(r, [req[r] EXCEPT !.at = "link", !.customer = k])
    /\ UNCHANGED <<card, customer, issued, raced, upset>>

\* Mutant: the customer is not stored.
LinkCustomer_Forgotten(r) ==
    /\ At(r, "link")
    /\ Step(r, "tokenize")
    /\ UNCHANGED <<card, customer, issued, created, raced, upset>>

LinkCustomer(r) ==
    /\ At(r, "link")
    /\ customer' = req[r].customer
    /\ Step(r, "tokenize")
    /\ UNCHANGED <<card, issued, created, raced, upset>>

(***************************************************************************)
(* addCard and seedTest                                                    *)
(***************************************************************************)
\* dto.isDefault is absent, or chosen by the client.
AddCard(r, chosen, default) ==
    Begin(r, [Ensured EXCEPT !.chosen = chosen, !.default = default], upset \/ chosen)

SeedTest(r) == Begin(r, [Ensured EXCEPT !.seed = TRUE], upset)

\* Asaas refuses the card, issues a token, or repeats the one of the test card.
Tokenize(r, t) ==
    /\ At(r, "tokenize")
    /\ \/ Finish(r) /\ UNCHANGED issued
       \/ /\ \/ /\ issued[t].to = None
                /\ issued' = [issued EXCEPT ![t] = [to |-> req[r].customer, seed |-> req[r].seed]]
             \/ /\ req[r].seed /\ issued[t] = [to |-> req[r].customer, seed |-> TRUE]
                /\ UNCHANGED issued
          /\ Goto(r, [req[r] EXCEPT !.at = IF req[r].seed THEN "existing" ELSE "count", !.token = t])
    /\ UNCHANGED <<card, customer, created, raced, upset>>

\* seedTest: the row of the token, if there is one.
FindExisting(r) ==
    /\ At(r, "existing")
    /\ \/ card[req[r].token].at = "none"    /\ Step(r, "count")
       \/ card[req[r].token].at = "active"  /\ Finish(r)
       \/ card[req[r].token].at = "deleted" /\ Step(r, "restore")
    /\ UNCHANGED <<card, customer, issued, created, raced, upset>>

\* A restored card is not made default, even if it is the only one.
Restore(r) ==
    /\ At(r, "restore")
    /\ card' = [card EXCEPT ![req[r].token].at = "active"]
    /\ upset' = TRUE
    /\ Finish(r)
    /\ UNCHANGED <<customer, issued, created, raced>>

CountActive(r) ==
    /\ At(r, "count")
    /\ Goto(r, [req[r] EXCEPT !.at = "create",
                              !.default = IF req[r].chosen THEN @ ELSE Active = {}])
    /\ UNCHANGED <<card, customer, issued, created, raced, upset>>

\* A token that has a row is turned down by the unique index.
CreateCard(r) ==
    /\ At(r, "create")
    /\ IF card[req[r].token].at = "none"
       THEN card' = [card EXCEPT ![req[r].token] =
                       [at |-> "active", default |-> req[r].default, born |-> Cardinality(Rows)]]
       ELSE UNCHANGED card
    /\ Finish(r)
    /\ UNCHANGED <<customer, issued, created, raced, upset>>

(***************************************************************************)
(* remove                                                                  *)
(***************************************************************************)
Remove(r, t) ==
    /\ t \in Active
    /\ Begin(r, [Idle EXCEPT !.at = "delete", !.token = t, !.default = card[t].default], upset)

DeleteCard(r) ==
    /\ At(r, "delete")
    /\ card' = [card EXCEPT ![req[r].token].at = "deleted", ![req[r].token].default = FALSE]
    /\ IF req[r].default THEN Step(r, "next") ELSE Finish(r)
    /\ UNCHANGED <<customer, issued, created, raced, upset>>

Newest(t) == t \in Active /\ \A u \in Active : card[u].born <= card[t].born

FindNext(r) ==
    /\ At(r, "next")
    /\ \/ Active = {} /\ Finish(r)
       \/ \E t \in Tokens : Newest(t) /\ Goto(r, [req[r] EXCEPT !.at = "promote", !.token = t])
    /\ UNCHANGED <<card, customer, issued, created, raced, upset>>

Promote(r) ==
    /\ At(r, "promote")
    /\ card' = [card EXCEPT ![req[r].token].default = TRUE]
    /\ Finish(r)
    /\ UNCHANGED <<customer, issued, created, raced, upset>>

(***************************************************************************)
(* setDefault                                                              *)
(***************************************************************************)
SetDefault(r, t) ==
    /\ t \in Active
    /\ Begin(r, [Idle EXCEPT !.at = "clear", !.token = t], FALSE)

\* The updateMany of the transaction: at READ COMMITTED it sees what is committed now.
FindDefaults(r) ==
    /\ At(r, "clear")
    /\ Goto(r, [req[r] EXCEPT !.at = "swap", !.seen = Defaults])
    /\ UNCHANGED <<card, customer, issued, created, raced, upset>>

\* Mutant: the former default is not cleared.
SwapDefault_Keep(r) ==
    /\ At(r, "swap")
    /\ card' = [card EXCEPT ![req[r].token].default = TRUE]
    /\ Finish(r)
    /\ UNCHANGED <<customer, issued, created, raced, upset>>

\* Its commit.
SwapDefault(r) ==
    /\ At(r, "swap")
    /\ card' = [t \in Tokens |->
                  [card[t] EXCEPT !.default = t = req[r].token \/ (@ /\ t \notin req[r].seen)]]
    /\ Finish(r)
    /\ UNCHANGED <<customer, issued, created, raced, upset>>

(***************************************************************************)
(* The specification                                                       *)
(***************************************************************************)
Crash(r) ==
    /\ ~At(r, "idle")
    /\ Finish(r)
    /\ upset' = TRUE
    /\ UNCHANGED <<card, customer, issued, created, raced>>

Start(r) ==
    \/ AddCard(r, FALSE, FALSE) \/ (\E default \in BOOLEAN : AddCard(r, TRUE, default))
    \/ SeedTest(r)
    \/ \E t \in Tokens : Remove(r, t) \/ SetDefault(r, t)

Continue(r) ==
    \/ \E k \in Customers : NewCustomer(r, k)
    \/ LinkCustomer(r) \/ (\E t \in Tokens : Tokenize(r, t))
    \/ FindExisting(r) \/ Restore(r) \/ CountActive(r) \/ CreateCard(r)
    \/ DeleteCard(r) \/ FindNext(r) \/ Promote(r)
    \/ FindDefaults(r) \/ SwapDefault(r)

Next == \E r \in Requests : Start(r) \/ Continue(r) \/ Crash(r)

Spec == Init /\ [][Next]_vars

(***************************************************************************)
(* Properties                                                              *)
(***************************************************************************)
RowsOK ==
    /\ card \in [Tokens -> CardRow]
    /\ customer \in Customers \cup {None}
    /\ issued \in [Tokens -> TokenRow]
    /\ created \subseteq Customers
    /\ req \in [Requests -> Slot]

\* Rows, requests and the provider's state have the columns and values of the code.
TypeOK == RowsOK /\ raced \in BOOLEAN /\ upset \in BOOLEAN

\* The wallet charge relies on: some card is the default as soon as there is a card.
OneDefault ==
    /\ Active # {} => Cardinality(Defaults) = 1
    /\ Defaults \subseteq Active

\* FLOW_AND_FEATURES.md:121: whatever cards are added, removed and chosen one after
\* the other, there is one default card; and a setDefault that runs alone mends
\* what overlapping requests, crashes or clients have done to it.
DefaultKept == Quiet /\ ~upset => OneDefault

\* The student's cards are cards of the student's customer, however cards are added,
\* restored and removed at once and wherever requests die, until two requests each
\* set out to create the customer.
CardsOfCustomer == ~raced => \A t \in Rows : issued[t].to = customer
=============================================================================
