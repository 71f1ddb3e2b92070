---------------------------- MODULE Wallet_proofs ----------------------------
(***************************************************************************)
(* The cards are cards of the student's customer unless two requests each  *)
(* create one, and undisturbed there is one default card, for any number   *)
(* of cards, customers and requests.                                       *)
(***************************************************************************)
EXTENDS Wallet, FiniteSetTheorems, TLAPS

(***************************************************************************)
(* Types                                                                   *)
(***************************************************************************)
LEMMA IdleType == Idle \in Slot
BY DEF Idle, Slot, Pc

LEMMA EnsuredType ==
    ASSUME RowsOK
    PROVE  /\ Ensured \in Slot
           /\ \A b \in BOOLEAN : [Ensured EXCEPT !.seed = b] \in Slot
           /\ \A b, d \in BOOLEAN : [Ensured EXCEPT !.chosen = b, !.default = d] \in Slot
BY DEF Ensured, Idle, Slot, Pc, RowsOK

LEMMA BirthType == Cardinality(Rows) \in Nat
BY WalletAssumption, FS_Subset, FS_CardinalityType DEF Rows

\* A request that only moves on keeps the types.
LEMMA GotoType ==
    ASSUME RowsOK, NEW r \in Requests, NEW slot \in Slot, Goto(r, slot),
           UNCHANGED <<card, customer, issued, created>>
    PROVE  RowsOK'
BY DEF RowsOK, Goto

LEMMA Fields ==
    ASSUME NEW s \in Slot, NEW a, NEW t, NEW x
    PROVE  /\ [s EXCEPT !.at = a].at = a /\ [s EXCEPT !.at = a].token = s.token
           /\ [s EXCEPT !.at = a].chosen = s.chosen
           /\ [s EXCEPT !.at = a, !.token = t].at = a /\ [s EXCEPT !.at = a, !.token = t].token = t
           /\ [s EXCEPT !.at = a, !.token = t].chosen = s.chosen
           /\ [s EXCEPT !.at = a, !.customer = x].at = a
           /\ [s EXCEPT !.at = a, !.customer = x].chosen = s.chosen
           /\ [s EXCEPT !.at = a, !.default = x].at = a
           /\ [s EXCEPT !.at = a, !.default = x].default = x
           /\ [s EXCEPT !.at = a, !.seen = x].at = a /\ [s EXCEPT !.at = a, !.seen = x].token = s.token
           /\ [s EXCEPT !.at = a, !.seen = x].seen = x
BY DEF Slot

LEMMA RowsInit == Init => RowsOK
BY IdleType DEF Init, RowsOK, NoRow, CardRow, TokenRow

LEMMA StartRows ==
    ASSUME RowsOK, NEW r \in Requests, Start(r)
    PROVE  RowsOK'
<1>1. ASSUME NEW b \in BOOLEAN, NEW d \in BOOLEAN, AddCard(r, b, d) PROVE RowsOK'
  BY <1>1, GotoType, EnsuredType DEF AddCard, Begin
<1>2. CASE SeedTest(r)
  BY <1>2, GotoType, EnsuredType DEF SeedTest, Begin
<1>3. ASSUME NEW t \in Tokens, Remove(r, t) PROVE RowsOK'
  <2>1. card[t].default \in BOOLEAN
    BY DEF RowsOK, CardRow
  <2>2. [Idle EXCEPT !.at = "delete", !.token = t, !.default = card[t].default] \in Slot
    BY <2>1 DEF Idle, Slot, Pc
  <2> QED BY <1>3, <2>2, GotoType DEF Remove, Begin
<1>4. ASSUME NEW t \in Tokens, SetDefault(r, t) PROVE RowsOK'
  <2>1. [Idle EXCEPT !.at = "clear", !.token = t] \in Slot
    BY DEF Idle, Slot, Pc
  <2> QED BY <1>4, <2>1, GotoType DEF SetDefault, Begin
<1> QED BY <1>1, <1>2, <1>3, <1>4 DEF Start

LEMMA ContinueRows ==
    ASSUME RowsOK, NEW r \in Requests, Continue(r)
    PROVE  RowsOK'
<1>0. req[r] \in Slot
  BY DEF RowsOK
<1>1. ASSUME NEW k \in Customers, NewCustomer(r, k) PROVE RowsOK'
  BY <1>1 DEF NewCustomer, RowsOK, Goto, Slot, Pc
<1>2. CASE LinkCustomer(r)
  BY <1>2 DEF LinkCustomer, RowsOK, Step, Goto, Slot, Pc
<1>3. ASSUME NEW t \in Tokens, Tokenize(r, t) PROVE RowsOK'
  <2>1. [to |-> req[r].customer, seed |-> req[r].seed] \in TokenRow
    BY <1>0 DEF Slot, TokenRow
  <2>2. issued' \in [Tokens -> TokenRow]
    BY <1>3, <2>1 DEF Tokenize, RowsOK
  <2>3. \A pc \in Pc : [req[r] EXCEPT !.at = pc, !.token = t] \in Slot
    BY <1>0 DEF Slot
  <2>4. req' \in [Requests -> Slot]
    BY <1>3, <2>3, IdleType DEF Tokenize, Finish, Goto, RowsOK, Pc
  <2> QED BY <1>3, <2>2, <2>4 DEF Tokenize, RowsOK
<1>4. CASE FindExisting(r)
  <2>1. \A pc \in Pc : [req[r] EXCEPT !.at = pc] \in Slot
    BY <1>0 DEF Slot
  <2> QED BY <1>4, <2>1, GotoType, IdleType DEF FindExisting, Step, Finish, Pc
<1>5. CASE Restore(r)
  BY <1>5, IdleType DEF Restore, RowsOK, Finish, Goto, CardRow
<1>6. CASE CountActive(r)
  <2>1. (Active = {}) \in BOOLEAN /\ req[r].default \in BOOLEAN
    BY <1>0 DEF Slot
  <2>2. \A d \in BOOLEAN : [req[r] EXCEPT !.at = "create", !.default = d] \in Slot
    BY <1>0 DEF Slot, Pc
  <2>3. (IF req[r].chosen THEN req[r].default ELSE Active = {}) \in BOOLEAN
    BY <2>1, Zenon
  <2>4. [req[r] EXCEPT !.at = "create",
                       !.default = IF req[r].chosen THEN @ ELSE Active = {}] \in Slot
    BY <1>0, <2>2, <2>3 DEF Slot
  <2> QED BY <1>6, <2>4, GotoType DEF CountActive
<1>7. CASE CreateCard(r)
  <2>1. [at |-> "active", default |-> req[r].default, born |-> Cardinality(Rows)] \in CardRow
    BY <1>0, BirthType DEF Slot, CardRow
  <2>2. card' \in [Tokens -> CardRow]
    BY <1>7, <2>1 DEF CreateCard, RowsOK
  <2> QED BY <1>7, <2>2, IdleType DEF CreateCard, RowsOK, Finish, Goto
<1>8. CASE DeleteCard(r)
  <2>1. [req[r] EXCEPT !.at = "next"] \in Slot
    BY <1>0 DEF Slot, Pc
  <2>2. req' \in [Requests -> Slot]
    BY <1>8, <2>1, IdleType DEF DeleteCard, RowsOK, Step, Finish, Goto
  <2>3. card' \in [Tokens -> CardRow]
    BY <1>8 DEF DeleteCard, RowsOK, CardRow
  <2> QED BY <1>8, <2>2, <2>3 DEF DeleteCard, RowsOK
<1>9. CASE FindNext(r)
  <2>1. \A t \in Tokens : [req[r] EXCEPT !.at = "promote", !.token = t] \in Slot
    BY <1>0 DEF Slot, Pc
  <2> QED BY <1>9, <2>1, GotoType, IdleType DEF FindNext, Finish
<1>10. CASE Promote(r)
  BY <1>10, IdleType DEF Promote, RowsOK, Finish, Goto, CardRow
<1>11. CASE FindDefaults(r)
  <2>1. [req[r] EXCEPT !.at = "swap", !.seen = Defaults] \in Slot
    BY <1>0 DEF Slot, Pc, Defaults
  <2> QED BY <1>11, <2>1, GotoType DEF FindDefaults
<1>12. CASE SwapDefault(r)
  <2>1. \A t \in Tokens, d \in BOOLEAN : [card[t] EXCEPT !.default = d] \in CardRow
    BY DEF RowsOK, CardRow
  <2>2. \A t \in Tokens : (t = req[r].token \/ (card[t].default /\ t \notin req[r].seen)) \in BOOLEAN
    BY Zenon
  <2>3. \A t \in Tokens :
          [card[t] EXCEPT !.default = t = req[r].token \/ (@ /\ t \notin req[r].seen)]
            = [card[t] EXCEPT !.default = t = req[r].token \/ (card[t].default /\ t \notin req[r].seen)]
    BY DEF RowsOK, CardRow
  <2>4. card' \in [Tokens -> CardRow]
    BY <1>12, <2>1, <2>2, <2>3 DEF SwapDefault
  <2> QED BY <1>12, <2>4, IdleType DEF SwapDefault, RowsOK, Finish, Goto
<1> QED BY <1>1, <1>2, <1>3, <1>4, <1>5, <1>6, <1>7, <1>8, <1>9, <1>10, <1>11, <1>12 DEF Continue

LEMMA RowsNext == RowsOK /\ [Next]_vars => RowsOK'
<1> SUFFICES ASSUME RowsOK, [Next]_vars PROVE RowsOK'
  OBVIOUS
<1>1. ASSUME NEW r \in Requests, Crash(r) PROVE RowsOK'
  BY <1>1, GotoType, IdleType DEF Crash, Finish
<1>2. CASE UNCHANGED vars
  BY <1>2 DEF vars, RowsOK
<1> QED BY <1>1, <1>2, StartRows, ContinueRows DEF Next

(***************************************************************************)
(* The histories                                                           *)
(***************************************************************************)
LEMMA RacedNext ==
    [Next]_vars => UNCHANGED raced \/ \E x : raced' = (raced \/ x)
<1>1. ASSUME NEW r \in Requests, Continue(r) \/ Crash(r) PROVE UNCHANGED raced
  BY <1>1, Zenon DEF Continue, Crash, NewCustomer, LinkCustomer, Tokenize, FindExisting, Restore,
    CountActive, CreateCard, DeleteCard, FindNext, Promote, FindDefaults, SwapDefault
<1>2. ASSUME NEW r \in Requests, Start(r) PROVE \E x : raced' = (raced \/ x)
  BY <1>2, Zenon DEF Start, AddCard, SeedTest, Remove, SetDefault, Begin
<1> QED BY <1>1, <1>2, Zenon DEF Next, vars

LEMMA UpsetType == TypeOK /\ [Next]_vars => upset' \in BOOLEAN
<1> SUFFICES ASSUME upset \in BOOLEAN, [Next]_vars PROVE upset' \in BOOLEAN
  BY DEF TypeOK
<1>1. ASSUME NEW r \in Requests, Continue(r) \/ Crash(r) PROVE UNCHANGED upset \/ upset' = TRUE
  BY <1>1, Zenon DEF Continue, Crash, NewCustomer, LinkCustomer, Tokenize, FindExisting, Restore,
    CountActive, CreateCard, DeleteCard, FindNext, Promote, FindDefaults, SwapDefault
<1>2. ASSUME NEW r \in Requests, Start(r) PROVE \E u : upset' = (u \/ ~Quiet)
  BY <1>2, Zenon DEF Start, AddCard, SeedTest, Remove, SetDefault, Begin
<1> QED BY <1>1, <1>2, Zenon DEF Next, vars

LEMMA TypeInit == Init => TypeOK
<1>1. Init => raced \in BOOLEAN /\ upset \in BOOLEAN
  BY DEF Init
<1> QED BY <1>1, RowsInit DEF TypeOK

LEMMA TypeNext == TypeOK /\ [Next]_vars => TypeOK'
<1> SUFFICES ASSUME TypeOK, [Next]_vars PROVE TypeOK'
  OBVIOUS
<1>1. raced \in BOOLEAN
  BY DEF TypeOK
<1>2. raced' \in BOOLEAN
  BY <1>1, RacedNext, Zenon
<1> QED BY <1>2, UpsetType, RowsNext DEF TypeOK

\* Rows, requests and the provider's state keep their types.
THEOREM Typed == Spec => []TypeOK
BY TypeInit, TypeNext, PTL DEF Spec

(***************************************************************************)
(* Cards of the student's customer                                         *)
(***************************************************************************)
Solo == \A q, r \in Requests : ~At(q, "idle") /\ ~At(r, "idle") => q = r

\* A request that is alone stays alone.
LEMMA StaysSolo ==
    ASSUME NEW r \in Requests, NEW slot, RowsOK, Goto(r, slot),
           \A q \in Requests : q # r => At(q, "idle")
    PROVE  /\ req'[r] = slot /\ Solo'
           /\ \A q \in Requests : q # r => req'[q].at = "idle"
           /\ slot.at = "idle" => \A q \in Requests : req'[q].at = "idle"
           /\ slot.at # "idle" => ~Quiet'
BY DEF RowsOK, Goto, Solo, At, Quiet

\* What a request starts with.
Fresh(slot) ==
    \/ slot.at = "newCustomer" /\ customer = None
    \/ slot.at = "tokenize" /\ slot.customer = customer /\ customer # None
    \/ slot.at = "delete" /\ slot.token \in Active /\ (slot.default <=> card[slot.token].default)
    \/ slot.at = "clear" /\ slot.token \in Active

LEMMA StartFresh ==
    ASSUME RowsOK, NEW r \in Requests, Start(r)
    PROVE  /\ UNCHANGED <<card, customer, issued>>
           /\ \A q \in Requests : q # r => req'[q] = req[q]
           /\ Fresh(req'[r])
<1>1. ASSUME NEW slot, NEW u, Begin(r, slot, u)
      PROVE  /\ UNCHANGED <<card, customer, issued>> /\ req'[r] = slot
             /\ \A q \in Requests : q # r => req'[q] = req[q]
  BY <1>1 DEF Begin, Goto, RowsOK
<1>2. ASSUME NEW b, NEW d
      PROVE  /\ Fresh([Ensured EXCEPT !.chosen = b, !.default = d])
             /\ Fresh([Ensured EXCEPT !.seed = b])
  BY DEF Fresh, Ensured, Idle
<1>3. ASSUME NEW b, NEW d, AddCard(r, b, d) \/ SeedTest(r) PROVE Fresh(req'[r])
  <2>1. CASE AddCard(r, b, d)
    <3>1. \E u : Begin(r, [Ensured EXCEPT !.chosen = b, !.default = d], u)
      BY <2>1, Zenon DEF AddCard
    <3>2. req'[r] = [Ensured EXCEPT !.chosen = b, !.default = d]
      BY <1>1, <3>1, Zenon
    <3>3. Fresh([Ensured EXCEPT !.chosen = b, !.default = d])
      BY <1>2
    <3> QED BY <3>2, <3>3
  <2>2. CASE SeedTest(r)
    BY <1>1, <1>2, <2>2 DEF SeedTest
  <2> QED BY <1>3, <2>1, <2>2
<1>4. ASSUME NEW t \in Active, NEW d, d = card[t].default
      PROVE  Fresh([Idle EXCEPT !.at = "delete", !.token = t, !.default = d])
  BY <1>4 DEF Fresh, Idle
<1>5. ASSUME NEW t \in Active
      PROVE  Fresh([Idle EXCEPT !.at = "clear", !.token = t])
  BY DEF Fresh, Idle
<1>6. ASSUME NEW t \in Tokens, Remove(r, t) \/ SetDefault(r, t) PROVE Fresh(req'[r])
  <2>1. CASE Remove(r, t)
    BY <1>1, <1>4, <2>1 DEF Remove
  <2>2. CASE SetDefault(r, t)
    BY <1>1, <1>5, <2>2 DEF SetDefault
  <2> QED BY <1>6, <2>1, <2>2
<1>7. \E slot, u : Begin(r, slot, u)
  BY Zenon DEF Start, AddCard, SeedTest, Remove, SetDefault
<1> QED BY <1>1, <1>3, <1>6, <1>7 DEF Start

CustomerAgrees == \A t \in Rows : issued[t].to = customer /\ customer # None

CustomerOf(r) ==
    /\ req[r].at \in {"newCustomer", "link"} => customer = None
    /\ At(r, "link") => req[r].customer \in Customers
    /\ At(r, "tokenize") => req[r].customer = customer /\ customer # None
    /\ req[r].at \in {"existing", "restore", "count", "create"} =>
         /\ req[r].token \in Tokens
         /\ issued[req[r].token].to = customer /\ customer # None
    /\ At(r, "delete") => req[r].token \in Rows

\* One request at a time creates the customer; all others work for the customer on
\* record, who owns all cards there are.
CustomerInv ==
    ~raced =>
        /\ \A q, r \in Ensuring : q = r
        /\ CustomerAgrees
        /\ \A r \in Requests : CustomerOf(r)

\* What a request knows stays true while others work.
LEMMA OthersKeep ==
    ASSUME NEW q \in Requests, CustomerOf(q), req'[q] = req[q],
           \A t \in Tokens : issued[t].to # None => issued'[t].to = issued[t].to,
           Rows \subseteq Rows',
           \/ customer' = customer
           \/ Rows = {} /\ customer = None /\ q \notin Ensuring
    PROVE  CustomerOf(q)'
<1>1. CASE customer' = customer
  BY <1>1 DEF CustomerOf, At
<1>2. CASE Rows = {} /\ customer = None /\ q \notin Ensuring
  BY <1>2 DEF CustomerOf, Ensuring, At
<1> QED BY <1>1, <1>2

\* Rows stay, as a removed card keeps its own.
LEMMA RowsStay ==
    ASSUME RowsOK, NEW r \in Requests, Continue(r)
    PROVE  Rows \subseteq Rows'
<1>0. req[r] \in Slot
  BY DEF RowsOK
<1>1. CASE Restore(r) \/ CreateCard(r) \/ DeleteCard(r) \/ Promote(r)
  BY <1>1 DEF Restore, CreateCard, DeleteCard, Promote, Rows, RowsOK, CardRow
<1>2. CASE SwapDefault(r)
  <2>1. \A t \in Tokens : card'[t].at = card[t].at
    BY <1>2 DEF SwapDefault, RowsOK, CardRow
  <2> QED BY <2>1 DEF Rows
<1>3. CASE UNCHANGED card
  BY <1>3 DEF Rows
<1> QED
  BY <1>1, <1>2, <1>3
     DEF Continue, NewCustomer, LinkCustomer, Tokenize, FindExisting, CountActive, FindNext,
         FindDefaults

\* A step of a request leaves the other requests, and the customers of the tokens
\* that have one, alone.
LEMMA ContinueFrame ==
    ASSUME RowsOK, NEW r \in Requests, Continue(r)
    PROVE  /\ \A q \in Requests : q # r => req'[q] = req[q]
           /\ \A t \in Tokens : issued[t].to # None => issued'[t].to = issued[t].to
<1>1. \E slot : Goto(r, slot)
  BY DEF Continue, NewCustomer, LinkCustomer, Tokenize, FindExisting, Restore,
    CountActive, CreateCard, DeleteCard, FindNext, Promote, FindDefaults, SwapDefault, Step, Finish
<1>2. \A q \in Requests : q # r => req'[q] = req[q]
  BY <1>1 DEF Goto, RowsOK
<1>3. ASSUME NEW u \in Tokens, Tokenize(r, u), NEW t \in Tokens, issued[t].to # None
      PROVE  issued'[t].to = issued[t].to
  BY <1>3 DEF Tokenize, RowsOK
<1>4. UNCHANGED issued \/ \E u \in Tokens : Tokenize(r, u)
  BY DEF Continue, NewCustomer, LinkCustomer, FindExisting, Restore,
    CountActive, CreateCard, DeleteCard, FindNext, Promote, FindDefaults, SwapDefault
<1> QED BY <1>2, <1>3, <1>4

\* A request that begins creates the customer only if no other is about to.
LEMMA StartAlone ==
    ASSUME RowsOK, NEW r \in Requests, Start(r), ~raced'
    PROVE  ~raced /\ (req'[r].at = "newCustomer" => Ensuring = {})
<1>1. \E slot, u : Begin(r, slot, u)
  BY Zenon DEF Start, AddCard, SeedTest, Remove, SetDefault
<1>2. PICK slot : req'[r] = slot /\ raced' = (raced \/ (slot.at = "newCustomer" /\ Ensuring # {}))
  BY <1>1 DEF Begin, Goto, RowsOK
<1>3. ~(raced \/ (slot.at = "newCustomer" /\ Ensuring # {}))
  BY <1>2, Zenon
<1> QED BY <1>2, <1>3, Zenon

LEMMA StartCustomer ==
    ASSUME RowsOK, CustomerInv, NEW r \in Requests, Start(r), ~raced'
    PROVE  CustomerInv'
<1>1. ~raced /\ (req'[r].at = "newCustomer" => Ensuring = {})
  BY StartAlone
<1>2. /\ UNCHANGED <<card, customer, issued>>
      /\ \A q \in Requests : q # r => req'[q] = req[q]
      /\ Fresh(req'[r])
  BY StartFresh
<1>3. \A q, p \in Ensuring' : q = p
  <2>1. \A q \in Ensuring' : q \in Ensuring \/ (q = r /\ req'[r].at = "newCustomer")
    BY <1>2 DEF Ensuring, Fresh
  <2> QED BY <1>1, <2>1 DEF CustomerInv
<1>4. CustomerOf(r)'
  BY <1>2 DEF Fresh, CustomerOf, Active, Rows, At
<1>5. ASSUME NEW q \in Requests, q # r PROVE CustomerOf(q)'
  BY <1>1, <1>2, <1>5 DEF CustomerInv, CustomerOf, Rows, At
<1> QED BY <1>1, <1>2, <1>3, <1>4, <1>5 DEF CustomerInv, CustomerAgrees, Rows

\* What a step of a request does to the cards and to itself.
OwnStep(r) ==
    /\ CustomerAgrees' /\ CustomerOf(r)'
    /\ r \in Ensuring' => r \in Ensuring
    /\ customer' = customer \/ (r \in Ensuring /\ Rows = {} /\ customer = None)

LEMMA ContinueOwn ==
    ASSUME RowsOK, CustomerInv, ~raced, NEW r \in Requests, Continue(r)
    PROVE  OwnStep(r)
<1>0. CustomerAgrees /\ CustomerOf(r) /\ req[r] \in Slot
  BY DEF CustomerInv, RowsOK
<1>1. ASSUME NEW k \in Customers, NewCustomer(r, k) PROVE OwnStep(r)
  BY <1>0, <1>1
     DEF OwnStep, NewCustomer, Goto, CustomerAgrees, CustomerOf, Ensuring, Rows, RowsOK, Slot, At
<1>2. CASE LinkCustomer(r)
  <2>1. Rows = {} /\ UNCHANGED card /\ r \in Ensuring /\ customer = None
    BY <1>0, <1>2 DEF LinkCustomer, CustomerOf, CustomerAgrees, Ensuring, At
  <2>2. req'[r].at = "tokenize" /\ req'[r].customer = req[r].customer /\ req[r].customer # None
    BY <1>0, <1>2, WalletAssumption DEF LinkCustomer, Step, Goto, RowsOK, Slot, CustomerOf, At
  <2> QED
    BY <1>2, <2>1, <2>2
       DEF OwnStep, LinkCustomer, CustomerAgrees, CustomerOf, Ensuring, Rows, At
<1>3. ASSUME NEW t \in Tokens, Tokenize(r, t) PROVE OwnStep(r)
  <2>1. req[r].customer = customer /\ customer # None /\ UNCHANGED <<card, customer>>
    BY <1>0, <1>3 DEF Tokenize, CustomerOf, At
  <2>2. \A u \in Rows : issued'[u].to = customer
    BY <1>0, <1>3 DEF Tokenize, CustomerAgrees, RowsOK, Rows
  <2>3. \/ req'[r] = Idle
        \/ /\ req'[r].at \in {"existing", "count"} /\ req'[r].token = t
           /\ issued'[t].to = customer
    <3>1. CASE Finish(r)
      BY <3>1 DEF Finish, Goto, RowsOK
    <3>2. CASE ~Finish(r)
      <4>1. req'[r].at \in {"existing", "count"} /\ req'[r].token = t
        <5>1. PICK pc \in {"existing", "count"} : Goto(r, [req[r] EXCEPT !.at = pc, !.token = t])
          BY <1>3, <3>2 DEF Tokenize
        <5> QED BY <1>0, <5>1, Fields DEF Goto, RowsOK
      <4>2. issued'[t].to = customer
        BY <1>3, <2>1, <3>2 DEF Tokenize, RowsOK
      <4> QED BY <4>1, <4>2
    <3> QED BY <3>1, <3>2
  <2> QED
    BY <2>1, <2>2, <2>3 DEF OwnStep, CustomerAgrees, CustomerOf, Ensuring, Rows, Idle, At
<1>4. CASE FindExisting(r)
  <2>1. /\ UNCHANGED <<card, customer, issued>>
        /\ \/ req'[r] = Idle
           \/ req'[r].at \in {"count", "restore"} /\ req'[r].token = req[r].token
    BY <1>0, <1>4 DEF FindExisting, Step, Finish, Goto, RowsOK, Slot
  <2> QED
    BY <1>0, <1>4, <2>1
       DEF OwnStep, FindExisting, CustomerAgrees, CustomerOf, Ensuring, Rows, Idle, At
<1>5. CASE Restore(r) \/ CreateCard(r)
  <2>1. /\ UNCHANGED <<customer, issued>> /\ req'[r] = Idle
        /\ req[r].token \in Tokens /\ issued[req[r].token].to = customer /\ customer # None
    BY <1>0, <1>5 DEF Restore, CreateCard, CustomerOf, Finish, Goto, RowsOK, At
  <2>2. \A u \in Tokens : u # req[r].token => card'[u] = card[u]
    BY <1>5, <2>1 DEF Restore, CreateCard, RowsOK
  <2> QED
    BY <1>0, <2>1, <2>2 DEF OwnStep, CustomerAgrees, CustomerOf, Ensuring, Rows, Idle, At
<1>6. CASE CountActive(r)
  <2>1. /\ UNCHANGED <<card, customer, issued>>
        /\ req'[r].at = "create" /\ req'[r].token = req[r].token
    BY <1>0, <1>6 DEF CountActive, Goto, RowsOK, Slot
  <2> QED
    BY <1>0, <1>6, <2>1
       DEF OwnStep, CountActive, CustomerAgrees, CustomerOf, Ensuring, Rows, At
<1>7. CASE DeleteCard(r) \/ FindNext(r) \/ Promote(r) \/ FindDefaults(r) \/ SwapDefault(r)
  <2>1. UNCHANGED <<customer, issued>> /\ req'[r].at \in {"idle", "next", "promote", "swap"}
    <3>1. CASE DeleteCard(r)
      BY <1>0, <3>1 DEF DeleteCard, Step, Finish, Goto, Idle, RowsOK, Slot
    <3>2. CASE FindNext(r)
      <4>1. ASSUME Finish(r) PROVE req'[r].at = "idle"
        BY <4>1 DEF Finish, Goto, Idle, RowsOK
      <4>2. ASSUME NEW t, Goto(r, [req[r] EXCEPT !.at = "promote", !.token = t])
            PROVE  req'[r].at = "promote"
        BY <1>0, <4>2, Fields DEF Goto, RowsOK
      <4> QED BY <3>2, <4>1, <4>2 DEF FindNext, Finish, Goto, Idle
    <3>3. CASE FindDefaults(r)
      BY <1>0, <3>3, Fields DEF FindDefaults, Goto, RowsOK
    <3>4. CASE Promote(r) \/ SwapDefault(r)
      BY <3>4 DEF Promote, SwapDefault, Finish, Goto, Idle, RowsOK
    <3> QED BY <1>7, <3>1, <3>2, <3>3, <3>4
  <2>2. Rows' \subseteq Rows
    <3>1. CASE DeleteCard(r)
      BY <1>0, <3>1 DEF DeleteCard, CustomerOf, Rows, RowsOK, At
    <3>2. CASE FindNext(r) \/ FindDefaults(r)
      BY <3>2 DEF FindNext, FindDefaults, Rows
    <3>3. CASE Promote(r)
      BY <3>3 DEF Promote, Rows, RowsOK, CardRow
    <3>4. CASE SwapDefault(r)
      <4>1. \A t \in Tokens : card'[t].at = card[t].at
        BY <3>4 DEF SwapDefault, RowsOK, CardRow
      <4> QED BY <4>1 DEF Rows
    <3> QED BY <1>7, <3>1, <3>2, <3>3, <3>4
  <2> QED BY <1>0, <2>1, <2>2 DEF OwnStep, CustomerAgrees, CustomerOf, Ensuring, At
<1> QED BY <1>1, <1>2, <1>3, <1>4, <1>5, <1>6, <1>7 DEF Continue

LEMMA ContinueCustomer ==
    ASSUME RowsOK, CustomerInv, ~raced, NEW r \in Requests, Continue(r)
    PROVE  CustomerInv'
<1>1. /\ CustomerAgrees' /\ CustomerOf(r)'
      /\ r \in Ensuring' => r \in Ensuring
      /\ customer' = customer \/ (r \in Ensuring /\ Rows = {} /\ customer = None)
  BY ContinueOwn DEF OwnStep
<1>2. /\ \A q \in Requests : q # r => req'[q] = req[q]
      /\ \A t \in Tokens : issued[t].to # None => issued'[t].to = issued[t].to
  BY ContinueFrame
<1>3. ASSUME NEW q \in Requests, q # r PROVE CustomerOf(q)'
  <2>1. customer' = customer \/ (Rows = {} /\ customer = None /\ q \notin Ensuring)
    BY <1>1, <1>3 DEF CustomerInv
  <2> QED BY <1>2, <1>3, <2>1, RowsStay, OthersKeep DEF CustomerInv
<1>4. Ensuring' \subseteq Ensuring
  BY <1>1, <1>2 DEF Ensuring
<1> QED BY <1>1, <1>3, <1>4 DEF CustomerInv

LEMMA CustomerNext ==
    ASSUME TypeOK, CustomerInv, [Next]_vars
    PROVE  CustomerInv'
<1> SUFFICES ASSUME ~raced' PROVE CustomerInv'
  BY DEF CustomerInv
<1>0. RowsOK
  BY DEF TypeOK
<1>1. ~raced
  <2>1. raced \in BOOLEAN
    BY DEF TypeOK
  <2> QED BY <2>1, RacedNext, Zenon
<1>2. ASSUME NEW r \in Requests, Crash(r) PROVE CustomerInv'
  <2>1. /\ UNCHANGED <<card, customer, issued>> /\ req'[r] = Idle
        /\ \A q \in Requests : q # r => req'[q] = req[q]
    BY <1>0, <1>2 DEF Crash, Finish, Goto, RowsOK
  <2>2. Ensuring' \subseteq Ensuring
    BY <2>1 DEF Ensuring, Idle
  <2>3. ASSUME NEW q \in Requests PROVE CustomerOf(q)'
    BY <1>1, <2>1 DEF CustomerInv, CustomerOf, Rows, Idle, At
  <2> QED BY <1>1, <2>1, <2>2, <2>3 DEF CustomerInv, CustomerAgrees, Rows
<1>3. CASE UNCHANGED vars
  BY <1>3 DEF vars, CustomerInv, CustomerAgrees, CustomerOf, Ensuring, Rows, At
<1> QED BY <1>0, <1>1, <1>2, <1>3, StartCustomer, ContinueCustomer DEF Next

\* Until two requests each set out to create the customer, every card of the student is
\* a card of the customer the student is charged as, whatever overlaps or dies.
THEOREM OneCustomer == Spec => []CardsOfCustomer
<1>1. Init => CustomerInv
  BY DEF Init, CustomerInv, CustomerAgrees, CustomerOf, Ensuring, Rows, NoRow, Idle, At
<1>2. TypeOK /\ CustomerInv /\ [Next]_vars => CustomerInv'
  BY CustomerNext
<1>3. CustomerInv => CardsOfCustomer
  BY DEF CustomerInv, CustomerAgrees, CardsOfCustomer
<1> QED BY TypeInit, TypeNext, <1>1, <1>2, <1>3, PTL DEF Spec

(***************************************************************************)
(* One default card                                                        *)
(***************************************************************************)
\* A request that begins undisturbed is alone, mends or finds a wallet that was not
\* upset, and leaves the choice of the default to the service.
LEMMA StartUndisturbed ==
    ASSUME TypeOK, NEW r \in Requests, Start(r), ~upset'
    PROVE  Quiet /\ (~upset \/ req'[r].at = "clear") /\ ~req'[r].chosen
<1>0. RowsOK /\ upset \in BOOLEAN
  BY DEF TypeOK
<1>1. ASSUME NEW slot, NEW u, Begin(r, slot, u) PROVE req'[r] = slot
  BY <1>0, <1>1 DEF Begin, Goto, RowsOK
<1>2. Quiet
  <2>1. \E u : upset' = (u \/ ~Quiet)
    BY Zenon DEF Start, AddCard, SeedTest, Remove, SetDefault, Begin
  <2> QED BY <2>1, Zenon
<1>3. ASSUME NEW b \in BOOLEAN, NEW d \in BOOLEAN, AddCard(r, b, d)
      PROVE  ~upset /\ ~req'[r].chosen
  <2>1. upset' = ((upset \/ b) \/ ~Quiet)
    BY <1>3, Zenon DEF AddCard, Begin
  <2>2. ~upset /\ ~b
    BY <1>0, <2>1, Zenon
  <2>3. req'[r] = [Ensured EXCEPT !.chosen = b, !.default = d]
    <3>1. \E u : Begin(r, [Ensured EXCEPT !.chosen = b, !.default = d], u)
      BY <1>3, Zenon DEF AddCard
    <3> QED BY <1>1, <3>1, Zenon
  <2>4. [Ensured EXCEPT !.chosen = b, !.default = d].chosen = b
    BY DEF Ensured, Idle
  <2>5. req'[r].chosen = b
    BY <2>3, <2>4
  <2> QED BY <2>2, <2>5
<1>4. ASSUME SeedTest(r) PROVE ~upset /\ ~req'[r].chosen
  <2>1. upset' = (upset \/ ~Quiet)
    BY <1>4, Zenon DEF SeedTest, Begin
  <2>2. ~upset
    BY <1>0, <2>1, Zenon
  <2>3. req'[r] = [Ensured EXCEPT !.seed = TRUE]
    BY <1>1, <1>4 DEF SeedTest
  <2>4. ~[Ensured EXCEPT !.seed = TRUE].chosen
    BY DEF Ensured, Idle
  <2> QED BY <2>2, <2>3, <2>4
<1>5. ASSUME NEW t \in Tokens, Remove(r, t) PROVE ~upset /\ ~req'[r].chosen
  <2>1. upset' = (upset \/ ~Quiet)
    BY <1>5, Zenon DEF Remove, Begin
  <2>2. ~upset
    BY <1>0, <2>1, Zenon
  <2>3. ~req'[r].chosen
    BY <1>1, <1>5 DEF Remove, Idle
  <2> QED BY <2>2, <2>3
<1>6. ASSUME NEW t \in Tokens, SetDefault(r, t) PROVE req'[r].at = "clear" /\ ~req'[r].chosen
  <2>1. req'[r] = [Idle EXCEPT !.at = "clear", !.token = t]
    BY <1>1, <1>6 DEF SetDefault
  <2> QED BY <2>1 DEF Idle
<1> QED BY <1>2, <1>3, <1>4, <1>5, <1>6 DEF Start

One == Defaults \subseteq Active /\ (Active # {} => \E t : Defaults = {t})

\* What a request that is alone knows of the wallet.
DefaultOf(r) ==
    /\ req[r].at \in {"newCustomer", "link", "tokenize", "existing", "count"} =>
         One /\ ~req[r].chosen
    /\ At(r, "create") => One /\ (req[r].default <=> Active = {})
    /\ At(r, "delete") =>
         One /\ req[r].token \in Active /\ (req[r].default <=> req[r].token \in Defaults)
    /\ At(r, "next") => Defaults = {}
    /\ At(r, "promote") => Defaults = {} /\ req[r].token \in Active
    /\ At(r, "clear") => req[r].token \in Active
    /\ At(r, "swap") => req[r].token \in Active /\ req[r].seen = Defaults

DefaultInv == ~upset => Solo /\ (Quiet => One) /\ \A r \in Requests : DefaultOf(r)

LEMMA DefaultNext ==
    ASSUME TypeOK, DefaultInv, [Next]_vars
    PROVE  DefaultInv'
<1> SUFFICES ASSUME ~upset'
             PROVE  Solo' /\ (Quiet' => One') /\ \A r \in Requests : DefaultOf(r)'
  BY DEF DefaultInv
<1>0. RowsOK /\ RowsOK'
  BY RowsNext DEF TypeOK
<1>1. ASSUME NEW r \in Requests, Start(r)
      PROVE  Solo' /\ (Quiet' => One') /\ \A q \in Requests : DefaultOf(q)'
  <2>1. /\ Quiet /\ (~upset \/ req'[r].at = "clear") /\ ~req'[r].chosen
        /\ UNCHANGED card /\ Fresh(req'[r])
        /\ \A q \in Requests : q # r => req'[q].at = "idle"
    BY <1>0, <1>1, StartUndisturbed, StartFresh DEF Quiet, At
  <2>2. Solo' /\ ~Quiet'
    BY <2>1 DEF Solo, Quiet, Fresh, At
  <2>3. req'[r].at # "clear" => One'
    BY <2>1 DEF DefaultInv, One, Defaults, Active
  <2>4. DefaultOf(r)' /\ \A q \in Requests : q # r => DefaultOf(q)'
    BY <2>1, <2>3 DEF DefaultOf, Fresh, Active, Defaults, At
  <2> QED BY <2>2, <2>4
<1>2. ASSUME NEW r \in Requests, Continue(r)
      PROVE  Solo' /\ (Quiet' => One') /\ \A q \in Requests : DefaultOf(q)'
  <2>1. ~upset /\ ~Restore(r)
    <3>1. UNCHANGED upset \/ upset' = TRUE
      BY <1>2, Zenon DEF Continue, NewCustomer, LinkCustomer, Tokenize, FindExisting, Restore,
        CountActive, CreateCard, DeleteCard, FindNext, Promote, FindDefaults, SwapDefault
    <3>2. Restore(r) => upset' = TRUE
      BY DEF Restore
    <3>3. ~upset
      BY <3>1, Zenon
    <3> QED BY <3>2, <3>3, Zenon
  <2>2. Solo /\ DefaultOf(r) /\ req[r] \in Slot
    BY <1>0, <2>1 DEF DefaultInv, RowsOK
  <2>3. ~At(r, "idle") /\ \E slot : Goto(r, slot)
    BY <1>2 DEF Continue, NewCustomer, LinkCustomer, Tokenize, FindExisting, Restore,
      CountActive, CreateCard, DeleteCard, FindNext, Promote, FindDefaults, SwapDefault, Step, Finish, At
  <2>4. \A q \in Requests : q # r => At(q, "idle")
    BY <2>2, <2>3 DEF Solo
  <2>5. Solo' /\ \A q \in Requests : q # r => req'[q].at = "idle"
    BY <1>0, <2>3, <2>4, StaysSolo
  <2>6. SUFFICES (req'[r].at = "idle" => One') /\ DefaultOf(r)'
    BY <2>5 DEF DefaultOf, Quiet, At
  <2>7. ASSUME NEW k \in Customers, NewCustomer(r, k)
        PROVE  (req'[r].at = "idle" => One') /\ DefaultOf(r)'
    <3>1. UNCHANGED card /\ req'[r].at = "link" /\ req'[r].chosen = req[r].chosen
      BY <1>0, <2>2, <2>7, Fields DEF NewCustomer, Goto, RowsOK
    <3> QED BY <2>2, <2>7, <3>1 DEF NewCustomer, DefaultOf, One, Active, Defaults, At
  <2>8. ASSUME LinkCustomer(r) PROVE (req'[r].at = "idle" => One') /\ DefaultOf(r)'
    <3>1. UNCHANGED card /\ req'[r].at = "tokenize" /\ req'[r].chosen = req[r].chosen
      BY <1>0, <2>2, <2>8, Fields DEF LinkCustomer, Step, Goto, RowsOK
    <3> QED BY <2>2, <2>8, <3>1 DEF LinkCustomer, DefaultOf, One, Active, Defaults, At
  <2>9. ASSUME NEW t \in Tokens, Tokenize(r, t)
        PROVE  (req'[r].at = "idle" => One') /\ DefaultOf(r)'
    <3>1. UNCHANGED card /\ One /\ ~req[r].chosen
      BY <2>2, <2>9 DEF Tokenize, DefaultOf, At
    <3>2. ASSUME Finish(r) PROVE req'[r].at = "idle"
      BY <1>0, <3>2 DEF Finish, Goto, Idle, RowsOK
    <3>3. ASSUME NEW pc, Goto(r, [req[r] EXCEPT !.at = pc, !.token = t])
          PROVE  req'[r].at = pc /\ req'[r].chosen = req[r].chosen
      BY <1>0, <2>2, <3>3, Fields DEF Goto, RowsOK
    <3>4. req'[r].at = "idle" \/ (req'[r].at \in {"existing", "count"} /\ ~req'[r].chosen)
      BY <2>9, <3>1, <3>2, <3>3 DEF Tokenize
    <3> QED BY <3>1, <3>4 DEF DefaultOf, One, Active, Defaults, At
  <2>10. ASSUME FindExisting(r) PROVE (req'[r].at = "idle" => One') /\ DefaultOf(r)'
    <3>1. UNCHANGED card /\ One /\ ~req[r].chosen
      BY <2>2, <2>10 DEF FindExisting, DefaultOf, At
    <3>2. ASSUME Finish(r) PROVE req'[r].at = "idle"
      BY <1>0, <3>2 DEF Finish, Goto, Idle, RowsOK
    <3>3. ASSUME NEW pc, Step(r, pc) PROVE req'[r].at = pc /\ req'[r].chosen = req[r].chosen
      BY <1>0, <2>2, <3>3, Fields DEF Step, Goto, RowsOK
    <3>4. req'[r].at \in {"idle", "restore"} \/ (req'[r].at = "count" /\ ~req'[r].chosen)
      BY <2>10, <3>1, <3>2, <3>3 DEF FindExisting
    <3> QED BY <3>1, <3>4 DEF DefaultOf, One, Active, Defaults, At
  <2>11. ASSUME CountActive(r) PROVE (req'[r].at = "idle" => One') /\ DefaultOf(r)'
    <3>1. UNCHANGED card /\ One /\ ~req[r].chosen
      BY <2>2, <2>11 DEF CountActive, DefaultOf, At
    <3>2. ASSUME NEW d, Goto(r, [req[r] EXCEPT !.at = "create", !.default = d])
          PROVE  req'[r].at = "create" /\ req'[r].default = d
      BY <1>0, <2>2, <3>2, Fields DEF Goto, RowsOK
    <3>3. Goto(r, [req[r] EXCEPT !.at = "create", !.default = (Active = {})])
      BY <2>2, <2>11, <3>1 DEF CountActive, Slot
    <3>4. req'[r].at = "create" /\ req'[r].default = (Active = {})
      BY <3>2, <3>3
    <3> QED BY <3>1, <3>4 DEF DefaultOf, One, Active, Defaults, At
  <2>12. ASSUME CreateCard(r) PROVE (req'[r].at = "idle" => One') /\ DefaultOf(r)'
    <3>1. One /\ (req[r].default <=> Active = {}) /\ req'[r].at = "idle"
      BY <1>0, <2>2, <2>12 DEF CreateCard, DefaultOf, Finish, Goto, Idle, RowsOK, At
    <3>2. CASE UNCHANGED card
      BY <3>1, <3>2 DEF DefaultOf, One, Active, Defaults, At
    <3>3. CASE ~UNCHANGED card
      <4>1. \A t \in Tokens : t # req[r].token => card'[t] = card[t]
        BY <1>0, <2>12, <3>3 DEF CreateCard, RowsOK
      <4>2. req[r].token \in Tokens /\ ~(req[r].token \in Active)
        BY <1>0, <2>2, <2>12, <3>3 DEF CreateCard, RowsOK, Slot, Active
      <4>3. /\ card'[req[r].token].at = "active"
            /\ card'[req[r].token].default = req[r].default
        BY <1>0, <2>12, <3>3, <4>2 DEF CreateCard, RowsOK
      <4>4. Active' = Active \cup {req[r].token}
        BY <4>1, <4>2, <4>3 DEF Active
      <4>5. Defaults' = IF Active = {} THEN {req[r].token} ELSE Defaults
        BY <3>1, <4>1, <4>2, <4>3 DEF Defaults, One
      <4> QED BY <3>1, <4>4, <4>5 DEF DefaultOf, One, At
    <3> QED BY <3>2, <3>3
  <2>13. ASSUME DeleteCard(r) PROVE (req'[r].at = "idle" => One') /\ DefaultOf(r)'
    <3>1. One /\ req[r].token \in Active /\ (req[r].default <=> req[r].token \in Defaults)
      BY <2>2, <2>13 DEF DeleteCard, DefaultOf, At
    <3>2. \A t \in Tokens : t # req[r].token => card'[t] = card[t]
      BY <1>0, <2>13 DEF DeleteCard, RowsOK
    <3>3. card'[req[r].token].at = "deleted" /\ ~card'[req[r].token].default
      BY <1>0, <2>13, <3>1 DEF DeleteCard, RowsOK, CardRow, Active
    <3>4. Active' = Active \ {req[r].token} /\ Defaults' = Defaults \ {req[r].token}
      BY <3>1, <3>2, <3>3 DEF Active, Defaults
    <3>5. req'[r].at = (IF req[r].default THEN "next" ELSE "idle")
      <4>1. ASSUME Finish(r) PROVE req'[r].at = "idle"
        BY <1>0, <4>1 DEF Finish, Goto, Idle, RowsOK
      <4>2. ASSUME Step(r, "next") PROVE req'[r].at = "next"
        BY <1>0, <2>2, <4>2, Fields DEF Step, Goto, RowsOK
      <4> QED BY <2>13, <4>1, <4>2 DEF DeleteCard
    <3> QED BY <3>1, <3>4, <3>5 DEF DefaultOf, One, At
  <2>14. ASSUME FindNext(r) PROVE (req'[r].at = "idle" => One') /\ DefaultOf(r)'
    <3>1. UNCHANGED card /\ Defaults = {}
      BY <2>2, <2>14 DEF FindNext, DefaultOf, At
    <3>2. ASSUME Finish(r) PROVE req'[r].at = "idle"
      BY <1>0, <3>2 DEF Finish, Goto, Idle, RowsOK
    <3>3. ASSUME NEW t, Goto(r, [req[r] EXCEPT !.at = "promote", !.token = t])
          PROVE  req'[r].at = "promote" /\ req'[r].token = t
      BY <1>0, <2>2, <3>3, Fields DEF Goto, RowsOK
    <3>4. \/ Active = {} /\ req'[r].at = "idle"
          \/ req'[r].at = "promote" /\ req'[r].token \in Active
      BY <2>14, <3>2, <3>3 DEF FindNext, Newest
    <3> QED BY <3>1, <3>4 DEF DefaultOf, One, Active, Defaults, At
  <2>15. ASSUME Promote(r) PROVE (req'[r].at = "idle" => One') /\ DefaultOf(r)'
    <3>1. Defaults = {} /\ req[r].token \in Active /\ req'[r].at = "idle"
      BY <1>0, <2>2, <2>15 DEF Promote, DefaultOf, Finish, Goto, Idle, RowsOK, At
    <3>2. /\ \A t \in Tokens : card'[t].at = card[t].at
          /\ \A t \in Tokens : card'[t].default <=> t = req[r].token \/ card[t].default
      BY <1>0, <2>15 DEF Promote, RowsOK, CardRow
    <3>3. Active' = Active /\ Defaults' = {req[r].token}
      BY <3>1, <3>2 DEF Active, Defaults
    <3> QED BY <3>1, <3>3 DEF DefaultOf, One, At
  <2>16. ASSUME FindDefaults(r) PROVE (req'[r].at = "idle" => One') /\ DefaultOf(r)'
    <3>1. UNCHANGED card /\ req[r].token \in Active
      BY <2>2, <2>16 DEF FindDefaults, DefaultOf, At
    <3>2. req'[r].at = "swap" /\ req'[r].token = req[r].token /\ req'[r].seen = Defaults
      BY <1>0, <2>2, <2>16, Fields DEF FindDefaults, Goto, RowsOK
    <3> QED BY <3>1, <3>2 DEF DefaultOf, Active, Defaults, At
  <2>17. ASSUME SwapDefault(r) PROVE (req'[r].at = "idle" => One') /\ DefaultOf(r)'
    <3>1. req[r].token \in Active /\ req[r].seen = Defaults /\ req'[r].at = "idle"
      BY <1>0, <2>2, <2>17 DEF SwapDefault, DefaultOf, Finish, Goto, Idle, RowsOK, At
    <3>2. \A t \in Tokens :
            /\ card'[t].at = card[t].at
            /\ card'[t].default <=> t = req[r].token \/ (card[t].default /\ t \notin Defaults)
      BY <1>0, <2>17, <3>1 DEF SwapDefault, RowsOK, CardRow
    <3>3. Active' = Active /\ Defaults' = {req[r].token}
      BY <3>1, <3>2 DEF Active, Defaults
    <3> QED BY <3>1, <3>3 DEF DefaultOf, One, At
  <2> QED
    BY <1>2, <2>1, <2>7, <2>8, <2>9, <2>10, <2>11, <2>12, <2>13, <2>14, <2>15, <2>16, <2>17 DEF Continue
<1>3. \A r \in Requests : ~Crash(r)
  BY DEF Crash
<1>4. CASE UNCHANGED vars
  BY <1>4 DEF vars, DefaultInv, DefaultOf, Solo, Quiet, One, Active, Defaults, At
<1> QED BY <1>1, <1>2, <1>3, <1>4 DEF Next

\* However cards are added, removed and chosen, one after the other, there is one
\* default card; and a setDefault that runs alone restores that.
THEOREM OneDefaultCard == Spec => []DefaultKept
<1>1. Init => DefaultInv
  BY DEF Init, DefaultInv, DefaultOf, Solo, Quiet, One, Active, Defaults, NoRow, Idle, At
<1>2. TypeOK /\ DefaultInv /\ [Next]_vars => DefaultInv'
  BY DefaultNext
<1>3. DefaultInv => DefaultKept
  BY FS_Singleton DEF DefaultInv, DefaultKept, One, OneDefault
<1> QED BY TypeInit, TypeNext, <1>1, <1>2, <1>3, PTL DEF Spec
=============================================================================
