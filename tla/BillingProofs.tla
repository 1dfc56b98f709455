----------------------------- MODULE BillingProofs -----------------------------
(* Proofs about Billing, for any resources, tiers, requests and bounds.       *)
EXTENDS Billing, FiniteSetTheorems, SequenceTheorems, TLAPS

\* The calls of each operation.
Stage(op, pc) ==
  \/ op = "create" /\ pc \in {"account", "open", "fetch", "subscribe", "record", "charge", "insert"}
  \/ op = "update" /\ pc \in {"read", "account", "open", "fetch", "discharge", "charge", "save"}
  \/ op = "delete" /\ pc \in {"read", "account", "open", "fetch", "cancel", "discharge", "clear", "erase"}
  \/ op = "deleteProject" /\ pc \in {"account", "open", "cancel", "close", "drop"}
  \/ op = "info" /\ pc \in {"account", "open"}
  \/ op = "customer" /\ pc \in {"customer", "count", "bulk", "link"}
  \/ op = "subscription" /\ pc \in {"account", "open", "count", "payment", "record"}
  \/ op = "cancel" /\ pc \in {"account", "open", "schedule", "touch"}

\* What a request carries at each of them, made subscriptions being n.
Fits(x, n) ==
  /\ x \in ActiveRequest
  /\ Stage(x.op, x.pc)
  /\ x.op \in {"create", "update", "delete"} => x.res \in Resources
  /\ x.op = "create" => x.sku \in Skus
  /\ x.op = "update" => \/ x.pc = "read"
                        \/ x.row \in Row /\ (x.pc = "save" \/ x.sku \in Skus)
  /\ x.op = "delete" => x.pc = "read" \/ x.row \in Row
  /\ x.sub <= n
  /\ x.pc \in {"fetch", "discharge", "charge", "schedule", "record", "cancel"} => x.sub # 0

TablesFit ==
  /\ project \in BOOLEAN
  /\ row \in [Resources -> Row \cup {Gone}]
  /\ account \in Account /\ account.sub <= Len(subs)
  /\ priced \in SUBSET Skus
  /\ subs \in Seq(Subscription)
  /\ customers \in Nat /\ started \in 0..MaxRequests /\ faults \in 0..MaxFaults
  /\ clean \in BOOLEAN

RequestsFit ==
  /\ req \in [Requests -> {IdleRequest} \cup ActiveRequest]
  /\ \A q \in Requests : req[q].pc # "idle" => Fits(req[q], Len(subs))

BillingInv == TablesFit /\ RequestsFit
-----------------------------------------------------------------------------
(* Records.                                                                  *)
LEMMA NoItemsFit == NoItems \in [Skus -> Item]
BY DEF NoItems, Item

LEMMA OnlyFits == ASSUME NEW k \in Skus PROVE Only(k) \in [Skus -> Item] /\ Only(k)[k].qty = 1
BY NoItemsFit DEF Only, NoItems, Item

\* What is left alone when a request's fields change.
Same(x, y) == y.op = x.op /\ y.res = x.res /\ y.sku = x.sku

\* A request goes on to another call.
Moved(x, pc) == [x EXCEPT !.pc = pc]
LEMMA MovedFits ==
  ASSUME NEW x \in ActiveRequest, NEW pc \in Pcs
  PROVE  LET y == Moved(x, pc)
         IN  /\ y \in ActiveRequest /\ Same(x, y) /\ y.pc = pc
             /\ y.row = x.row /\ y.customer = x.customer /\ y.sub = x.sub /\ y.items = x.items
BY DEF Moved, ActiveRequest, Same

\* It has written Stripe.
MovedWriting(x, pc) == [x EXCEPT !.pc = pc, !.wrote = TRUE]
LEMMA MovedWritingFits ==
  ASSUME NEW x \in ActiveRequest, NEW pc \in Pcs
  PROVE  LET y == MovedWriting(x, pc)
         IN  /\ y \in ActiveRequest /\ Same(x, y) /\ y.pc = pc
             /\ y.row = x.row /\ y.customer = x.customer /\ y.sub = x.sub /\ y.items = x.items
BY DEF MovedWriting, ActiveRequest, Same

\* It has read the row.
WithRow(x, r, pc) == [x EXCEPT !.row = r, !.pc = pc]
LEMMA WithRowFits ==
  ASSUME NEW x \in ActiveRequest, NEW r \in Row, NEW pc \in Pcs
  PROVE  LET y == WithRow(x, r, pc)
         IN  /\ y \in ActiveRequest /\ Same(x, y) /\ y.pc = pc
             /\ y.row = r /\ y.customer = x.customer /\ y.sub = x.sub /\ y.items = x.items
BY DEF WithRow, ActiveRequest, Same

\* It has read the account.
WithAccount(x, a, pc) == [x EXCEPT !.customer = a.customer, !.sub = a.sub, !.pc = pc]
LEMMA WithAccountFits ==
  ASSUME NEW x \in ActiveRequest, NEW a \in Account, NEW pc \in Pcs
  PROVE  LET y == WithAccount(x, a, pc)
         IN  /\ y \in ActiveRequest /\ Same(x, y) /\ y.pc = pc
             /\ y.row = x.row /\ y.customer = a.customer /\ y.sub = a.sub /\ y.items = x.items
BY DEF WithAccount, Account, ActiveRequest, Same

\* It has read or counted items.
WithItems(x, i, pc) == [x EXCEPT !.items = i, !.pc = pc]
LEMMA WithItemsFits ==
  ASSUME NEW x \in ActiveRequest, NEW i \in [Skus -> Item], NEW pc \in Pcs
  PROVE  LET y == WithItems(x, i, pc)
         IN  /\ y \in ActiveRequest /\ Same(x, y) /\ y.pc = pc
             /\ y.row = x.row /\ y.customer = x.customer /\ y.sub = x.sub /\ y.items = i
BY DEF WithItems, ActiveRequest, Same

\* It has made a subscription.
WithSub(x, s, pc) == [x EXCEPT !.sub = s, !.wrote = TRUE, !.pc = pc]
LEMMA WithSubFits ==
  ASSUME NEW x \in ActiveRequest, NEW s \in Nat, NEW pc \in Pcs
  PROVE  LET y == WithSub(x, s, pc)
         IN  /\ y \in ActiveRequest /\ Same(x, y) /\ y.pc = pc
             /\ y.row = x.row /\ y.customer = x.customer /\ y.sub = s /\ y.items = x.items
BY DEF WithSub, ActiveRequest, Same

\* It has made a customer.
WithCustomer(x, c, pc) == [x EXCEPT !.customer = c, !.pc = pc]
LEMMA WithCustomerFits ==
  ASSUME NEW x \in ActiveRequest, NEW c \in Nat, NEW pc \in Pcs
  PROVE  LET y == WithCustomer(x, c, pc)
         IN  /\ y \in ActiveRequest /\ Same(x, y) /\ y.pc = pc
             /\ y.row = x.row /\ y.customer = c /\ y.sub = x.sub /\ y.items = x.items
BY DEF WithCustomer, ActiveRequest, Same
-----------------------------------------------------------------------------
(* Steps of one request.                                                     *)
\* Its step leaves it idle, or where it fits.
LEMMA StepFits ==
  ASSUME RequestsFit, NEW q \in Requests, NEW y, req' = [req EXCEPT ![q] = y],
         Len(subs) <= Len(subs)', Len(subs) \in Nat, Len(subs)' \in Nat,
         y = IdleRequest \/ Fits(y, Len(subs)')
  PROVE  RequestsFit'
<1>1. req' \in [Requests -> {IdleRequest} \cup ActiveRequest]
  BY DEF RequestsFit, Fits
<1>2. ASSUME NEW p \in Requests, req'[p].pc # "idle" PROVE Fits(req'[p], Len(subs)')
  <2>1. CASE p = q
    BY <1>2, <2>1 DEF RequestsFit, IdleRequest
  <2>2. CASE p # q
    <3>1. req'[p] = req[p] /\ Fits(req[p], Len(subs)) /\ req[p].sub \in Nat
      BY <1>2, <2>2 DEF RequestsFit, Fits, ActiveRequest
    <3> QED BY <3>1 DEF Fits
  <2> QED BY <2>1, <2>2
<1> QED BY <1>1, <1>2 DEF RequestsFit

\* What is known of a request at a call.
LEMMA AtFits ==
  ASSUME BillingInv, NEW q \in Requests, NEW pc, At(q, pc), pc # "idle"
  PROVE  /\ Fits(req[q], Len(subs)) /\ req[q].pc = pc /\ Len(subs) \in Nat
         /\ req[q] \in ActiveRequest /\ Stage(req[q].op, pc)
<1>1. subs \in Seq(Subscription) /\ req[q].pc = pc
  BY DEF BillingInv, TablesFit, At
<1>2. Fits(req[q], Len(subs))
  BY <1>1 DEF BillingInv, RequestsFit
<1>3. Len(subs) \in Nat
  BY <1>1
<1> QED BY <1>1, <1>2, <1>3 DEF Fits

\* On to another call with what the request carries.
LEMMA OnFits ==
  ASSUME BillingInv, NEW q \in Requests, NEW pc, Goto(q, pc) \/ Wrote(q, pc), req[q].pc # "idle",
         NEW n \in Nat, Len(subs) <= n, pc \in Pcs, Stage(req[q].op, pc),
         req[q].op \in {"update", "delete"} => req[q].pc # "read",
         pc \in {"fetch", "discharge", "charge", "schedule", "record", "cancel"} => req[q].sub # 0,
         req[q].op = "update" /\ req[q].pc = "save" => pc = "save"
  PROVE  \E y : Fits(y, n) /\ req' = [req EXCEPT ![q] = y]
<1>1. Fits(req[q], Len(subs)) /\ req[q] \in ActiveRequest /\ Len(subs) \in Nat
  BY AtFits DEF At
<1>2. PICK y \in {Moved(req[q], pc), MovedWriting(req[q], pc)} : req' = [req EXCEPT ![q] = y]
  BY DEF Goto, Wrote, Moved, MovedWriting, BillingInv, RequestsFit
<1>3. /\ y \in ActiveRequest /\ Same(req[q], y) /\ y.pc = pc
      /\ y.row = req[q].row /\ y.sub = req[q].sub
  BY <1>1, <1>2, MovedFits, MovedWritingFits
<1>4. req[q].sub \in Nat
  BY <1>1 DEF ActiveRequest
<1>5. Fits(y, n)
  BY <1>1, <1>3, <1>4 DEF Fits, Same
<1> QED BY <1>2, <1>5

USE DEF db, stripe, rest

\* A step of one request, with the tables still in order.
LEMMA OneFits ==
  ASSUME BillingInv, NEW q \in Requests, NEW y, req' = [req EXCEPT ![q] = y],
         y = IdleRequest \/ Fits(y, Len(subs)'), Len(subs) <= Len(subs)', TablesFit'
  PROVE  BillingInv'
<1>1. Len(subs) \in Nat /\ Len(subs)' \in Nat
  BY DEF BillingInv, TablesFit
<1> QED BY <1>1, StepFits DEF BillingInv

\* A request that is over.
LEMMA OverFits ==
  ASSUME BillingInv, NEW q \in Requests, Leave(q) \/ Fail(q),
         Len(subs) <= Len(subs)', clean' \in BOOLEAN => TablesFit', Leave(q) => clean' \in BOOLEAN
  PROVE  BillingInv'
<1>1. Leave(q)
  BY DEF Fail
<1> QED BY <1>1, OneFits DEF Leave

LEMMA InitFits == Init => BillingInv
BY BoundsAssumption, EmptySeq
   DEF Init, BillingInv, TablesFit, RequestsFit, Account, NoAccount, IdleRequest, Paid, Row

LEMMA BeginFits ==
  ASSUME BillingInv, NEW q \in Requests, Begin(q)
  PROVE  BillingInv'
<1>1. PICK rec : Start(q, rec) /\ Fits(rec, Len(subs))
  <2> USE NoItemsFit DEF Request, Fits, ActiveRequest, Stage, Pcs, BillingInv, TablesFit
  <2>1. ASSUME NEW r \in Resources, NEW k \in Skus, StartCreate(q, r, k)
        PROVE  \E rec : Start(q, rec) /\ Fits(rec, Len(subs))
    <3>1. Fits(Request("create", r, k, IF k = Free THEN "insert" ELSE "account"), Len(subs))
      BY <2>1 DEF StartCreate
    <3> QED BY <2>1, <3>1 DEF StartCreate
  <2>2. ASSUME NEW r \in Resources, NEW k \in Skus \cup {Null}, StartUpdate(q, r, k)
        PROVE  \E rec : Start(q, rec) /\ Fits(rec, Len(subs))
    <3>1. Fits(Request("update", r, k, "read"), Len(subs))
      BY <2>2 DEF StartUpdate
    <3> QED BY <2>2, <3>1 DEF StartUpdate
  <2>3. ASSUME NEW r \in Resources, StartDelete(q, r)
        PROVE  \E rec : Start(q, rec) /\ Fits(rec, Len(subs))
    <3>1. Fits(Request("delete", r, Null, "read"), Len(subs))
      BY <2>3 DEF StartDelete
    <3> QED BY <2>3, <3>1 DEF StartDelete
  <2>4. ASSUME NEW op \in Ops, StartOther(q, op)
        PROVE  \E rec : Start(q, rec) /\ Fits(rec, Len(subs))
    <3>1. Fits(Request(op, Null, Null, IF op = "customer" THEN "customer" ELSE "account"), Len(subs))
      BY <2>4, BoundsAssumption DEF StartOther
    <3> QED BY <2>4, <3>1 DEF StartOther
  <2> QED BY <2>1, <2>2, <2>3, <2>4 DEF Begin
<1>2. TablesFit'
  BY <1>1, BoundsAssumption DEF Start, BillingInv, TablesFit
<1>3. Len(subs) <= Len(subs)' /\ Fits(rec, Len(subs)')
  BY <1>1 DEF Start, BillingInv, TablesFit
<1> QED BY <1>1, <1>2, <1>3, OneFits DEF Start
-----------------------------------------------------------------------------
(* Steps on the database.                                                    *)
LEMMA ReadRowFits ==
  ASSUME BillingInv, NEW q \in Requests, ReadRow(q)
  PROVE  BillingInv'
<1> DEFINE x == req[q]
           r == row[x.res]
<1>1. /\ Fits(x, Len(subs)) /\ x \in ActiveRequest /\ x.pc = "read"
      /\ Stage(x.op, "read")
  BY AtFits DEF ReadRow
<1>2. x.res \in Resources /\ r \in Row \cup {Gone}
  BY <1>1 DEF BillingInv, TablesFit, Fits, Stage
<1>3. Len(subs) <= Len(subs)' /\ (clean' \in BOOLEAN => TablesFit')
  BY DEF ReadRow, BillingInv, TablesFit
<1>4. CASE Fail(q)
  BY <1>3, <1>4, OverFits DEF Fail, BillingInv, TablesFit
<1>5. ASSUME r # Gone, UNCHANGED clean, NEW pc \in {"save", "account", "erase"},
             req' = [req EXCEPT ![q] = WithRow(x, r, pc)],
             \/ x.op = "update" /\ (pc = "save" \/ (pc = "account" /\ x.sku # Null))
             \/ x.op = "delete" /\ pc \in {"account", "erase"}
      PROVE  BillingInv'
  <2> DEFINE y == WithRow(x, r, pc)
  <2>1. /\ y \in ActiveRequest /\ Same(x, y) /\ y.pc = pc /\ y.row = r /\ y.sub = x.sub
    <3>1. r \in Row /\ pc \in Pcs
      BY <1>2, <1>5 DEF Pcs
    <3> HIDE DEF x, r
    <3> QED BY <1>1, <3>1, WithRowFits
  <2>2. x.sku \in Skus \cup {Null} /\ UNCHANGED Len(subs)
    BY <1>1 DEF ActiveRequest, ReadRow
  <2>3. Fits(y, Len(subs)')
    BY <1>1, <1>2, <1>5, <2>1, <2>2 DEF Fits, Same, Stage
  <2> QED BY <1>3, <1>5, <2>3, OneFits DEF BillingInv, TablesFit
<1>6. CASE /\ r # Gone /\ x.op = "update" /\ UNCHANGED clean
           /\ req' = [req EXCEPT ![q].row = r,
                                 ![q].pc = IF x.sku \in {Null, r.sku} THEN "save" ELSE "account"]
  <2> DEFINE pc == IF x.sku \in {Null, r.sku} THEN "save" ELSE "account"
  <2>1. req' = [req EXCEPT ![q] = WithRow(x, r, pc)]
    BY <1>6 DEF WithRow, BillingInv, RequestsFit
  <2>2. x.op = "update" /\ (pc = "save" \/ (pc = "account" /\ x.sku # Null))
    BY <1>6
  <2> HIDE DEF pc, x, r
  <2> QED BY <1>5, <1>6, <2>1, <2>2
<1>7. CASE /\ r # Gone /\ x.op = "delete" /\ UNCHANGED clean
           /\ req' = [req EXCEPT ![q].row = r,
                                 ![q].pc = IF r.sku # Free /\ r.price # Null
                                           THEN "account" ELSE "erase"]
  <2> DEFINE pc == IF r.sku # Free /\ r.price # Null THEN "account" ELSE "erase"
  <2>1. req' = [req EXCEPT ![q] = WithRow(x, r, pc)]
    BY <1>7 DEF WithRow, BillingInv, RequestsFit
  <2> QED BY <1>5, <1>7, <2>1
<1> QED BY <1>4, <1>6, <1>7 DEF ReadRow

\* With the account a request goes on, or it is over.
LEMMA TakeFits ==
  ASSUME BillingInv, NEW q \in Requests, NEW a \in Account, a.sub <= Len(subs), TakeAccount(q, a),
         At(q, "account") \/ At(q, "open"), UNCHANGED subs, clean' \in BOOLEAN => TablesFit'
  PROVE  BillingInv'
<1> DEFINE x == req[q]
           pc == AfterAccount(q, a)
           y  == WithAccount(x, a, pc)
<1>1. /\ Fits(x, Len(subs)) /\ x \in ActiveRequest /\ Len(subs) \in Nat
      /\ x.pc \in {"account", "open"} /\ Stage(x.op, x.pc)
  BY AtFits DEF Fits, At
<1>2. CASE pc = "fail"
  BY <1>2, OverFits, <1>1 DEF TakeAccount, Fail, BillingInv, TablesFit
<1>3. CASE pc # "fail"
  <2>1. /\ a.customer \in Nat /\ a.sub \in Nat
    BY DEF Account
  <2>2. /\ Stage(x.op, pc) /\ pc \in Pcs
        /\ pc \in {"fetch", "discharge", "charge", "schedule", "record", "cancel"} => a.sub # 0
        /\ x.op = "update" => pc = "fetch"
    BY <1>1, <1>3 DEF AfterAccount, Stage, Pcs
  <2>3. y \in ActiveRequest /\ Same(x, y) /\ y.pc = pc /\ y.row = x.row /\ y.sub = a.sub
    BY <1>1, <2>2, WithAccountFits
  <2>4. Fits(y, Len(subs)')
    BY <1>1, <2>1, <2>2, <2>3 DEF Fits, Same
  <2>5. req' = [req EXCEPT ![q] = y] /\ UNCHANGED clean
    BY <1>3 DEF TakeAccount, WithAccount, BillingInv, RequestsFit
  <2>6. TablesFit' /\ Len(subs) <= Len(subs)'
    BY <1>1, <2>5 DEF BillingInv, TablesFit
  <2> QED BY <2>4, <2>5, <2>6, OneFits
<1> QED BY <1>2, <1>3

LEMMA GoFits ==
  ASSUME BillingInv, NEW q \in Requests, NEW pc, Goto(q, pc) \/ Wrote(q, pc), req[q].pc # "idle",
         TablesFit', Len(subs) <= Len(subs)', pc \in Pcs, Stage(req[q].op, pc),
         req[q].op \in {"update", "delete"} => req[q].pc # "read",
         pc \in {"fetch", "discharge", "charge", "schedule", "record", "cancel"} => req[q].sub # 0,
         req[q].op = "update" /\ req[q].pc = "save" => pc = "save"
  PROVE  BillingInv'
<1>1. Len(subs)' \in Nat
  BY DEF TablesFit
<1>2. PICK y : Fits(y, Len(subs)') /\ req' = [req EXCEPT ![q] = y]
  BY <1>1, OnFits
<1> QED BY <1>2, OneFits

LEMMA GetAccountFits ==
  ASSUME BillingInv, NEW q \in Requests, GetAccount(q)
  PROVE  BillingInv'
<1>1. /\ Fits(req[q], Len(subs)) /\ req[q].pc = "account" /\ Stage(req[q].op, "account")
      /\ Len(subs) \in Nat
  BY AtFits DEF GetAccount
<1>2. Len(subs) <= Len(subs)' /\ (clean' \in BOOLEAN => TablesFit')
  BY <1>1 DEF GetAccount, BillingInv, TablesFit
<1>3. CASE account.open
  <2>1. account \in Account /\ account.sub <= Len(subs) /\ TakeAccount(q, account) /\ UNCHANGED subs
    BY <1>3 DEF GetAccount, BillingInv, TablesFit
  <2> QED BY <1>2, <2>1, TakeFits DEF GetAccount
<1>4. CASE ~account.open
  <2>1. Goto(q, "open") /\ UNCHANGED clean
    BY <1>4 DEF GetAccount
  <2>2. TablesFit' /\ "open" \in Pcs /\ Stage(req[q].op, "open")
    BY <1>1, <1>2, <2>1 DEF Stage, Pcs, BillingInv, TablesFit
  <2> QED BY <1>1, <1>2, <2>1, <2>2, GoFits
<1> QED BY <1>3, <1>4

LEMMA OpenAccountFits ==
  ASSUME BillingInv, NEW q \in Requests, OpenAccount(q)
  PROVE  BillingInv'
<1>1. /\ Fits(req[q], Len(subs)) /\ req[q].pc = "open" /\ Stage(req[q].op, "open")
      /\ Len(subs) \in Nat
  BY AtFits DEF OpenAccount
<1>2. account' \in Account /\ account'.sub <= Len(subs)
  <2>1. account \in Account /\ account.sub <= Len(subs)
    BY DEF BillingInv, TablesFit
  <2>2. account' = account \/ account' = [open |-> TRUE, customer |-> 0, sub |-> 0]
    BY DEF OpenAccount, NoAccount
  <2>3. CASE account' = account
    BY <2>1, <2>3
  <2>4. CASE account' = [open |-> TRUE, customer |-> 0, sub |-> 0]
    BY <1>1, <2>4 DEF Account
  <2> QED BY <2>2, <2>3, <2>4
<1>3. UNCHANGED subs /\ Len(subs) <= Len(subs)' /\ (clean' \in BOOLEAN => TablesFit')
  BY <1>1, <1>2 DEF OpenAccount, BillingInv, TablesFit
<1>4. CASE account.open /\ Tolerant(q)
  <2>1. Goto(q, SkipTo(q)) /\ UNCHANGED clean
    BY <1>4 DEF OpenAccount
  <2>2. TablesFit' /\ SkipTo(q) \in {"erase", "drop"} /\ Stage(req[q].op, SkipTo(q))
    BY <1>1, <1>3, <1>4, <2>1 DEF Stage, SkipTo, Tolerant, BillingInv, TablesFit
  <2> QED BY <1>1, <1>3, <2>1, <2>2, GoFits DEF Pcs
<1>5. CASE account.open /\ ~Tolerant(q)
  BY <1>3, <1>5, OverFits DEF OpenAccount, Fail, BillingInv, TablesFit
<1>6. CASE ~account.open
  BY <1>2, <1>3, <1>6, TakeFits DEF OpenAccount
<1> QED BY <1>4, <1>5, <1>6

LEMMA RecordFits ==
  ASSUME BillingInv, NEW q \in Requests, RecordSubscription(q)
  PROVE  BillingInv'
<1>1. /\ Fits(req[q], Len(subs)) /\ req[q].pc = "record" /\ Stage(req[q].op, "record")
      /\ Len(subs) \in Nat /\ req[q] \in ActiveRequest
  BY AtFits DEF RecordSubscription
<1>2. req[q].sub \in Nat /\ req[q].sub <= Len(subs)
  BY <1>1 DEF Fits, ActiveRequest
<1>3. account' \in Account /\ account'.sub <= Len(subs)
  BY <1>2 DEF RecordSubscription, Account, BillingInv, TablesFit
<1>4. Len(subs) <= Len(subs)' /\ (clean' \in BOOLEAN => TablesFit')
  BY <1>1, <1>3 DEF RecordSubscription, BillingInv, TablesFit
<1>5. clean' \in BOOLEAN
  BY DEF RecordSubscription, Fail
<1>6. CASE Leave(q) \/ Fail(q)
  BY <1>4, <1>5, <1>6, OverFits
<1>7. CASE Goto(q, "insert") /\ req[q].op = "create"
  BY <1>1, <1>4, <1>5, <1>7, GoFits DEF Stage, Pcs
<1> QED BY <1>6, <1>7 DEF RecordSubscription

LEMMA InsertFits ==
  ASSUME BillingInv, NEW q \in Requests, InsertResource(q)
  PROVE  BillingInv'
<1>1. /\ Fits(req[q], Len(subs)) /\ req[q].pc = "insert" /\ Stage(req[q].op, "insert")
      /\ Len(subs) \in Nat /\ req[q] \in ActiveRequest
  BY AtFits DEF InsertResource
<1>2. req[q].res \in Resources /\ req[q].sku \in Skus
  BY <1>1 DEF Fits, Stage
<1>3. [sku |-> req[q].sku, price |-> IF req[q].sku = Free THEN Null ELSE req[q].sku] \in Row
  BY <1>2 DEF Row
<1>4. row' \in [Resources -> Row \cup {Gone}] /\ clean' \in BOOLEAN
  BY <1>2, <1>3 DEF InsertResource, Fail, BillingInv, TablesFit
<1>5. Len(subs) <= Len(subs)' /\ TablesFit' /\ (Leave(q) \/ Fail(q))
  BY <1>1, <1>4 DEF InsertResource, BillingInv, TablesFit
<1> QED BY <1>4, <1>5, OverFits

LEMMA SaveFits ==
  ASSUME BillingInv, NEW q \in Requests, SaveResource(q)
  PROVE  BillingInv'
<1>1. /\ Fits(req[q], Len(subs)) /\ req[q].pc = "save" /\ Stage(req[q].op, "save")
      /\ Len(subs) \in Nat /\ req[q] \in ActiveRequest
  BY AtFits DEF SaveResource
<1>2. req[q].res \in Resources /\ req[q].sku \in Skus \cup {Null} /\ req[q].row \in Row
  BY <1>1 DEF Fits, Stage, ActiveRequest
<1>3. [sku |-> IF req[q].sku = Null THEN req[q].row.sku ELSE req[q].sku, price |-> NewPrice(q)] \in Row
  BY <1>2 DEF Row, NewPrice
<1>4. row' \in [Resources -> Row \cup {Gone}] /\ clean' \in BOOLEAN
  BY <1>2, <1>3 DEF SaveResource, Fail, BillingInv, TablesFit
<1>5. Len(subs) <= Len(subs)' /\ TablesFit' /\ (Leave(q) \/ Fail(q))
  BY <1>1, <1>4 DEF SaveResource, BillingInv, TablesFit
<1> QED BY <1>4, <1>5, OverFits

\* Statements that clear what a deletion deletes.
LEMMA ClearFits ==
  ASSUME BillingInv, NEW q \in Requests, ClearSubscription(q) \/ CloseAccount(q)
  PROVE  BillingInv'
<1>1. PICK pc \in {"clear", "close"} : At(q, pc)
  BY DEF ClearSubscription, CloseAccount
<1>2. Fits(req[q], Len(subs)) /\ req[q].pc = pc /\ Stage(req[q].op, pc) /\ Len(subs) \in Nat
  BY <1>1, AtFits
<1>3. account' \in Account /\ account'.sub = 0
  <2>1. CASE account' = [account EXCEPT !.sub = 0]
    BY <2>1 DEF Account, BillingInv, TablesFit
  <2>2. CASE account' = NoAccount
    BY <2>2 DEF Account, NoAccount
  <2> QED BY <2>1, <2>2 DEF ClearSubscription, CloseAccount
<1>4. Len(subs) <= Len(subs)' /\ TablesFit'
  BY <1>2, <1>3 DEF ClearSubscription, CloseAccount, BillingInv, TablesFit
<1>5. CASE ClearSubscription(q)
  BY <1>2, <1>4, <1>5, GoFits DEF ClearSubscription, At, Stage, Pcs
<1>6. CASE CloseAccount(q)
  BY <1>2, <1>4, <1>6, GoFits DEF CloseAccount, At, Stage, Pcs
<1> QED BY <1>5, <1>6

LEMMA EraseFits ==
  ASSUME BillingInv, NEW q \in Requests, EraseResource(q) \/ DropProject(q)
  PROVE  BillingInv'
<1>1. row' \in [Resources -> Row \cup {Gone}] /\ clean' \in BOOLEAN /\ Leave(q)
  BY DEF EraseResource, DropProject, BillingInv, TablesFit
<1>2. subs \in Seq(Subscription) /\ UNCHANGED <<subs, account>> /\ project' \in BOOLEAN
  BY DEF EraseResource, DropProject, BillingInv, TablesFit
<1>3. Len(subs) \in Nat
  BY <1>2
<1>4. Len(subs) <= Len(subs)' /\ TablesFit'
  BY <1>1, <1>2, <1>3 DEF EraseResource, DropProject, BillingInv, TablesFit
<1> QED BY <1>1, <1>4, OverFits

LEMMA CountsFit == Counts \in [Skus -> Item]
<1>1. ASSUME NEW k \in Skus PROVE Rows(k) \in Nat
  BY ResourcesAssumption, FS_Subset, FS_CardinalityType DEF Rows
<1> QED BY <1>1 DEF Counts, Item

LEMMA CountFits ==
  ASSUME BillingInv, NEW q \in Requests, CountResources(q)
  PROVE  BillingInv'
<1>1. /\ Fits(req[q], Len(subs)) /\ req[q].pc = "count" /\ Stage(req[q].op, "count")
      /\ Len(subs) \in Nat /\ req[q] \in ActiveRequest
  BY AtFits DEF CountResources
<1>2. clean' \in BOOLEAN
  BY DEF CountResources, Fail, BillingInv, TablesFit
<1>3. Len(subs) <= Len(subs)' /\ TablesFit'
  BY <1>1, <1>2 DEF CountResources, BillingInv, TablesFit
<1>4. ASSUME NEW pc \in {"link", "bulk", "payment"}, Stage(req[q].op, pc),
             req' = [req EXCEPT ![q].items = Counts, ![q].pc = pc]
      PROVE  BillingInv'
  <2> DEFINE y == WithItems(req[q], Counts, pc)
  <2>1. y \in ActiveRequest /\ Same(req[q], y) /\ y.pc = pc /\ y.row = req[q].row /\ y.sub = req[q].sub
    <3>1. pc \in Pcs
      BY <1>4 DEF Pcs
    <3> QED BY <1>1, <3>1, CountsFit, WithItemsFits
  <2>2. Fits(y, Len(subs)')
    BY <1>1, <1>4, <2>1 DEF Fits, Same, Stage, CountResources
  <2>3. req' = [req EXCEPT ![q] = y]
    BY <1>4 DEF WithItems, BillingInv, RequestsFit
  <2> QED BY <1>3, <2>2, <2>3, OneFits
<1>5. CASE req[q].op = "customer"
  <2>1. PICK pc \in {"link", "bulk"} : req' = [req EXCEPT ![q].items = Counts, ![q].pc = pc]
    BY <1>5 DEF CountResources
  <2> QED BY <1>4, <1>5, <2>1 DEF Stage
<1>6. CASE req[q].op = "subscription"
  <2>1. CASE req' = [req EXCEPT ![q].items = Counts, ![q].pc = "payment"]
    BY <1>4, <1>6, <2>1 DEF Stage
  <2>2. CASE Fail(q)
    BY <1>2, <1>3, <2>2, OverFits
  <2> QED BY <1>6, <2>1, <2>2 DEF CountResources
<1> QED BY <1>5, <1>6 DEF CountResources

LEMMA LinkFits ==
  ASSUME BillingInv, NEW q \in Requests, LinkCustomer(q) \/ TouchAccount(q)
  PROVE  BillingInv'
<1>1. PICK pc \in {"link", "touch"} : At(q, pc)
  BY DEF LinkCustomer, TouchAccount
<1>2. /\ Fits(req[q], Len(subs)) /\ Len(subs) \in Nat /\ req[q] \in ActiveRequest
  BY <1>1, AtFits
<1>3. req[q].sub \in Nat /\ req[q].sub <= Len(subs) /\ req[q].customer \in Nat
  BY <1>2 DEF Fits, ActiveRequest
<1>4. account' \in Account /\ account'.sub <= Len(subs)
  BY <1>3 DEF LinkCustomer, TouchAccount, Account, BillingInv, TablesFit
<1>5. Len(subs) <= Len(subs)' /\ (clean' \in BOOLEAN => TablesFit')
  BY <1>2, <1>4 DEF LinkCustomer, TouchAccount, BillingInv, TablesFit
<1>6. clean' \in BOOLEAN /\ (Leave(q) \/ Fail(q))
  BY DEF LinkCustomer, TouchAccount, Fail, BillingInv, TablesFit
<1> QED BY <1>5, <1>6, OverFits
-----------------------------------------------------------------------------
(* Steps on Stripe.                                                          *)
\* A subscription changes its status.
WithStatus(s, st) == [s EXCEPT !.status = st]
LEMMA WithStatusFits ==
  ASSUME NEW s \in Subscription, NEW st \in {"active", "ending", "canceled"}
  PROVE  LET t == WithStatus(s, st)
         IN  t \in Subscription /\ t.customer = s.customer /\ t.items = s.items
BY DEF WithStatus, Subscription

\* One of its items is written.
WithItem(s, k, i) == [s EXCEPT !.items[k] = i]
LEMMA WithItemFits ==
  ASSUME NEW s \in Subscription, NEW k \in Skus, NEW i \in Item
  PROVE  LET t == WithItem(s, k, i)
         IN  t \in Subscription /\ t.customer = s.customer /\ t.items = [s.items EXCEPT ![k] = i]
BY DEF WithItem, Subscription

\* A subscription is replaced by what has become of it.
LEMMA ChangedFits ==
  ASSUME subs \in Seq(Subscription), NEW n \in 1..Len(subs), NEW s \in Subscription,
         subs' = [subs EXCEPT ![n] = s]
  PROVE  /\ subs' \in Seq(Subscription) /\ Len(subs)' = Len(subs) /\ Len(subs) \in Nat
         /\ \A m \in 1..Len(subs) : subs'[m] = IF m = n THEN s ELSE subs[m]
<1>1. subs' \in Seq(Subscription) /\ Len(subs') = Len(subs)
      /\ \A m \in 1..Len(subs) : subs'[m] = IF m = n THEN s ELSE subs[m]
  BY ExceptSeq
<1>2. Len(subs) \in Nat
  BY LenProperties
<1> QED BY <1>1, <1>2

LEMMA StatusFits ==
  ASSUME subs \in Seq(Subscription), NEW n \in 1..Len(subs), NEW st \in {"active", "ending", "canceled"},
         subs' = [subs EXCEPT ![n].status = st]
  PROVE  /\ subs' \in Seq(Subscription) /\ Len(subs)' = Len(subs) /\ Len(subs) \in Nat
         /\ \A m \in 1..Len(subs) : subs'[m].customer = subs[m].customer /\ subs'[m].items = subs[m].items
<1>1. subs[n] \in Subscription
  BY ElementOfSeq
<1>2. subs' = [subs EXCEPT ![n] = WithStatus(subs[n], st)]
  BY DEF WithStatus
<1>3. /\ WithStatus(subs[n], st) \in Subscription
      /\ WithStatus(subs[n], st).customer = subs[n].customer
      /\ WithStatus(subs[n], st).items = subs[n].items
  BY <1>1, WithStatusFits
<1>4. /\ subs' \in Seq(Subscription) /\ Len(subs)' = Len(subs) /\ Len(subs) \in Nat
      /\ \A m \in 1..Len(subs) : subs'[m] = IF m = n THEN WithStatus(subs[n], st) ELSE subs[m]
  BY <1>2, <1>3, ChangedFits
<1> QED BY <1>3, <1>4

\* A request writes an item of the subscription it has read.
LEMMA WriteFits ==
  ASSUME BillingInv, NEW q \in Requests, req[q] \in ActiveRequest, req[q].sub \in 1..Len(subs),
         NEW k \in Skus, NEW qty, qty \in Nat, WriteItem(q, k, qty)
  PROVE  /\ subs' \in Seq(Subscription) /\ Len(subs)' = Len(subs) /\ Len(subs) \in Nat
         /\ \A m \in 1..Len(subs) : subs'[m].customer = subs[m].customer
         /\ subs'[req[q].sub].items[k].qty = qty
<1> DEFINE n == req[q].sub
           i == [gen |-> IF Read(q, k).qty = 0 THEN subs[n].items[k].gen + 1
                                               ELSE subs[n].items[k].gen,
                 qty |-> qty]
<1>1. subs \in Seq(Subscription) /\ subs[n] \in Subscription
  BY ElementOfSeq DEF BillingInv, TablesFit
<1>2. subs[n].items \in [Skus -> Item]
  BY <1>1 DEF Subscription
<1>3. subs[n].items[k].gen \in Nat
  BY <1>2 DEF Item
<1>4. i \in Item /\ i.qty = qty
  BY <1>3 DEF Item
<1>5. subs' = [subs EXCEPT ![n] = WithItem(subs[n], k, i)]
  BY DEF WriteItem, WithItem
<1> HIDE DEF i
<1>6. /\ WithItem(subs[n], k, i) \in Subscription
      /\ WithItem(subs[n], k, i).customer = subs[n].customer
      /\ WithItem(subs[n], k, i).items = [subs[n].items EXCEPT ![k] = i]
  BY <1>1, <1>4, WithItemFits
<1>7. /\ subs' \in Seq(Subscription) /\ Len(subs)' = Len(subs) /\ Len(subs) \in Nat
      /\ \A m \in 1..Len(subs) : subs'[m] = IF m = n THEN WithItem(subs[n], k, i) ELSE subs[m]
  BY <1>1, <1>5, <1>6, ChangedFits
<1>8. subs'[n].items[k] = i
  BY <1>2, <1>6, <1>7
<1> QED BY <1>4, <1>6, <1>7, <1>8

\* A request makes a subscription.
LEMMA MadeFits ==
  ASSUME BillingInv, NEW q \in Requests, req[q].pc # "idle", NEW items \in [Skus -> Item],
         MakeSubscription(q, items), req[q].op \in {"create", "customer", "subscription"},
         UNCHANGED <<db, rest, customers, clean>>, faults' \in 0..MaxFaults
  PROVE  BillingInv'
<1> DEFINE x  == req[q]
           pc == IF x.op = "customer" THEN "link" ELSE "record"
           s  == [customer |-> x.customer, status |-> "active", items |-> items]
           y  == WithSub(x, Len(subs) + 1, pc)
<1>1. subs \in Seq(Subscription) /\ Fits(x, Len(subs)) /\ x \in ActiveRequest /\ Len(subs) \in Nat
  BY AtFits DEF At, BillingInv, TablesFit
<1>2. s \in Subscription
  BY <1>1 DEF Subscription, ActiveRequest
<1>3. subs' = Append(subs, s)
  BY DEF MakeSubscription
<1>4. subs' \in Seq(Subscription) /\ Len(subs') = Len(subs) + 1
  <2> HIDE DEF s
  <2> QED BY <1>1, <1>2, <1>3, AppendProperties
<1>5. Len(subs) + 1 \in Nat /\ pc \in Pcs /\ Stage(x.op, pc)
  BY <1>1 DEF Pcs, Stage
<1>6. y \in ActiveRequest /\ Same(x, y) /\ y.pc = pc /\ y.row = x.row /\ y.sub = Len(subs) + 1
  <2> HIDE DEF x, pc
  <2> QED BY <1>1, <1>5, WithSubFits
<1>7. Fits(y, Len(subs)')
  BY <1>1, <1>4, <1>5, <1>6 DEF Fits, Same
<1>8. req' = [req EXCEPT ![q] = y]
  BY DEF MakeSubscription, WithSub, BillingInv, RequestsFit
<1>9. TablesFit' /\ Len(subs) <= Len(subs)'
  <2>1. /\ account \in Account /\ account.sub <= Len(subs) /\ account.sub \in Nat
        /\ UNCHANGED <<project, row, account, priced, started, customers, clean>>
    BY DEF BillingInv, TablesFit, Account
  <2>2. account.sub <= Len(subs)' /\ Len(subs) <= Len(subs)'
    BY <1>1, <1>4, <2>1
  <2> QED BY <1>4, <2>1, <2>2 DEF BillingInv, TablesFit
<1> QED BY <1>7, <1>8, <1>9, OneFits

LEMMA FetchFits ==
  ASSUME BillingInv, NEW q \in Requests, FetchSubscription(q)
  PROVE  BillingInv'
<1> DEFINE x     == req[q]
           items == subs[x.sub].items
           pc    == CASE x.op = "create" -> IF Usable(x.sub) THEN "charge" ELSE "subscribe"
                      [] x.op = "update" -> "discharge"
                      [] x.op = "delete" ->
                           IF Cardinality(Tiers(items)) = 1 THEN "cancel" ELSE "discharge"
           y     == WithItems(x, items, pc)
<1>1. /\ Fits(x, Len(subs)) /\ x \in ActiveRequest /\ x.pc = "fetch" /\ Stage(x.op, "fetch")
      /\ Len(subs) \in Nat
  BY AtFits DEF FetchSubscription
<1>2. x.sub \in 1..Len(subs)
  BY <1>1 DEF Fits, ActiveRequest
<1>3. subs[x.sub] \in Subscription
  BY <1>2, ElementOfSeq DEF BillingInv, TablesFit
<1>4. items \in [Skus -> Item]
  BY <1>3 DEF Subscription
<1>5. pc \in Pcs /\ Stage(x.op, pc)
  BY <1>1 DEF Pcs, Stage
<1>6. req' = [req EXCEPT ![q] = y]
  <2>1. req' = [req EXCEPT ![q].items = items, ![q].pc = pc]
    BY DEF FetchSubscription
  <2> HIDE DEF pc, items
  <2> QED BY <2>1 DEF WithItems, BillingInv, RequestsFit
<1> HIDE DEF pc, items
<1>7. y \in ActiveRequest /\ Same(x, y) /\ y.pc = pc /\ y.row = x.row /\ y.sub = x.sub
  <2> HIDE DEF x
  <2> QED BY <1>1, <1>4, <1>5, WithItemsFits
<1>8. Len(subs) <= Len(subs)' /\ TablesFit'
  BY <1>1 DEF FetchSubscription, BillingInv, TablesFit
<1>9. Fits(y, Len(subs)')
  BY <1>1, <1>2, <1>5, <1>7 DEF Fits, Same, Stage, FetchSubscription
<1> QED BY <1>6, <1>8, <1>9, OneFits

LEMMA SubscribeFits ==
  ASSUME BillingInv, NEW q \in Requests, Subscribe(q)
  PROVE  BillingInv'
<1>1. /\ Fits(req[q], Len(subs)) /\ req[q].pc = "subscribe" /\ Stage(req[q].op, "subscribe")
  BY AtFits DEF Subscribe
<1>2. req[q].op = "create" /\ req[q].sku \in Skus
  BY <1>1 DEF Fits, Stage
<1>3. Only(req[q].sku) \in [Skus -> Item] /\ faults' \in 0..MaxFaults
  BY <1>2, OnlyFits DEF Subscribe, BillingInv, TablesFit
<1> QED BY <1>1, <1>2, <1>3, MadeFits DEF Subscribe

LEMMA DischargeFits ==
  ASSUME BillingInv, NEW q \in Requests, Discharge(q)
  PROVE  BillingInv'
<1> DEFINE x    == req[q]
           k    == x.row.price
           next == IF x.op = "delete" THEN "erase" ELSE IF x.sku = Free THEN "save" ELSE "charge"
<1>1. /\ Fits(x, Len(subs)) /\ x \in ActiveRequest /\ x.pc = "discharge" /\ Stage(x.op, "discharge")
      /\ Len(subs) \in Nat
  BY AtFits DEF Discharge
<1>2. /\ x.sub \in 1..Len(subs) /\ x.row \in Row /\ k \in Skus \cup {Null}
      /\ x.items \in [Skus -> Item]
  BY <1>1 DEF Fits, ActiveRequest, Row, Stage
<1>3. next \in Pcs /\ Stage(x.op, next) /\ next \in {"erase", "save", "charge"} /\ x.sub # 0
  BY <1>1, <1>2 DEF Pcs, Stage
<1>4. UNCHANGED <<db, customers, rest, faults>>
  BY DEF Discharge
<1>5. CASE Goto(q, next) /\ UNCHANGED <<subs, clean>>
  <2>1. Len(subs) <= Len(subs)' /\ TablesFit'
    BY <1>1, <1>4, <1>5 DEF BillingInv, TablesFit
  <2> HIDE DEF next
  <2> QED BY <1>1, <1>3, <1>5, <2>1, GoFits
<1>6. CASE /\ k # Null /\ Read(q, k).qty > 0 /\ WriteItem(q, k, Read(q, k).qty - 1)
           /\ Wrote(q, next) /\ UNCHANGED clean
  <2>1. Read(q, k).qty \in Nat /\ k \in Skus
    BY <1>2, <1>6 DEF Read, Item
  <2>2. Read(q, k).qty - 1 \in Nat
    BY <1>6, <2>1
  <2>3. subs' \in Seq(Subscription) /\ Len(subs)' = Len(subs)
    BY <1>1, <1>2, <1>6, <2>1, <2>2, WriteFits
  <2>4. Len(subs) <= Len(subs)' /\ TablesFit'
    BY <1>1, <1>4, <1>6, <2>3 DEF BillingInv, TablesFit
  <2> HIDE DEF next
  <2> QED BY <1>1, <1>3, <1>6, <2>4, GoFits
<1>7. CASE Fail(q) /\ UNCHANGED subs
  <2>1. Len(subs) <= Len(subs)' /\ clean' \in BOOLEAN /\ TablesFit'
    BY <1>1, <1>4, <1>7 DEF Fail, BillingInv, TablesFit
  <2> QED BY <1>7, <2>1, OverFits
<1> QED BY <1>5, <1>6, <1>7 DEF Discharge

LEMMA ChargeFits ==
  ASSUME BillingInv, NEW q \in Requests, Charge(q)
  PROVE  BillingInv'
<1> DEFINE x    == req[q]
           next == IF x.op = "create" THEN "insert" ELSE "save"
<1>1. /\ Fits(x, Len(subs)) /\ x \in ActiveRequest /\ x.pc = "charge" /\ Stage(x.op, "charge")
      /\ Len(subs) \in Nat
  BY AtFits DEF Charge
<1>2. /\ x.sub \in 1..Len(subs) /\ x.sku \in Skus /\ x.items \in [Skus -> Item]
  BY <1>1 DEF Fits, ActiveRequest, Stage
<1>3. next \in Pcs /\ Stage(x.op, next) /\ next \in {"insert", "save"}
  BY <1>1 DEF Pcs, Stage
<1>4. UNCHANGED <<db, customers, rest, faults>>
  BY DEF Charge
<1>5. CASE WriteItem(q, x.sku, Read(q, x.sku).qty + 1) /\ Wrote(q, next) /\ UNCHANGED clean
  <2>1. Read(q, x.sku).qty \in Nat
    BY <1>2 DEF Read, Item
  <2>2. Read(q, x.sku).qty + 1 \in Nat
    BY <2>1
  <2>3. subs' \in Seq(Subscription) /\ Len(subs)' = Len(subs)
    BY <1>1, <1>2, <1>5, <2>2, WriteFits
  <2>4. Len(subs) <= Len(subs)' /\ TablesFit'
    BY <1>1, <1>4, <1>5, <2>3 DEF BillingInv, TablesFit
  <2> HIDE DEF next
  <2> QED BY <1>1, <1>3, <1>5, <2>4, GoFits
<1>6. CASE Fail(q) /\ UNCHANGED subs
  <2>1. Len(subs) <= Len(subs)' /\ clean' \in BOOLEAN /\ TablesFit'
    BY <1>1, <1>4, <1>6 DEF Fail, BillingInv, TablesFit
  <2> QED BY <1>6, <2>1, OverFits
<1> QED BY <1>5, <1>6 DEF Charge

LEMMA CancelNowFits ==
  ASSUME BillingInv, NEW q \in Requests, CancelNow(q)
  PROVE  BillingInv'
<1> DEFINE x    == req[q]
           next == IF x.op = "delete" THEN "clear" ELSE "close"
<1>1. /\ Fits(x, Len(subs)) /\ x \in ActiveRequest /\ x.pc = "cancel" /\ Stage(x.op, "cancel")
      /\ Len(subs) \in Nat
  BY AtFits DEF CancelNow
<1>2. x.sub \in 1..Len(subs) /\ subs \in Seq(Subscription)
  BY <1>1 DEF Fits, ActiveRequest, BillingInv, TablesFit
<1>3. next \in Pcs /\ Stage(x.op, next) /\ next \in {"clear", "close"}
  BY <1>1 DEF Pcs, Stage
<1>4. subs' = [subs EXCEPT ![x.sub].status = "canceled"]
  BY DEF CancelNow
<1>5. subs' \in Seq(Subscription) /\ Len(subs)' = Len(subs)
  BY <1>2, <1>4, StatusFits
<1>6. Len(subs) <= Len(subs)' /\ TablesFit' /\ Wrote(q, next)
  BY <1>1, <1>5 DEF CancelNow, BillingInv, TablesFit
<1> HIDE DEF next
<1> QED BY <1>1, <1>3, <1>6, GoFits

LEMMA NewCustomerFits ==
  ASSUME BillingInv, NEW q \in Requests, NewCustomer(q)
  PROVE  BillingInv'
<1> DEFINE x == req[q]
           c == customers + 1
           y == WithCustomer(x, c, "count")
<1>1. /\ Fits(x, Len(subs)) /\ x \in ActiveRequest /\ x.pc = "customer" /\ Stage(x.op, "customer")
      /\ Len(subs) \in Nat
  BY AtFits DEF NewCustomer
<1>2. c \in Nat /\ "count" \in Pcs /\ Stage(x.op, "count")
  BY <1>1 DEF BillingInv, TablesFit, Pcs, Stage
<1>3. req' = [req EXCEPT ![q] = y]
  BY DEF NewCustomer, WithCustomer, BillingInv, RequestsFit
<1>4. Len(subs) <= Len(subs)' /\ TablesFit'
  BY <1>1, <1>2 DEF NewCustomer, BillingInv, TablesFit
<1>5. y \in ActiveRequest /\ Same(x, y) /\ y.pc = "count" /\ y.row = x.row /\ y.sub = x.sub
  <2> HIDE DEF c, x
  <2> QED BY <1>1, <1>2, WithCustomerFits
<1>6. Fits(y, Len(subs)')
  BY <1>1, <1>2, <1>5 DEF Fits, Same, Stage, NewCustomer
<1> QED BY <1>3, <1>4, <1>6, OneFits

\* Both answers to a request for a subscription for all that is counted.
LEMMA ManyFits ==
  ASSUME BillingInv, NEW q \in Requests, BulkSubscribe(q) \/ PricesUnreadable(q) \/ SubscribeCounted(q)
  PROVE  BillingInv'
<1>1. PICK pc \in {"bulk", "payment"} : At(q, pc)
  BY DEF BulkSubscribe, PricesUnreadable, SubscribeCounted
<1>2. /\ Fits(req[q], Len(subs)) /\ req[q] \in ActiveRequest /\ req[q].pc = pc
      /\ Stage(req[q].op, pc) /\ Len(subs) \in Nat
  BY <1>1, AtFits
<1>3. /\ req[q].op \in {"customer", "subscription"} /\ req[q].pc # "idle"
      /\ req[q].items \in [Skus -> Item]
  BY <1>2 DEF Stage, ActiveRequest
<1>4. faults' \in 0..MaxFaults /\ UNCHANGED <<db, rest, customers>>
  BY BoundsAssumption DEF BulkSubscribe, PricesUnreadable, SubscribeCounted, BillingInv, TablesFit
<1>5. CASE UNCHANGED clean /\ \E i \in {NoItems, req[q].items} : MakeSubscription(q, i)
  <2>1. PICK i \in {NoItems, req[q].items} : MakeSubscription(q, i)
    BY <1>5
  <2>2. i \in [Skus -> Item] /\ UNCHANGED <<db, rest, customers, clean>>
    BY <1>3, <1>4, <1>5, NoItemsFit
  <2> QED BY <1>3, <1>4, <2>1, <2>2, MadeFits
<1>6. CASE Fail(q) /\ UNCHANGED subs
  <2>1. Len(subs) <= Len(subs)' /\ clean' \in BOOLEAN /\ TablesFit'
    BY <1>2, <1>4, <1>6 DEF Fail, BillingInv, TablesFit
  <2> QED BY <1>6, <2>1, OverFits
<1> QED BY <1>5, <1>6 DEF BulkSubscribe, PricesUnreadable, SubscribeCounted

LEMMA CancelAtPeriodEndFits ==
  ASSUME BillingInv, NEW q \in Requests, CancelAtPeriodEnd(q)
  PROVE  BillingInv'
<1> DEFINE x == req[q]
<1>1. /\ Fits(x, Len(subs)) /\ x \in ActiveRequest /\ x.pc = "schedule" /\ Stage(x.op, "schedule")
      /\ Len(subs) \in Nat
  BY AtFits DEF CancelAtPeriodEnd
<1>2. x.sub \in 1..Len(subs) /\ subs \in Seq(Subscription)
  BY <1>1 DEF Fits, ActiveRequest, BillingInv, TablesFit
<1>3. CASE Usable(x.sub) /\ subs' = [subs EXCEPT ![x.sub].status = "ending"] /\ Wrote(q, "touch")
           /\ UNCHANGED clean
  <2>1. subs' \in Seq(Subscription) /\ Len(subs)' = Len(subs)
    BY <1>2, <1>3, StatusFits
  <2>2. Len(subs) <= Len(subs)' /\ TablesFit'
    BY <1>1, <1>3, <2>1 DEF CancelAtPeriodEnd, BillingInv, TablesFit
  <2>3. "touch" \in Pcs /\ Stage(x.op, "touch")
    BY <1>1 DEF Pcs, Stage
  <2> QED BY <1>1, <1>3, <2>2, <2>3, GoFits
<1>4. CASE Fail(q) /\ UNCHANGED subs
  <2>1. Len(subs) <= Len(subs)' /\ clean' \in BOOLEAN /\ TablesFit'
    BY <1>1, <1>4 DEF Fail, CancelAtPeriodEnd, BillingInv, TablesFit
  <2> QED BY <1>4, <2>1, OverFits
<1> QED BY <1>3, <1>4 DEF CancelAtPeriodEnd

\* Stripe ends a subscription on its own.
LEMMA EndsFits ==
  ASSUME BillingInv, NEW n \in 1..Len(subs), SubscriptionEnds(n)
  PROVE  BillingInv'
<1>1. subs \in Seq(Subscription) /\ subs' = [subs EXCEPT ![n].status = "canceled"]
  BY DEF SubscriptionEnds, BillingInv, TablesFit
<1>2. subs' \in Seq(Subscription) /\ Len(subs)' = Len(subs)
  BY <1>1, StatusFits
<1>3. faults' \in 0..MaxFaults /\ UNCHANGED <<db, rest, customers, req, clean>>
  BY BoundsAssumption DEF SubscriptionEnds, BillingInv, TablesFit
<1> QED BY <1>2, <1>3 DEF BillingInv, TablesFit, RequestsFit
-----------------------------------------------------------------------------
(* Faults, and all steps together.                                           *)
LEMMA CallFailsFits ==
  ASSUME BillingInv, NEW q \in Requests, CallFails(q)
  PROVE  BillingInv'
<1> DEFINE x == req[q]
<1>1. /\ Fits(x, Len(subs)) /\ x \in ActiveRequest /\ Stage(x.op, x.pc) /\ Len(subs) \in Nat
      /\ x.pc # "idle"
  BY AtFits DEF CallFails, At
<1>2. faults' \in 0..MaxFaults /\ UNCHANGED <<db, stripe, rest>>
  BY BoundsAssumption DEF CallFails, BillingInv, TablesFit
<1>3. Len(subs) <= Len(subs)' /\ (clean' \in BOOLEAN => TablesFit')
  BY <1>1, <1>2 DEF BillingInv, TablesFit
<1>4. CASE Tolerant(q) /\ ~At(q, "read") /\ Goto(q, AfterFailure(q)) /\ clean' = FALSE
  <2>1. /\ AfterFailure(q) \in {"clear", "close", "drop", "erase"}
        /\ Stage(x.op, AfterFailure(q))
    BY <1>1, <1>4 DEF AfterFailure, Tolerant, SkipTo, Stage, At
  <2>2. /\ AfterFailure(q) \in Pcs /\ TablesFit' /\ x.op \in {"delete", "deleteProject"}
        /\ x.pc # "read"
    BY <1>3, <1>4, <2>1 DEF Pcs, Tolerant, At
  <2> QED BY <1>1, <1>3, <1>4, <2>1, <2>2, GoFits
<1>5. CASE (At(q, "count") \/ At(q, "bulk")) /\ x.op = "customer" /\ Goto(q, "link") /\ UNCHANGED clean
  <2>1. TablesFit' /\ "link" \in Pcs /\ Stage(x.op, "link")
    BY <1>3, <1>5 DEF Pcs, Stage, BillingInv, TablesFit
  <2> QED BY <1>1, <1>3, <1>5, <2>1, GoFits
<1>6. CASE Fail(q)
  <2>1. clean' \in BOOLEAN
    BY <1>6 DEF Fail, BillingInv, TablesFit
  <2> QED BY <1>3, <1>6, <2>1, OverFits
<1> QED BY <1>4, <1>5, <1>6 DEF CallFails

LEMMA CrashFits == BillingInv /\ Crash => BillingInv'
BY BoundsAssumption DEF Crash, BillingInv, TablesFit, RequestsFit, IdleRequest

LEMMA NextFits == BillingInv /\ [Next]_vars => BillingInv'
<1> SUFFICES ASSUME BillingInv, [Next]_vars PROVE BillingInv'
  OBVIOUS
<1>1. ASSUME NEW q \in Requests, Begin(q) PROVE BillingInv'
  BY <1>1, BeginFits
<1>2. ASSUME NEW q \in Requests, DbStep(q) PROVE BillingInv'
  BY <1>2, ReadRowFits, GetAccountFits, OpenAccountFits, RecordFits, InsertFits, SaveFits,
     ClearFits, EraseFits, CountFits, LinkFits DEF DbStep
<1>3. ASSUME NEW q \in Requests, StripeStep(q) PROVE BillingInv'
  BY <1>3, FetchFits, SubscribeFits, DischargeFits, ChargeFits, CancelNowFits, NewCustomerFits,
     ManyFits, CancelAtPeriodEndFits DEF StripeStep
<1>4. ASSUME NEW q \in Requests, CallFails(q) PROVE BillingInv'
  BY <1>4, CallFailsFits
<1>5. ASSUME NEW n \in 1..Len(subs), SubscriptionEnds(n) PROVE BillingInv'
  BY <1>5, EndsFits
<1>6. CASE Crash
  BY <1>6, CrashFits
<1>7. CASE UNCHANGED vars
  BY <1>7 DEF vars, BillingInv, TablesFit, RequestsFit
<1> QED BY <1>1, <1>2, <1>3, <1>4, <1>5, <1>6, <1>7 DEF Next

\* What a request carries is what its call needs: in every state of every run
\* a subscription that is read, changed or recorded is one that was made, and
\* a row that is written carries a tier.
LEMMA BillingAlways == Spec => []BillingInv
<1>1. Init => BillingInv
  BY InitFits
<1>2. BillingInv /\ [Next]_vars => BillingInv'
  BY NextFits
<1> QED BY <1>1, <1>2, PTL DEF Spec

\* The tables, the subscriptions and the requests have their types in every
\* state: no quantity of an item falls below zero, whatever is interleaved and
\* wherever a request breaks off (internal/service/resource_service.go).
THEOREM TypeCorrect == Spec => []TypeOK
<1>1. Init => apart \in BOOLEAN
  BY DEF Init
<1>2. apart \in BOOLEAN /\ [Next]_vars => (apart \in BOOLEAN)'
  BY DEF Next, Separate, vars
<1>3. BillingInv /\ apart \in BOOLEAN => TypeOK
  BY DEF BillingInv, TablesFit, RequestsFit, TypeOK
<1> QED BY <1>1, <1>2, <1>3, BillingAlways, PTL DEF Spec
-----------------------------------------------------------------------------
(* Requests of which none writes between the calls of another.               *)

\* The tier is on the account's subscription.
Charged(k) == account.sub # 0 /\ subs[account.sub].items[k].qty > 0

\* What a request has read is still so, when no other has written since.
Tied(x) ==
  /\ (x.pc \in {"record", "link"} /\ x.sub # 0) => subs[x.sub].customer = x.customer
  /\ (x.op = "customer" /\ x.pc # "link") => x.sub = 0
  /\ (x.op \in {"create", "update"} /\ x.pc \in {"fetch", "subscribe", "record", "discharge", "charge"})
       => x.customer = account.customer
  /\ (x.op = "subscription" /\ x.pc \in {"count", "payment", "record"}) => x.customer = account.customer
  /\ (x.op \in {"create", "update"} /\ x.pc \in {"fetch", "discharge", "charge"}) => x.sub = account.sub
  /\ (x.op = "update" /\ x.pc # "read") => row[x.res] = x.row
  /\ (x.op = "create" /\ x.pc = "record") => subs[x.sub].items[x.sku].qty > 0
  /\ (x.op = "create" /\ x.pc = "insert" /\ x.sku # Free) => Charged(x.sku)
  /\ (x.op = "update" /\ x.pc = "save" /\ x.sku \notin {Null, Free, x.row.sku}) => Charged(x.sku)
  /\ (x.op = "create" /\ x.pc # "insert") => x.sku # Free

\* The account's subscription is one of its customer.
Linked == account.sub # 0 => /\ account.sub <= Len(subs)
                             /\ subs[account.sub].customer = account.customer

TiedAt(q) == Linked /\ (req[q].pc # "idle" => Tied(req[q]))

SerialInv == apart => Linked /\ \A q \in Requests : TiedAt(q)

\* It is enough to look at the request as it is then.
LEMMA OnlyTied ==
  ASSUME NEW q \in Requests, Linked', req'[q].pc = "idle" \/ Tied(req[q])'
  PROVE  TiedAt(q)'
BY DEF TiedAt

LEMMA LinkedAt == ASSUME NEW q \in Requests, TiedAt(q) PROVE Linked
BY DEF TiedAt

LEMMA OverTied ==
  ASSUME BillingInv, NEW q \in Requests, Leave(q) \/ Fail(q), Linked'
  PROVE  TiedAt(q)'
<1>1. req'[q].pc = "idle"
  BY DEF Leave, Fail, IdleRequest, BillingInv, RequestsFit
<1> QED BY <1>1, OnlyTied

\* The account keeps its subscription, and subscriptions their customers.
LEMMA AccountTied ==
  ASSUME BillingInv, Linked, UNCHANGED account, Len(subs) <= Len(subs)', Len(subs)' \in Nat,
         \A m \in 1..Len(subs) : subs'[m].customer = subs[m].customer
  PROVE  Linked'
<1>1. account.sub \in Nat /\ Len(subs) \in Nat /\ account.sub <= Len(subs)
  BY LenProperties DEF BillingInv, TablesFit, Account
<1> QED BY <1>1 DEF Linked

LEMMA SameTied == ASSUME Linked, UNCHANGED <<account, subs>> PROVE Linked'
BY DEF Linked

\* The request that steps, as it was.
LEMMA AtTied ==
  ASSUME BillingInv, NEW q \in Requests, TiedAt(q), NEW pc, At(q, pc), pc # "idle"
  PROVE  /\ Fits(req[q], Len(subs)) /\ req[q].pc = pc /\ Len(subs) \in Nat
         /\ req[q] \in ActiveRequest /\ Stage(req[q].op, pc) /\ Tied(req[q])
BY AtFits DEF At, TiedAt

\* The request that goes on, as it is then.
LEMMA GoKeeps ==
  ASSUME BillingInv, NEW q \in Requests, NEW pc \in Pcs, req[q].pc # "idle",
         Goto(q, pc) \/ Wrote(q, pc)
  PROVE  /\ Same(req[q], req'[q]) /\ req'[q].pc = pc
         /\ req'[q].row = req[q].row /\ req'[q].customer = req[q].customer
         /\ req'[q].sub = req[q].sub /\ req'[q].items = req[q].items
<1>1. req[q] \in ActiveRequest
  BY AtFits DEF At
<1>2. PICK y \in {Moved(req[q], pc), MovedWriting(req[q], pc)} : req' = [req EXCEPT ![q] = y]
  BY DEF Goto, Wrote, Moved, MovedWriting, BillingInv, RequestsFit
<1>3. req'[q] = y
  BY <1>2 DEF BillingInv, RequestsFit
<1> QED BY <1>1, <1>2, <1>3, MovedFits, MovedWritingFits

LEMMA ItemsKeeps ==
  ASSUME BillingInv, NEW q \in Requests, NEW pc \in Pcs, req[q].pc # "idle",
         NEW items \in [Skus -> Item], req' = [req EXCEPT ![q].items = items, ![q].pc = pc]
  PROVE  /\ Same(req[q], req'[q]) /\ req'[q].pc = pc /\ req'[q].row = req[q].row
         /\ req'[q].customer = req[q].customer /\ req'[q].sub = req[q].sub
         /\ req'[q].items = items
<1>1. req[q] \in ActiveRequest
  BY AtFits DEF At
<1>2. req'[q] = WithItems(req[q], items, pc)
  BY DEF WithItems, BillingInv, RequestsFit
<1> QED BY <1>1, <1>2, WithItemsFits

LEMMA TakeKeeps ==
  ASSUME BillingInv, NEW q \in Requests, NEW a \in Account, TakeAccount(q, a),
         AfterAccount(q, a) \in Pcs, req[q].pc # "idle"
  PROVE  /\ Same(req[q], req'[q]) /\ req'[q].pc = AfterAccount(q, a)
         /\ req'[q].row = req[q].row /\ req'[q].customer = a.customer /\ req'[q].sub = a.sub
<1> DEFINE pc == AfterAccount(q, a)
           y  == WithAccount(req[q], a, pc)
<1>1. req[q] \in ActiveRequest
  BY AtFits DEF At
<1>2. req' = [req EXCEPT ![q] = y]
  BY DEF TakeAccount, WithAccount, BillingInv, RequestsFit, Pcs
<1>3. req'[q] = y
  BY <1>2 DEF BillingInv, RequestsFit
<1> HIDE DEF pc
<1> QED BY <1>1, <1>3, WithAccountFits DEF pc

LEMMA MadeKeeps ==
  ASSUME BillingInv, NEW q \in Requests, req[q].pc # "idle", NEW items \in [Skus -> Item],
         MakeSubscription(q, items)
  PROVE  /\ Same(req[q], req'[q]) /\ req'[q].row = req[q].row
         /\ req'[q].pc = IF req[q].op = "customer" THEN "link" ELSE "record"
         /\ req'[q].customer = req[q].customer /\ req'[q].sub = Len(subs) + 1
         /\ Len(subs)' = Len(subs) + 1 /\ Len(subs) \in Nat
         /\ \A m \in 1..Len(subs) : subs'[m] = subs[m]
         /\ subs'[Len(subs) + 1].customer = req[q].customer
         /\ subs'[Len(subs) + 1].items = items
<1> DEFINE x  == req[q]
           pc == IF x.op = "customer" THEN "link" ELSE "record"
           s  == [customer |-> x.customer, status |-> "active", items |-> items]
           y  == WithSub(x, Len(subs) + 1, pc)
<1>1. subs \in Seq(Subscription) /\ x \in ActiveRequest /\ Len(subs) \in Nat
  BY AtFits DEF At, BillingInv, TablesFit
<1>2. s \in Subscription /\ s.customer = x.customer /\ s.items = items
  BY <1>1 DEF Subscription, ActiveRequest
<1>3. subs' = Append(subs, s)
  BY DEF MakeSubscription
<1>4. /\ Len(subs') = Len(subs) + 1 /\ subs'[Len(subs) + 1] = s
      /\ \A m \in 1..Len(subs) : subs'[m] = subs[m]
  <2> HIDE DEF s
  <2> QED BY <1>1, <1>2, <1>3, AppendProperties
<1>5. Len(subs) + 1 \in Nat /\ pc \in Pcs
  BY <1>1 DEF Pcs
<1>6. req' = [req EXCEPT ![q] = y]
  BY DEF MakeSubscription, WithSub, BillingInv, RequestsFit
<1>7. req'[q] = y
  BY <1>6 DEF BillingInv, RequestsFit
<1>8. Same(x, y) /\ y.pc = pc /\ y.row = x.row /\ y.customer = x.customer /\ y.sub = Len(subs) + 1
  <2> HIDE DEF x, pc
  <2> QED BY <1>1, <1>5, WithSubFits
<1> QED BY <1>1, <1>2, <1>4, <1>7, <1>8
-----------------------------------------------------------------------------
(* The steps of a request.                                                   *)
LEMMA BeginTied ==
  ASSUME BillingInv, NEW q \in Requests, TiedAt(q), Begin(q)
  PROVE  TiedAt(q)'
<1>1. PICK rec : Start(q, rec) /\ Tied(rec)
  <2>1. ASSUME NEW op, NEW r, NEW k, NEW pc, Start(q, Request(op, r, k, pc)),
               pc \in {"account", "read", "customer"} \/ (op = "create" /\ pc = "insert" /\ k = Free),
               op = "update" => pc = "read", op = "create" /\ pc # "insert" => k # Free
        PROVE  \E rec : Start(q, rec) /\ Tied(rec)
    <3>1. Tied(Request(op, r, k, pc))
      BY <2>1 DEF Request, Tied
    <3> QED BY <2>1, <3>1
  <2>2. ASSUME NEW r \in Resources, NEW k \in Skus, StartCreate(q, r, k)
        PROVE  \E rec : Start(q, rec) /\ Tied(rec)
    BY <2>1, <2>2 DEF StartCreate
  <2>3. ASSUME NEW r \in Resources, NEW k \in Skus \cup {Null}, StartUpdate(q, r, k)
        PROVE  \E rec : Start(q, rec) /\ Tied(rec)
    BY <2>1, <2>3 DEF StartUpdate
  <2>4. ASSUME NEW r \in Resources, StartDelete(q, r)
        PROVE  \E rec : Start(q, rec) /\ Tied(rec)
    BY <2>1, <2>4 DEF StartDelete
  <2>5. ASSUME NEW op \in Ops, StartOther(q, op)
        PROVE  \E rec : Start(q, rec) /\ Tied(rec)
    BY <2>1, <2>5 DEF StartOther
  <2> QED BY <2>2, <2>3, <2>4, <2>5 DEF Begin
<1>2. req'[q] = rec
  BY <1>1 DEF Start, BillingInv, RequestsFit
<1>3. Tied(req[q])'
  BY <1>1, <1>2 DEF Start, Tied, Charged
<1> QED BY <1>1, <1>3, SameTied, LinkedAt, OnlyTied DEF Start

LEMMA ReadRowTied ==
  ASSUME BillingInv, NEW q \in Requests, TiedAt(q), ReadRow(q)
  PROVE  TiedAt(q)'
<1> DEFINE x == req[q]
           r == row[x.res]
<1>1. /\ Fits(x, Len(subs)) /\ x \in ActiveRequest /\ x.pc = "read" /\ Stage(x.op, "read")
  BY AtTied DEF ReadRow
<1>2. Linked'
  BY SameTied, LinkedAt DEF ReadRow
<1>3. ASSUME r # Gone, NEW pc \in {"save", "account", "erase"},
             req' = [req EXCEPT ![q].row = r, ![q].pc = pc],
             x.op = "update" /\ pc = "save" => x.sku \in {Null, r.sku}
      PROVE  TiedAt(q)'
  <2>1. r \in Row /\ pc \in Pcs
    BY <1>1, <1>3 DEF BillingInv, TablesFit, Fits, Stage, Pcs
  <2>2. req'[q] = WithRow(x, r, pc)
    BY <1>3 DEF WithRow, BillingInv, RequestsFit
  <2>3. Same(x, req'[q]) /\ req'[q].pc = pc /\ req'[q].row = r
    <3> HIDE DEF x, r
    <3> QED BY <1>1, <2>1, <2>2, WithRowFits
  <2>4. Tied(req[q])'
    BY <1>1, <1>3, <2>3 DEF Tied, Same, Stage, ReadRow
  <2> QED BY <1>2, <2>4, OnlyTied
<1>4. CASE Fail(q)
  BY <1>2, <1>4, OverTied
<1>5. CASE /\ r # Gone /\ x.op = "update"
           /\ req' = [req EXCEPT ![q].row = r,
                                 ![q].pc = IF x.sku \in {Null, r.sku} THEN "save" ELSE "account"]
  <2> DEFINE pc == IF x.sku \in {Null, r.sku} THEN "save" ELSE "account"
  <2>1. pc \in {"save", "account", "erase"} /\ (pc = "save" => x.sku \in {Null, r.sku})
    OBVIOUS
  <2>2. r # Gone /\ req' = [req EXCEPT ![q].row = r, ![q].pc = pc]
    BY <1>5
  <2> HIDE DEF pc, x, r
  <2> QED BY <1>3, <2>1, <2>2
<1>6. CASE /\ r # Gone /\ x.op = "delete"
           /\ req' = [req EXCEPT ![q].row = r,
                                 ![q].pc = IF r.sku # Free /\ r.price # Null
                                           THEN "account" ELSE "erase"]
  BY <1>3, <1>6
<1> QED BY <1>4, <1>5, <1>6 DEF ReadRow

LEMMA TakeTied ==
  ASSUME BillingInv, NEW q \in Requests, TiedAt(q), NEW a \in Account, TakeAccount(q, a),
         At(q, "account") \/ At(q, "open"), account' = a, UNCHANGED <<row, subs>>,
         a = account \/ a.sub = 0
  PROVE  TiedAt(q)'
<1> DEFINE x == req[q]
<1>1. /\ Fits(x, Len(subs)) /\ x \in ActiveRequest /\ x.pc \in {"account", "open"}
      /\ Stage(x.op, x.pc) /\ Tied(x)
  BY AtTied DEF At
<1>2. Linked'
  BY DEF TiedAt, Linked
<1>3. CASE AfterAccount(q, a) = "fail"
  BY <1>2, <1>3, OverTied DEF TakeAccount
<1>4. CASE AfterAccount(q, a) # "fail"
  <2>1. /\ Stage(x.op, AfterAccount(q, a)) /\ AfterAccount(q, a) \in Pcs
        /\ AfterAccount(q, a) \notin {"record", "link", "insert", "save"}
        /\ x.op # "customer"
    BY <1>1, <1>4 DEF AfterAccount, Stage, Pcs
  <2>2. /\ Same(x, req'[q]) /\ req'[q].pc = AfterAccount(q, a) /\ req'[q].row = x.row
        /\ req'[q].customer = a.customer /\ req'[q].sub = a.sub
    BY <1>1, <2>1, TakeKeeps
  <2>3. Tied(req[q])'
    BY <1>1, <2>1, <2>2 DEF Tied, Same
  <2> QED BY <1>2, <2>3, OnlyTied
<1> QED BY <1>3, <1>4

\* A request goes on: the subscriptions it does not write, the row and the
\* account are left alone.
LEMMA GoTied ==
  ASSUME BillingInv, NEW q \in Requests, TiedAt(q), NEW pc \in Pcs, req[q].pc # "idle",
         Goto(q, pc) \/ Wrote(q, pc), UNCHANGED row, Linked',
         pc \notin {"record", "link", "insert", "save", "fetch", "subscribe", "count", "payment"},
         pc \in {"discharge", "charge"} => UNCHANGED account /\ req[q].pc \in {"fetch", "discharge"},
         req[q].op \in {"update"} => req[q].pc # "read",
         req[q].op # "customer", req[q].op = "create" => req[q].pc # "insert"
  PROVE  TiedAt(q)'
<1>1. Tied(req[q])
  BY DEF TiedAt
<1>2. Same(req[q], req'[q]) /\ req'[q].pc = pc
      /\ req'[q].row = req[q].row /\ req'[q].customer = req[q].customer
      /\ req'[q].sub = req[q].sub
  BY GoKeeps
<1>3. Tied(req[q])'
  BY <1>1, <1>2 DEF Tied, Same
<1> QED BY <1>3, OnlyTied
LEMMA AccountsTied ==
  ASSUME BillingInv, NEW q \in Requests, TiedAt(q), GetAccount(q) \/ OpenAccount(q)
  PROVE  TiedAt(q)'
<1> DEFINE x == req[q]
<1>1. PICK pc \in {"account", "open"} : At(q, pc)
  BY DEF GetAccount, OpenAccount
<1>2. Stage(x.op, pc) /\ x.pc = pc
  BY <1>1, AtTied
<1>3. x.op # "customer" /\ x.pc \notin {"idle", "read", "insert"}
  BY <1>2 DEF Stage
<1>4. UNCHANGED <<row, subs>>
  BY DEF GetAccount, OpenAccount
<1>5. Linked'
  <2>1. UNCHANGED account \/ account'.sub = 0
    BY DEF GetAccount, OpenAccount, NoAccount
  <2> QED BY <1>4, <2>1 DEF TiedAt, Linked
<1>6. ASSUME TakeAccount(q, account'), account' = account \/ account' = [NoAccount EXCEPT !.open = TRUE]
      PROVE  TiedAt(q)'
  <2>1. account' \in Account /\ (account' = account \/ account'.sub = 0)
    <3>1. CASE account' = account
      BY <3>1 DEF BillingInv, TablesFit
    <3>2. CASE account' = [NoAccount EXCEPT !.open = TRUE]
      BY <3>2 DEF NoAccount, Account
    <3> QED BY <1>6, <3>1, <3>2
  <2> QED BY <1>1, <1>4, <1>6, <2>1, TakeTied
<1>7. ASSUME NEW to \in {"open", "erase", "drop"}, Goto(q, to)
      PROVE  TiedAt(q)'
  BY <1>3, <1>4, <1>5, <1>7, GoTied DEF Pcs
<1>8. CASE GetAccount(q)
  BY <1>6, <1>7, <1>8 DEF GetAccount
<1>9. CASE OpenAccount(q)
  BY <1>5, <1>6, <1>7, <1>9, OverTied DEF OpenAccount, SkipTo
<1> QED BY <1>8, <1>9

LEMMA RecordTied ==
  ASSUME BillingInv, NEW q \in Requests, TiedAt(q), RecordSubscription(q)
  PROVE  TiedAt(q)'
<1> DEFINE x == req[q]
<1>1. /\ Fits(x, Len(subs)) /\ x \in ActiveRequest /\ x.pc = "record" /\ Stage(x.op, "record")
      /\ Tied(x) /\ Len(subs) \in Nat
  BY AtTied DEF RecordSubscription
<1>2. /\ x.sub \in Nat /\ x.sub # 0 /\ x.sub <= Len(subs) /\ subs[x.sub].customer = x.customer
      /\ x.op \in {"create", "subscription"} /\ x.customer = account.customer
  BY <1>1 DEF Fits, Tied, Stage, ActiveRequest
<1>3. /\ UNCHANGED <<row, subs>>
      /\ UNCHANGED account \/ account' = [account EXCEPT !.sub = x.sub]
  BY DEF RecordSubscription
<1>4. account \in Account
  BY DEF BillingInv, TablesFit
<1>5. Linked'
  <2>1. CASE UNCHANGED account
    BY <1>3, <2>1, SameTied, LinkedAt
  <2>2. CASE account' = [account EXCEPT !.sub = x.sub]
    <3>1. account'.sub = x.sub /\ account'.customer = account.customer
      BY <1>4, <2>2 DEF Account
    <3> QED BY <1>2, <1>3, <3>1 DEF Linked
  <2> QED BY <1>3, <2>1, <2>2
<1>6. CASE Leave(q) \/ Fail(q)
  BY <1>5, <1>6, OverTied
<1>7. CASE account' = [account EXCEPT !.sub = x.sub] /\ x.op = "create" /\ Goto(q, "insert")
  <2>1. account'.sub = x.sub
    BY <1>4, <1>7 DEF Account
  <2>2. /\ Same(x, req'[q]) /\ req'[q].pc = "insert" /\ req'[q].row = x.row
    BY <1>1, <1>7, GoKeeps DEF Pcs
  <2>3. Tied(req[q])'
    BY <1>1, <1>2, <1>3, <1>7, <2>1, <2>2 DEF Tied, Same, Charged
  <2> QED BY <1>5, <2>3, OnlyTied
<1> QED BY <1>6, <1>7 DEF RecordSubscription

\* The last call of a request that leaves the account alone.
LEMMA LastTied ==
  ASSUME BillingInv, NEW q \in Requests, TiedAt(q),
         \/ InsertResource(q) \/ SaveResource(q) \/ EraseResource(q) \/ DropProject(q)
         \/ TouchAccount(q)
  PROVE  TiedAt(q)'
<1>1. UNCHANGED <<account, subs>> /\ (Leave(q) \/ Fail(q))
  BY DEF InsertResource, SaveResource, EraseResource, DropProject, TouchAccount
<1> QED BY <1>1, SameTied, LinkedAt, OverTied

LEMMA ClearTied ==
  ASSUME BillingInv, NEW q \in Requests, TiedAt(q), ClearSubscription(q) \/ CloseAccount(q)
  PROVE  TiedAt(q)'
<1>1. PICK pc \in {"clear", "close"} : At(q, pc)
  BY DEF ClearSubscription, CloseAccount
<1>2. req[q].pc = pc /\ Stage(req[q].op, pc)
  BY <1>1, AtTied
<1>3. account'.sub = 0 /\ UNCHANGED <<row, subs>>
  BY DEF ClearSubscription, CloseAccount, NoAccount, Account, BillingInv, TablesFit
<1>4. Linked'
  BY <1>3 DEF Linked
<1>5. PICK to \in {"erase", "drop"} : Goto(q, to)
  BY DEF ClearSubscription, CloseAccount
<1>6. to \in Pcs /\ req[q].op # "customer" /\ req[q].pc \notin {"idle", "read", "insert"}
  BY <1>2 DEF Stage, Pcs
<1> QED BY <1>3, <1>4, <1>5, <1>6, GoTied

LEMMA CountTied ==
  ASSUME BillingInv, NEW q \in Requests, TiedAt(q), CountResources(q)
  PROVE  TiedAt(q)'
<1>1. /\ req[q].pc = "count" /\ Stage(req[q].op, "count") /\ Tied(req[q])
  BY AtTied DEF CountResources
<1>2. UNCHANGED <<row, subs, account>>
  BY DEF CountResources
<1>3. Linked'
  BY <1>2, SameTied, LinkedAt
<1>4. ASSUME NEW pc \in {"link", "bulk", "payment"}, Stage(req[q].op, pc),
             req' = [req EXCEPT ![q].items = Counts, ![q].pc = pc]
      PROVE  TiedAt(q)'
  <2>1. pc \in Pcs
    BY <1>4 DEF Pcs
  <2>2. /\ Same(req[q], req'[q]) /\ req'[q].pc = pc
        /\ req'[q].customer = req[q].customer /\ req'[q].sub = req[q].sub
    BY <1>1, <1>4, <2>1, CountsFit, ItemsKeeps
  <2>3. Tied(req[q])'
    BY <1>1, <1>2, <1>4, <2>2 DEF Tied, Same, Stage
  <2> QED BY <1>3, <2>3, OnlyTied
<1>5. CASE req[q].op = "customer"
  <2>1. PICK pc \in {"link", "bulk"} : req' = [req EXCEPT ![q].items = Counts, ![q].pc = pc]
    BY <1>5 DEF CountResources
  <2> QED BY <1>4, <1>5, <2>1 DEF Stage
<1>6. CASE req[q].op = "subscription"
  <2>1. CASE req' = [req EXCEPT ![q].items = Counts, ![q].pc = "payment"]
    BY <1>4, <1>6, <2>1 DEF Stage
  <2>2. CASE Fail(q)
    BY <1>3, <2>2, OverTied
  <2> QED BY <1>6, <2>1, <2>2 DEF CountResources
<1> QED BY <1>5, <1>6 DEF CountResources

LEMMA LinkTied ==
  ASSUME BillingInv, NEW q \in Requests, TiedAt(q), LinkCustomer(q)
  PROVE  TiedAt(q)'
<1> DEFINE x == req[q]
<1>1. /\ Fits(x, Len(subs)) /\ x \in ActiveRequest /\ x.pc = "link" /\ Tied(x)
  BY AtTied DEF LinkCustomer
<1>2. x.sub # 0 => x.sub <= Len(subs) /\ subs[x.sub].customer = x.customer
  BY <1>1 DEF Fits, Tied
<1>3. UNCHANGED subs /\ (Leave(q) \/ Fail(q))
  BY DEF LinkCustomer
<1>4. Linked'
  <2>1. CASE UNCHANGED account
    BY <1>3, <2>1, SameTied, LinkedAt
  <2>2. CASE account' = [account EXCEPT !.customer = x.customer, !.sub = x.sub]
    <3>1. account'.sub = x.sub /\ account'.customer = x.customer
      BY <2>2 DEF Account, BillingInv, TablesFit
    <3> QED BY <1>2, <1>3, <3>1 DEF Linked
  <2> QED BY <2>1, <2>2 DEF LinkCustomer
<1> QED BY <1>3, <1>4, OverTied

LEMMA FetchTied ==
  ASSUME BillingInv, NEW q \in Requests, TiedAt(q), FetchSubscription(q)
  PROVE  TiedAt(q)'
<1> DEFINE x     == req[q]
           items == subs[x.sub].items
           pc    == CASE x.op = "create" -> IF Usable(x.sub) THEN "charge" ELSE "subscribe"
                      [] x.op = "update" -> "discharge"
                      [] x.op = "delete" ->
                           IF Cardinality(Tiers(items)) = 1 THEN "cancel" ELSE "discharge"
<1>1. /\ Fits(x, Len(subs)) /\ x \in ActiveRequest /\ x.pc = "fetch" /\ Stage(x.op, "fetch")
      /\ Tied(x) /\ Len(subs) \in Nat
  BY AtTied DEF FetchSubscription
<1>2. x.sub \in 1..Len(subs)
  BY <1>1 DEF Fits, ActiveRequest
<1>3. subs[x.sub] \in Subscription
  BY <1>2, ElementOfSeq DEF BillingInv, TablesFit
<1>4. items \in [Skus -> Item]
  BY <1>3 DEF Subscription
<1>5. pc \in Pcs /\ Stage(x.op, pc)
  BY <1>1 DEF Pcs, Stage
<1>6. pc \in {"charge", "subscribe", "discharge", "cancel"}
  BY <1>1 DEF Stage
<1>7. req' = [req EXCEPT ![q].items = items, ![q].pc = pc]
  BY DEF FetchSubscription
<1> HIDE DEF pc, items
<1>8. /\ Same(x, req'[q]) /\ req'[q].pc = pc /\ req'[q].row = x.row
      /\ req'[q].customer = x.customer /\ req'[q].sub = x.sub
  BY <1>1, <1>4, <1>5, <1>7, ItemsKeeps
<1>9. Tied(req[q])'
  BY <1>1, <1>5, <1>6, <1>8 DEF Tied, Same, Stage, FetchSubscription
<1> QED BY <1>9, SameTied, LinkedAt, OnlyTied DEF FetchSubscription

\* A subscription just made is one of the request's customer.
LEMMA MadeTied ==
  ASSUME BillingInv, NEW q \in Requests, TiedAt(q), req[q].pc # "idle",
         NEW items \in [Skus -> Item], MakeSubscription(q, items), UNCHANGED account,
         \/ req[q].op = "customer"
         \/ req[q].op = "create" /\ req[q].pc = "subscribe" /\ items[req[q].sku].qty > 0
         \/ req[q].op = "subscription" /\ req[q].pc = "payment"
  PROVE  TiedAt(q)'
<1> DEFINE x == req[q]
<1>1. Tied(x)
  BY DEF TiedAt
<1>2. /\ Same(x, req'[q]) /\ req'[q].row = x.row
      /\ req'[q].pc = IF x.op = "customer" THEN "link" ELSE "record"
      /\ req'[q].customer = x.customer /\ req'[q].sub = Len(subs) + 1
      /\ Len(subs)' = Len(subs) + 1 /\ Len(subs) \in Nat
      /\ \A m \in 1..Len(subs) : subs'[m] = subs[m]
      /\ subs'[Len(subs) + 1].customer = x.customer
      /\ subs'[Len(subs) + 1].items = items
  BY MadeKeeps
<1>3. Linked'
  BY <1>2, AccountTied, LinkedAt
<1>4. Tied(req[q])'
  BY <1>1, <1>2 DEF Tied, Same
<1> QED BY <1>3, <1>4, OnlyTied

LEMMA SubscribeTied ==
  ASSUME BillingInv, NEW q \in Requests, TiedAt(q), Subscribe(q)
  PROVE  TiedAt(q)'
<1>1. /\ Fits(req[q], Len(subs)) /\ req[q].pc = "subscribe" /\ Stage(req[q].op, "subscribe")
  BY AtTied DEF Subscribe
<1>2. req[q].op = "create" /\ req[q].sku \in Skus
  BY <1>1 DEF Fits, Stage
<1>3. Only(req[q].sku) \in [Skus -> Item] /\ Only(req[q].sku)[req[q].sku].qty > 0
  BY <1>2, OnlyFits
<1> QED BY <1>1, <1>2, <1>3, MadeTied DEF Subscribe

LEMMA ManyTied ==
  ASSUME BillingInv, NEW q \in Requests, TiedAt(q),
         BulkSubscribe(q) \/ PricesUnreadable(q) \/ SubscribeCounted(q)
  PROVE  TiedAt(q)'
<1>1. PICK pc \in {"bulk", "payment"} : At(q, pc)
  BY DEF BulkSubscribe, PricesUnreadable, SubscribeCounted
<1>2. /\ req[q] \in ActiveRequest /\ req[q].pc = pc /\ Stage(req[q].op, pc)
  BY <1>1, AtTied
<1>3. /\ req[q].op = "customer" \/ (req[q].op = "subscription" /\ req[q].pc = "payment")
      /\ req[q].pc # "idle" /\ req[q].items \in [Skus -> Item]
  BY <1>2 DEF Stage, ActiveRequest
<1>4. UNCHANGED account
  BY DEF BulkSubscribe, PricesUnreadable, SubscribeCounted
<1>5. CASE \E i \in {NoItems, req[q].items} : MakeSubscription(q, i)
  <2>1. PICK i \in {NoItems, req[q].items} : MakeSubscription(q, i)
    BY <1>5
  <2>2. i \in [Skus -> Item]
    BY <1>3, NoItemsFit
  <2> QED BY <1>3, <1>4, <2>1, <2>2, MadeTied
<1>6. CASE Fail(q) /\ UNCHANGED subs
  BY <1>4, <1>6, SameTied, LinkedAt, OverTied
<1> QED BY <1>5, <1>6 DEF BulkSubscribe, PricesUnreadable, SubscribeCounted
LEMMA DischargeTied ==
  ASSUME BillingInv, NEW q \in Requests, TiedAt(q), Discharge(q)
  PROVE  TiedAt(q)'
<1> DEFINE x    == req[q]
           k    == x.row.price
           next == IF x.op = "delete" THEN "erase" ELSE IF x.sku = Free THEN "save" ELSE "charge"
<1>1. /\ Fits(x, Len(subs)) /\ x \in ActiveRequest /\ x.pc = "discharge" /\ Stage(x.op, "discharge")
      /\ Tied(x) /\ Len(subs) \in Nat
  BY AtTied DEF Discharge
<1>2. /\ x.sub \in 1..Len(subs) /\ x.row \in Row /\ k \in Skus \cup {Null}
      /\ x.items \in [Skus -> Item]
  BY <1>1 DEF Fits, ActiveRequest, Row, Stage
<1>3. UNCHANGED <<row, account>>
  BY DEF Discharge
<1>4. ASSUME Goto(q, next) \/ Wrote(q, next), Linked'
      PROVE  TiedAt(q)'
  <2>1. next \in Pcs /\ x.op \in {"update", "delete"} /\ next \in {"erase", "save", "charge"}
    BY <1>1 DEF Pcs, Stage
  <2>2. next = "save" => x.op = "update" /\ x.sku = Free
    BY <2>1
  <2> HIDE DEF next
  <2>3. /\ Same(x, req'[q]) /\ req'[q].pc = next /\ req'[q].row = x.row
        /\ req'[q].customer = x.customer /\ req'[q].sub = x.sub
    BY <1>1, <1>4, <2>1, GoKeeps
  <2>4. Tied(req[q])'
    BY <1>1, <1>3, <2>1, <2>2, <2>3 DEF Tied, Same
  <2> QED BY <1>4, <2>4, OnlyTied
<1>5. CASE UNCHANGED subs
  <2>1. Linked'
    BY <1>3, <1>5, SameTied, LinkedAt
  <2>2. Goto(q, next) \/ Wrote(q, next) \/ Fail(q)
    BY DEF Discharge
  <2> QED BY <1>4, <2>1, <2>2, OverTied
<1>6. CASE /\ k # Null /\ Read(q, k).qty > 0 /\ WriteItem(q, k, Read(q, k).qty - 1)
           /\ Wrote(q, next)
  <2>1. Read(q, k).qty \in Nat /\ k \in Skus
    BY <1>2, <1>6 DEF Read, Item
  <2>2. Read(q, k).qty - 1 \in Nat
    BY <1>6, <2>1
  <2>3. /\ Len(subs)' = Len(subs)
        /\ \A m \in 1..Len(subs) : subs'[m].customer = subs[m].customer
    BY <1>1, <1>2, <1>6, <2>1, <2>2, WriteFits
  <2>4. Linked'
    BY <1>1, <1>3, <2>3, AccountTied, LinkedAt
  <2> QED BY <1>4, <1>6, <2>4
<1> QED BY <1>5, <1>6 DEF Discharge

\* What is charged for is on the account's subscription.
LEMMA ChargeTied ==
  ASSUME BillingInv, NEW q \in Requests, TiedAt(q), Charge(q)
  PROVE  TiedAt(q)'
<1> DEFINE x    == req[q]
           next == IF x.op = "create" THEN "insert" ELSE "save"
<1>1. /\ Fits(x, Len(subs)) /\ x \in ActiveRequest /\ x.pc = "charge" /\ Stage(x.op, "charge")
      /\ Tied(x) /\ Len(subs) \in Nat
  BY AtTied DEF Charge
<1>2. /\ x.sub \in 1..Len(subs) /\ x.sku \in Skus /\ x.items \in [Skus -> Item]
      /\ x.op \in {"create", "update"} /\ x.sub = account.sub
  BY <1>1 DEF Fits, ActiveRequest, Stage, Tied
<1>3. UNCHANGED <<row, account>>
  BY DEF Charge
<1>4. CASE WriteItem(q, x.sku, Read(q, x.sku).qty + 1) /\ Wrote(q, next)
  <2>1. Read(q, x.sku).qty \in Nat
    BY <1>2 DEF Read, Item
  <2>2. Read(q, x.sku).qty + 1 \in Nat
    BY <2>1
  <2>3. /\ Len(subs)' = Len(subs)
        /\ \A m \in 1..Len(subs) : subs'[m].customer = subs[m].customer
        /\ subs'[x.sub].items[x.sku].qty = Read(q, x.sku).qty + 1
    BY <1>1, <1>2, <1>4, <2>2, WriteFits
  <2>4. Linked'
    BY <1>1, <1>3, <2>3, AccountTied, LinkedAt
  <2>5. account'.sub # 0 /\ subs'[account'.sub].items[x.sku].qty > 0
    BY <1>2, <1>3, <2>1, <2>3
  <2>6. next \in Pcs /\ next \in {"insert", "save"}
    BY DEF Pcs
  <2> HIDE DEF next
  <2>7. /\ Same(x, req'[q]) /\ req'[q].pc = next /\ req'[q].row = x.row
        /\ req'[q].customer = x.customer /\ req'[q].sub = x.sub
    BY <1>1, <1>4, <2>6, GoKeeps
  <2>8. Tied(req[q])'
    BY <1>1, <1>2, <1>3, <2>5, <2>6, <2>7 DEF Tied, Same, Charged
  <2> QED BY <2>4, <2>8, OnlyTied
<1>5. CASE Fail(q) /\ UNCHANGED subs
  BY <1>3, <1>5, SameTied, LinkedAt, OverTied
<1> QED BY <1>4, <1>5 DEF Charge

LEMMA StatusTied ==
  ASSUME BillingInv, NEW q \in Requests, TiedAt(q), CancelNow(q) \/ CancelAtPeriodEnd(q)
  PROVE  TiedAt(q)'
<1> DEFINE x == req[q]
<1>1. PICK pc \in {"cancel", "schedule"} : At(q, pc)
  BY DEF CancelNow, CancelAtPeriodEnd
<1>2. /\ Fits(x, Len(subs)) /\ x \in ActiveRequest /\ x.pc = pc /\ Stage(x.op, pc)
      /\ Len(subs) \in Nat
  BY <1>1, AtTied
<1>3. x.sub \in 1..Len(subs) /\ subs \in Seq(Subscription)
  BY <1>2 DEF Fits, ActiveRequest, BillingInv, TablesFit
<1>4. UNCHANGED <<row, account>>
  BY DEF CancelNow, CancelAtPeriodEnd
<1>5. CASE Fail(q) /\ UNCHANGED subs
  BY <1>4, <1>5, SameTied, LinkedAt, OverTied
<1>6. ASSUME NEW st \in {"canceled", "ending"}, subs' = [subs EXCEPT ![x.sub].status = st],
             NEW to \in {"clear", "close", "touch"}, Wrote(q, to)
      PROVE  TiedAt(q)'
  <2>1. /\ Len(subs)' = Len(subs)
        /\ \A m \in 1..Len(subs) : subs'[m].customer = subs[m].customer
    BY <1>3, <1>6, StatusFits
  <2>2. Linked'
    BY <1>2, <1>4, <2>1, AccountTied, LinkedAt
  <2>3. to \in Pcs /\ x.op # "customer" /\ x.pc \notin {"idle", "read", "insert"}
    BY <1>2, <1>6 DEF Pcs, Stage
  <2> QED BY <1>4, <1>6, <2>2, <2>3, GoTied
<1>7. CASE CancelNow(q)
  BY <1>6, <1>7 DEF CancelNow
<1>8. CASE CancelAtPeriodEnd(q)
  BY <1>5, <1>6, <1>8 DEF CancelAtPeriodEnd
<1> QED BY <1>7, <1>8

LEMMA NewCustomerTied ==
  ASSUME BillingInv, NEW q \in Requests, TiedAt(q), NewCustomer(q)
  PROVE  TiedAt(q)'
<1> DEFINE x == req[q]
           c == customers + 1
<1>1. /\ x \in ActiveRequest /\ x.pc = "customer" /\ Stage(x.op, "customer") /\ Tied(x)
  BY AtTied DEF NewCustomer
<1>2. c \in Nat /\ "count" \in Pcs /\ x.op = "customer"
  BY <1>1 DEF BillingInv, TablesFit, Pcs, Stage
<1>3. req'[q] = WithCustomer(x, c, "count")
  BY DEF NewCustomer, WithCustomer, BillingInv, RequestsFit
<1>4. Same(x, req'[q]) /\ req'[q].pc = "count" /\ req'[q].sub = x.sub
  <2>1. x \in ActiveRequest /\ c \in Nat /\ "count" \in Pcs
    BY <1>1, <1>2
  <2> HIDE DEF c, x
  <2> QED BY <1>3, <2>1, WithCustomerFits
<1>5. Tied(req[q])'
  BY <1>1, <1>2, <1>4 DEF Tied, Same
<1> QED BY <1>5, SameTied, LinkedAt, OnlyTied DEF NewCustomer

LEMMA EndsTied ==
  ASSUME BillingInv, NEW q \in Requests, TiedAt(q), NEW n \in 1..Len(subs), SubscriptionEnds(n)
  PROVE  TiedAt(q)'
<1>1. subs \in Seq(Subscription) /\ subs' = [subs EXCEPT ![n].status = "canceled"]
  BY DEF SubscriptionEnds, BillingInv, TablesFit
<1>2. /\ Len(subs)' = Len(subs) /\ Len(subs) \in Nat
      /\ \A m \in 1..Len(subs) : subs'[m].customer = subs[m].customer /\ subs'[m].items = subs[m].items
  BY <1>1, StatusFits
<1>3. UNCHANGED <<row, account, req>> /\ account.sub \in Nat /\ account.sub <= Len(subs)
  BY DEF SubscriptionEnds, BillingInv, TablesFit, Account
<1>4. Linked'
  BY <1>2, <1>3, AccountTied, LinkedAt
<1>5. ASSUME req[q].pc # "idle" PROVE Tied(req[q])'
  <2> DEFINE x == req[q]
  <2>1. Tied(x) /\ Fits(x, Len(subs)) /\ x.sub \in Nat /\ x.sub <= Len(subs)
    BY <1>5 DEF TiedAt, BillingInv, RequestsFit, Fits, ActiveRequest
  <2>2. x.op = "create" /\ x.pc = "record" => x.sub # 0
    BY <2>1 DEF Fits
  <2>3. \A k : Charged(k) => Charged(k)'
    BY <1>2, <1>3 DEF Charged
  <2> QED BY <1>2, <1>3, <2>1, <2>2, <2>3 DEF Tied
<1> QED BY <1>3, <1>4, <1>5 DEF TiedAt

LEMMA CallFailsTied ==
  ASSUME BillingInv, NEW q \in Requests, TiedAt(q), CallFails(q)
  PROVE  TiedAt(q)'
<1> DEFINE x == req[q]
<1>1. /\ Stage(x.op, x.pc) /\ x.pc # "idle" /\ Tied(x)
  BY AtTied DEF CallFails, At
<1>2. UNCHANGED <<row, account, subs>>
  BY DEF CallFails
<1>3. Linked'
  BY <1>2, SameTied, LinkedAt
<1>4. CASE Tolerant(q) /\ ~At(q, "read") /\ Goto(q, AfterFailure(q))
  <2>1. AfterFailure(q) \in {"clear", "close", "drop", "erase"}
    BY DEF AfterFailure, SkipTo
  <2>2. AfterFailure(q) \in Pcs /\ x.op \notin {"customer", "create"} /\ x.pc # "read"
    BY <1>4, <2>1 DEF Pcs, Tolerant, At
  <2> QED BY <1>1, <1>2, <1>3, <1>4, <2>1, <2>2, GoTied
<1>5. CASE (At(q, "count") \/ At(q, "bulk")) /\ x.op = "customer" /\ Goto(q, "link")
  <2>1. Same(x, req'[q]) /\ req'[q].pc = "link" /\ req'[q].sub = x.sub
    BY <1>1, <1>5, GoKeeps DEF Pcs
  <2>2. Tied(req[q])'
    BY <1>1, <1>5, <2>1 DEF Tied, Same, At
  <2> QED BY <1>3, <2>2, OnlyTied
<1>6. CASE Fail(q)
  BY <1>3, <1>6, OverTied
<1> QED BY <1>4, <1>5, <1>6 DEF CallFails

-----------------------------------------------------------------------------
(* The others meanwhile.                                                     *)
Step(q) == Begin(q) \/ DbStep(q) \/ StripeStep(q) \/ CallFails(q)

LEMMA StepTied ==
  ASSUME BillingInv, NEW q \in Requests, TiedAt(q), Step(q)
  PROVE  TiedAt(q)'
<1>1. CASE Begin(q)
  BY <1>1, BeginTied
<1>2. CASE DbStep(q)
  BY <1>2, ReadRowTied, AccountsTied, RecordTied, LastTied, ClearTied, CountTied, LinkTied DEF DbStep
<1>3. CASE StripeStep(q)
  BY <1>3, FetchTied, SubscribeTied, ManyTied, DischargeTied, ChargeTied, StatusTied,
     NewCustomerTied DEF StripeStep
<1>4. CASE CallFails(q)
  BY <1>4, CallFailsTied
<1> QED BY <1>1, <1>2, <1>3, <1>4 DEF Step

\* A step of one request is nobody else's.
LEMMA OthersWait ==
  ASSUME BillingInv, NEW q \in Requests, NEW p \in Requests \ {q}, Step(q)
  PROVE  req'[p] = req[p]
<1> USE DEF BillingInv, RequestsFit
<1>1. ASSUME NEW rec, req' = [req EXCEPT ![q] = rec] PROVE req'[p] = req[p]
  BY <1>1
<1>2. CASE Begin(q)
  BY <1>2 DEF Begin, StartCreate, StartUpdate, StartDelete, StartOther, Start
<1>3. CASE DbStep(q)
  <2>1. CASE ReadRow(q) \/ GetAccount(q) \/ OpenAccount(q) \/ CountResources(q)
    BY <2>1 DEF ReadRow, GetAccount, OpenAccount, CountResources, TakeAccount, Goto, Leave, Fail
  <2>2. CASE \/ RecordSubscription(q) \/ InsertResource(q) \/ SaveResource(q) \/ ClearSubscription(q)
             \/ EraseResource(q) \/ CloseAccount(q) \/ DropProject(q) \/ LinkCustomer(q)
             \/ TouchAccount(q)
    BY <2>2 DEF RecordSubscription, InsertResource, SaveResource, ClearSubscription, EraseResource,
       CloseAccount, DropProject, LinkCustomer, TouchAccount, Goto, Leave, Fail
  <2> QED BY <1>3, <2>1, <2>2 DEF DbStep
<1>4. CASE StripeStep(q)
  BY <1>4 DEF StripeStep, FetchSubscription, Subscribe, Discharge, Charge, CancelNow, NewCustomer,
     BulkSubscribe, PricesUnreadable, SubscribeCounted, CancelAtPeriodEnd, MakeSubscription,
     Goto, Wrote, Leave, Fail
<1>5. CASE CallFails(q)
  BY <1>5 DEF CallFails, Goto, Leave, Fail
<1> QED BY <1>2, <1>3, <1>4, <1>5 DEF Step

\* A call that does not write changes nothing that others read.
LEMMA ReadsOnly ==
  ASSUME NEW q \in Requests, Step(q), ~Writes(q)
  PROVE  UNCHANGED <<row, account, subs>>
<1> USE DEF Writes, At
<1>1. CASE Begin(q)
  BY <1>1 DEF Begin, StartCreate, StartUpdate, StartDelete, StartOther, Start
<1>2. CASE DbStep(q)
  BY <1>2 DEF DbStep, ReadRow, GetAccount, OpenAccount, RecordSubscription, InsertResource,
     SaveResource, ClearSubscription, EraseResource, CloseAccount, DropProject, CountResources,
     LinkCustomer, TouchAccount
<1>3. CASE StripeStep(q)
  BY <1>3 DEF StripeStep, FetchSubscription, Subscribe, Discharge, Charge, CancelNow,
     NewCustomer, BulkSubscribe, PricesUnreadable, SubscribeCounted, CancelAtPeriodEnd
<1>4. CASE CallFails(q)
  BY <1>4 DEF CallFails
<1> QED BY <1>1, <1>2, <1>3, <1>4 DEF Step

\* Who has read nothing holds nothing that a write could make false.
LEMMA UnreadTied ==
  ASSUME BillingInv, NEW p \in Requests, TiedAt(p), Unread(p), req'[p] = req[p], Linked'
  PROVE  TiedAt(p)'
<1> SUFFICES ASSUME req[p].pc # "idle" PROVE Tied(req[p])'
  BY DEF TiedAt
<1>1. Tied(req[p]) /\ Stage(req[p].op, req[p].pc)
  BY AtTied DEF At
<1> QED BY <1>1 DEF Tied, Unread, At, Stage

LEMMA WaitingTied ==
  ASSUME NEW p \in Requests, TiedAt(p), req'[p] = req[p], UNCHANGED <<row, account, subs>>
  PROVE  TiedAt(p)'
BY DEF TiedAt, Linked, Tied, Charged

LEMMA NextTied ==
  ASSUME BillingInv, SerialInv, [Next]_vars
  PROVE  SerialInv'
<1> SUFFICES ASSUME apart' PROVE Linked' /\ \A p \in Requests : TiedAt(p)'
  BY DEF SerialInv
<1>1. apart /\ Linked /\ \A p \in Requests : TiedAt(p)
  BY DEF SerialInv, Next, Separate, vars
<1>2. ASSUME NEW q \in Requests, Separate(q), Step(q)
      PROVE  Linked' /\ \A p \in Requests : TiedAt(p)'
  <2>1. TiedAt(q)' /\ Linked'
    BY <1>1, <1>2, StepTied DEF TiedAt
  <2>2. ASSUME NEW p \in Requests \ {q} PROVE TiedAt(p)'
    <3>1. req'[p] = req[p]
      BY <1>2, OthersWait
    <3>2. CASE Writes(q)
      <4>1. Unread(p)
        BY <1>2, <3>2 DEF Separate
      <4> QED BY <1>1, <2>1, <3>1, <4>1, UnreadTied
    <3>3. CASE ~Writes(q)
      BY <1>1, <1>2, <3>1, <3>3, ReadsOnly, WaitingTied
    <3> QED BY <3>2, <3>3
  <2> QED BY <2>1, <2>2
<1>3. CASE Crash
  <2>1. Linked'
    BY <1>1, <1>3, SameTied DEF Crash
  <2> QED BY <1>3, <2>1 DEF Crash, TiedAt, IdleRequest
<1>4. ASSUME NEW n \in 1..Len(subs), SubscriptionEnds(n)
      PROVE  Linked' /\ \A p \in Requests : TiedAt(p)'
  <2>1. Linked'
    <3>1. /\ Len(subs)' = Len(subs) /\ Len(subs) \in Nat
          /\ \A m \in 1..Len(subs) : subs'[m].customer = subs[m].customer
      BY <1>4, StatusFits DEF SubscriptionEnds, BillingInv, TablesFit
    <3> QED BY <1>1, <1>4, <3>1, AccountTied DEF SubscriptionEnds
  <2> QED BY <1>1, <1>4, <2>1, EndsTied
<1>5. CASE UNCHANGED vars
  <2>1. Linked'
    BY <1>1, <1>5, SameTied DEF vars
  <2> QED BY <1>1, <1>5, <2>1, WaitingTied DEF vars
<1> QED BY <1>2, <1>3, <1>4, <1>5 DEF Next, Step

LEMMA SerialAlways == Spec => [](BillingInv /\ SerialInv)
<1>1. Init => BillingInv /\ SerialInv
  <2>1. Init => SerialInv
    BY DEF Init, NoAccount, IdleRequest, SerialInv, TiedAt, Linked
  <2> QED BY <2>1, InitFits
<1>2. (BillingInv /\ SerialInv) /\ [Next]_vars => (BillingInv /\ SerialInv)'
  BY NextFits, NextTied
<1> QED BY <1>1, <1>2, PTL DEF Spec

\* As long as no request writes between the calls of another, however many are
\* served, the account has a subscription of its own customer, wherever they
\* fail or the process stops and however often a customer or a subscription is
\* made anew (billing_service.go).
THEOREM SubscriptionIsOwn == Spec => []SubscriptionOfCustomer
<1>1. BillingInv /\ SerialInv => SubscriptionOfCustomer
  BY DEF SerialInv, Linked, SubscriptionOfCustomer
<1> QED BY <1>1, SerialAlways, PTL

\* Only an insert or an update writes a tier, and each comes after the charge.
LEMMA ChargedStep ==
  ASSUME BillingInv, NEW q \in Requests, TiedAt(q), InsertResource(q) \/ SaveResource(q),
         NEW r \in Resources, row'[r] # row[r], row'[r] # Gone, row'[r].sku \in Paid,
         Here(r) => row'[r].sku # row[r].sku
  PROVE  account.sub # 0 /\ subs[account.sub].items[row'[r].sku].qty > 0
<1> DEFINE x == req[q]
<1>1. row \in [Resources -> Row \cup {Gone}]
  BY DEF BillingInv, TablesFit
<1>2. CASE InsertResource(q)
  <2>1. Fits(x, Len(subs)) /\ x.pc = "insert" /\ Stage(x.op, "insert") /\ Tied(x)
    BY <1>2, AtTied DEF InsertResource
  <2>2. x.res = r /\ row'[r].sku = x.sku
    BY <1>1, <1>2 DEF InsertResource
  <2> QED BY <2>1, <2>2 DEF Tied, Stage, Charged, Paid
<1>3. CASE SaveResource(q)
  <2>1. Fits(x, Len(subs)) /\ x.pc = "save" /\ Stage(x.op, "save") /\ Tied(x)
    BY <1>3, AtTied DEF SaveResource
  <2>2. /\ x.res = r /\ Here(r)
        /\ row'[r].sku = IF x.sku = Null THEN x.row.sku ELSE x.sku
    BY <1>1, <1>3 DEF SaveResource
  <2>3. x.op = "update" /\ row[r] = x.row
    BY <2>1, <2>2 DEF Tied, Stage
  <2>4. x.sku \notin {Null, Free, x.row.sku} /\ row'[r].sku = x.sku
    BY <2>2, <2>3 DEF Paid
  <2> QED BY <2>1, <2>3, <2>4 DEF Tied, Charged
<1> QED BY <1>2, <1>3

\* As long as no request writes between the calls of another, none brings a
\* resource to a paid tier before the account's subscription charges for it,
\* wherever a call fails (resource_service.go: Stripe first, then the row).
THEOREM ChargedBefore == Spec => ChargedFirst
<1> DEFINE Paying ==
      \A r \in Resources :
        apart /\ row'[r] # row[r] /\ row'[r] # Gone /\ row'[r].sku \in Paid
        /\ (Here(r) => row'[r].sku # row[r].sku)
        => account.sub # 0 /\ subs[account.sub].items[row'[r].sku].qty > 0
<1>1. BillingInv /\ SerialInv /\ [Next]_vars => [Paying]_vars
  <2> SUFFICES ASSUME BillingInv, SerialInv, Next, apart,
                      NEW r \in Resources, row'[r] # row[r], row'[r] # Gone, row'[r].sku \in Paid,
                      Here(r) => row'[r].sku # row[r].sku
               PROVE  account.sub # 0 /\ subs[account.sub].items[row'[r].sku].qty > 0
    OBVIOUS
  <2>1. PICK q \in Requests : InsertResource(q) \/ SaveResource(q)
    <3>1. row \in [Resources -> Row \cup {Gone}]
      BY DEF BillingInv, TablesFit
    <3>2. ASSUME NEW q \in Requests, EraseResource(q) \/ DropProject(q) PROVE FALSE
      BY <3>1, <3>2 DEF EraseResource, DropProject
    <3>3. ASSUME NEW q \in Requests, Begin(q) PROVE UNCHANGED row
      BY <3>3 DEF Begin, StartCreate, StartUpdate, StartDelete, StartOther, Start
    <3>4. ASSUME NEW q \in Requests, StripeStep(q) PROVE UNCHANGED row
      BY <3>4 DEF StripeStep, FetchSubscription, Subscribe, Discharge, Charge, CancelNow,
         NewCustomer, BulkSubscribe, PricesUnreadable, SubscribeCounted, CancelAtPeriodEnd
    <3>5. ASSUME NEW q \in Requests, DbStep(q)
          PROVE  \/ InsertResource(q) \/ SaveResource(q) \/ EraseResource(q) \/ DropProject(q)
                 \/ UNCHANGED row
      BY <3>5 DEF DbStep, ReadRow, GetAccount, OpenAccount, RecordSubscription, ClearSubscription,
         CloseAccount, CountResources, LinkCustomer, TouchAccount
    <3>6. ASSUME NEW q \in Requests, CallFails(q) PROVE UNCHANGED row
      BY <3>6 DEF CallFails
    <3>7. ASSUME NEW n \in 1..Len(subs), SubscriptionEnds(n) PROVE UNCHANGED row
      BY <3>7 DEF SubscriptionEnds
    <3>8. Crash => UNCHANGED row
      BY DEF Crash
    <3> QED BY <3>2, <3>3, <3>4, <3>5, <3>6, <3>7, <3>8 DEF Next
  <2>2. TiedAt(q)
    BY <2>1 DEF SerialInv
  <2> QED BY <2>1, <2>2, ChargedStep
<1> QED BY <1>1, SerialAlways, PTL DEF Spec, ChargedFirst
=============================================================================
