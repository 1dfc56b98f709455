------------------------------ MODULE BillProofs ------------------------------
(* What a project pays: proofs about Billing's bounds on the bill, for any    *)
(* resources, tiers and bounds and any number of requests at the same time:   *)
(* first for all operations, as long as no request writes between the calls   *)
(* of another, then however they interleave, when none of them takes          *)
(* anything off the bill.                                                     *)
EXTENDS BillingProofs

\* Some subscription is over.
Ended == \E n \in 1..Len(subs) : ~Usable(n)

\* A paid resource has the price of its tier.
PricesSet == \A r \in Resources : Here(r) /\ row[r].sku \in Paid => row[r].price = row[r].sku

\* An update that takes a resource to another tier.
Retiers(x) == x.op = "update" /\ x.sku \notin {Null, x.row.sku}

\* What the request has taken off the subscription, or put on it, before the row
\* says so.
Taken(x, k) == \/ x.pc = "charge" /\ x.op = "update" /\ x.row.sku = k
               \/ x.pc = "save" /\ Retiers(x) /\ x.row.sku = k
               \/ x.pc = "erase" /\ x.row.sku = k
Put(x, k)   == \/ x.pc = "insert" /\ x.sku = k
               \/ x.pc = "save" /\ Retiers(x) /\ x.sku = k
Ahead(x, k) == IF Put(x, k) THEN 1 ELSE IF Taken(x, k) THEN -1 ELSE 0

\* The account's own subscription charges for the rows and for what the request
\* is ahead of them; after a subscription has ended it may charge for less.
OwnExact(x) ==
  \A k \in Paid :
    /\ account.sub # 0 /\ Usable(account.sub) =>
         /\ subs[account.sub].items[k].qty <= Rows(k) + Ahead(x, k)
         /\ ~Ended => subs[account.sub].items[k].qty = Rows(k) + Ahead(x, k)
    /\ account.sub = 0 /\ ~Ended => Rows(k) = 0
    /\ account.sub # 0 /\ ~Ended /\ Taken(x, k) => x.wrote = TRUE

\* No other subscription charges, but the one that a request is about to hand
\* to the account.
Making(x) == x.pc \in {"record", "link"}
OthersFree(x) ==
  \A n \in 1..Len(subs) :
    Usable(n) /\ n # account.sub /\ (Making(x) => n # x.sub)
      => \A k \in Paid : subs[n].items[k].qty = 0

\* What that one charges for.
Made(x) ==
  /\ x.pc = "payment" => \A k \in Paid : x.items[k].qty = Rows(k)
  /\ x.pc = "record" /\ x.op = "subscription" => \A k \in Paid : subs[x.sub].items[k].qty = Rows(k)
  /\ x.pc = "record" /\ x.op = "create" =>
       \A k \in Paid : subs[x.sub].items[k].qty = IF k = x.sku THEN 1 ELSE 0
  /\ x.pc = "link" /\ x.sub # 0 => \A k \in Paid : subs[x.sub].items[k].qty = 0
  /\ Making(x) /\ x.sub # 0 => x.wrote = TRUE

\* What a request has read is still so, and what it has written shows.
Carries(x) ==
  /\ ~account.open => account.sub = 0
  /\ x.pc = "open" => ~account.open
  /\ x.pc \in {"fetch", "discharge", "charge", "cancel"} => x.sub = account.sub
  /\ x.pc \notin {"idle", "read"} /\ x.op \in {"update", "delete"}
       => Here(x.res) /\ row[x.res] = x.row
  /\ x.pc \in {"account", "open", "fetch", "discharge", "charge"} /\ x.op = "update" => Retiers(x)
  /\ x.pc \notin {"idle", "insert"} /\ x.op = "create" => x.sku # Free
  /\ x.pc = "insert" /\ x.sku # Free => x.wrote = TRUE /\ account.sub # 0
  /\ x.pc = "save" /\ Retiers(x) => account.sub # 0 /\ (x.sku # Free => x.wrote = TRUE)
  /\ x.pc = "discharge" => x.items = subs[x.sub].items
  /\ x.pc = "charge" => x.items[x.sku] = subs[x.sub].items[x.sku]
  /\ x.pc \in {"clear", "close"} => account.sub = 0 \/ ~Usable(account.sub)
  /\ x.pc = "drop" => account.sub = 0

Books(x) == PricesSet /\ OwnExact(x) /\ OthersFree(x) /\ Made(x) /\ Carries(x)

\* A request whose call in Stripe its own writes have still to follow up, and
\* one that is served while no other request is there.
Pending(x) == /\ \/ x.pc \in {"charge", "save", "erase", "record", "link"}
                 \/ x.pc = "insert" /\ x.sku # Free
              /\ x.wrote = TRUE
Clear(q)   == \A o \in Requests \ {q} : ~Pending(req[o])

\* The books of every request for which no other is half way.
Ledger == apart /\ clean => \A q \in Requests : Clear(q) => Books(req[q])

USE DEF db, stripe, rest
-----------------------------------------------------------------------------
(* Rows and quantities.                                                      *)
LEMMA RowsCount == \A k : Rows(k) \in Nat
BY ResourcesAssumption, FS_Subset, FS_CardinalityType DEF Rows

LEMMA RowsSame == ASSUME UNCHANGED row PROVE \A k : Rows(k)' = Rows(k)
BY DEF Rows, Here

\* One resource changes.
IsOf(v, k) == v # Gone /\ v.sku = k
LEMMA RowsMoved ==
  ASSUME row \in [Resources -> Row \cup {Gone}], NEW r \in Resources, NEW v,
         row' = [row EXCEPT ![r] = v], NEW k
  PROVE  Rows(k)' = Rows(k) + (IF IsOf(v, k) THEN 1 ELSE 0) - (IF IsOf(row[r], k) THEN 1 ELSE 0)
<1> DEFINE A == {s \in Resources : IsOf(row[s], k)}
           B == {s \in Resources : IsOf(row'[s], k)}
<1>1. Rows(k) = Cardinality(A) /\ Rows(k)' = Cardinality(B)
  BY DEF Rows, Here, IsOf
<1>2. IsFiniteSet(A) /\ IsFiniteSet(A \ {r}) /\ Cardinality(A) \in Nat
  BY ResourcesAssumption, FS_Subset, FS_CardinalityType
<1>3. Cardinality(A \ {r}) = Cardinality(A) - (IF IsOf(row[r], k) THEN 1 ELSE 0)
  <2>1. r \in A <=> IsOf(row[r], k)
    OBVIOUS
  <2> HIDE DEF A
  <2> QED BY <1>2, <2>1, FS_RemoveElement
<1>4. CASE IsOf(v, k)
  <2>1. B = (A \ {r}) \cup {r}
    BY <1>4
  <2>2. Cardinality((A \ {r}) \cup {r}) = Cardinality(A \ {r}) + 1
    BY <1>2, FS_AddElement
  <2> HIDE DEF A, B
  <2> QED BY <1>1, <1>2, <1>3, <1>4, <2>1, <2>2
<1>5. CASE ~IsOf(v, k)
  <2>1. B = A \ {r}
    BY <1>5
  <2> HIDE DEF A, B
  <2> QED BY <1>1, <1>2, <1>3, <1>5, <2>1
<1> QED BY <1>4, <1>5

\* The account's subscription is one of those made, and charges in whole numbers.
LEMMA OwnSubscription ==
  ASSUME BillingInv
  PROVE  /\ account.sub \in Nat /\ Len(subs) \in Nat
         /\ account.sub # 0 => account.sub \in 1..Len(subs)
         /\ \A n \in 1..Len(subs) : /\ subs[n] \in Subscription /\ subs[n].items \in [Skus -> Item]
                                    /\ \A k \in Paid : subs[n].items[k].qty \in Nat
<1>1. account.sub \in Nat /\ account.sub <= Len(subs) /\ subs \in Seq(Subscription)
  BY DEF BillingInv, TablesFit, Account
<1>2. Len(subs) \in Nat
  BY <1>1
<1>3. \A n \in 1..Len(subs) : subs[n] \in Subscription
  BY <1>1, ElementOfSeq
<1>4. \A n \in 1..Len(subs) : subs[n].items \in [Skus -> Item]
  BY <1>3 DEF Subscription
<1>5. \A n \in 1..Len(subs) : \A k \in Paid : subs[n].items[k].qty \in Nat
  BY <1>4 DEF Item, Paid
<1> QED BY <1>1, <1>2, <1>3, <1>4, <1>5
-----------------------------------------------------------------------------
(* Steps that change no row and take no subscription into or out of use.     *)
\* The request is neither behind nor ahead of the rows.
Level(x) == \A k \in Paid : ~Put(x, k) /\ ~Taken(x, k)

LEMMA LevelPc ==
  ASSUME NEW x, x.pc \notin {"charge", "save", "erase", "insert"}
  PROVE  Level(x)
BY DEF Level, Put, Taken

\* The subscriptions there are charge for what they did, and none comes back.
Keeping ==
  /\ Len(subs)' \in Nat /\ Len(subs) <= Len(subs)'
  /\ \A m \in 1..Len(subs) :
       subs'[m].items = subs[m].items /\ (subs'[m].status # "canceled" => Usable(m))

LEMMA EndedStays == ASSUME BillingInv, Keeping, Ended PROVE Ended'
<1>1. Len(subs) \in Nat
  BY OwnSubscription
<1> QED BY <1>1 DEF Keeping, Ended, Usable

LEMMA OwnStays ==
  ASSUME BillingInv, NEW q \in Requests, UNCHANGED row, account'.sub = account.sub, Keeping,
         OwnExact(req[q]),
         \/ req'[q] = req[q]
         \/ Level(req[q]) /\ Level(req[q])'
         \/ account.sub = 0
  PROVE  OwnExact(req[q])'
<1>1. \A k : Rows(k)' = Rows(k)
  BY RowsSame
<1>2. account.sub # 0 => account.sub \in 1..Len(subs)
  BY OwnSubscription
<1>3. Ended => Ended'
  BY EndedStays
<1>4. account.sub # 0 => /\ subs'[account'.sub].items = subs[account.sub].items
                         /\ Usable(account.sub)' => Usable(account.sub)
  BY <1>2 DEF Keeping, Usable
<1>5. CASE req'[q] = req[q] \/ account.sub = 0
  BY <1>1, <1>3, <1>4, <1>5 DEF OwnExact, Ahead, Put, Taken, Retiers
<1>6. CASE Level(req[q]) /\ Level(req[q])'
  <2>1. \A k \in Paid : ~Put(req[q], k) /\ ~Taken(req[q], k) /\ ~Put(req[q], k)' /\ ~Taken(req[q], k)'
    BY <1>6 DEF Level
  <2>2. \A k \in Paid : Ahead(req[q], k) = 0 /\ Ahead(req[q], k)' = 0
    BY <2>1 DEF Ahead
  <2> QED BY <1>1, <1>3, <1>4, <2>1, <2>2 DEF OwnExact
<1> QED BY <1>5, <1>6

LEMMA PricesStay == ASSUME UNCHANGED row, PricesSet PROVE PricesSet'
BY DEF PricesSet, Here

\* Another subscription that charges is one just made.
LEMMA OthersStay ==
  ASSUME BillingInv, NEW q \in Requests, account'.sub = account.sub, Keeping, OthersFree(req[q]),
         \/ req'[q] = req[q]
         \/ ~Making(req[q])
         \/ req[q].sub = 0,
         \A m \in 1..Len(subs)' : m > Len(subs) => Making(req[q])' /\ m = req'[q].sub
  PROVE  OthersFree(req[q])'
<1>1. Len(subs) \in Nat /\ Len(subs)' \in Nat
  BY OwnSubscription DEF Keeping
<1> SUFFICES ASSUME NEW n \in 1..Len(subs)', Usable(n)', n # account'.sub,
                    Making(req[q])' => n # req'[q].sub
             PROVE  \A k \in Paid : subs'[n].items[k].qty = 0
  BY DEF OthersFree
<1>2. n \in 1..Len(subs)
  BY <1>1
<1>3. Usable(n) /\ n # account.sub /\ subs'[n].items = subs[n].items
  BY <1>2 DEF Keeping, Usable
<1>4. Making(req[q]) => n # req[q].sub
  BY <1>2 DEF Making
<1> QED BY <1>2, <1>3, <1>4 DEF OthersFree

\* A step of the first kind keeps the books.
LEMMA StandBooks ==
  ASSUME BillingInv, NEW q \in Requests, Books(req[q]), UNCHANGED row,
         account'.sub = account.sub, Keeping,
         \/ req'[q] = req[q]
         \/ /\ Level(req[q]) /\ (Level(req[q])' \/ account.sub = 0)
            /\ ~Making(req[q]) \/ req[q].sub = 0,
         \A m \in 1..Len(subs)' : m > Len(subs) => Making(req[q])' /\ m = req'[q].sub,
         Made(req[q])', Carries(req[q])'
  PROVE  Books(req[q])'
<1>1. PricesSet' /\ OwnExact(req[q])' /\ OthersFree(req[q])'
  BY PricesStay, OwnStays, OthersStay DEF Books
<1> QED BY <1>1 DEF Books

LEMMA SubsKept == ASSUME BillingInv, UNCHANGED subs PROVE /\ Keeping
                                                         /\ \A m \in 1..Len(subs)' : ~(m > Len(subs))
<1>1. Len(subs) \in Nat
  BY OwnSubscription
<1> QED BY <1>1 DEF Keeping, Usable

\* A request that is over has nothing to carry.
LEMMA IdleBooks ==
  ASSUME NEW q \in Requests, req'[q] = IdleRequest, ~account'.open => account'.sub = 0
  PROVE  Made(req[q])' /\ Carries(req[q])' /\ Level(req[q])' /\ ~Making(req[q])'
<1>1. req'[q].pc = "idle"
  BY DEF IdleRequest
<1> QED BY <1>1 DEF Made, Carries, Level, Put, Taken, Making

LEMMA LeaveIdle ==
  ASSUME BillingInv, NEW q \in Requests, Leave(q) \/ Fail(q) PROVE req'[q] = IdleRequest
BY DEF Leave, Fail, BillingInv, RequestsFit

\* A request that goes wrong without having written leaves the bill exact.
LEMMA UnwrittenBooks ==
  ASSUME BillingInv, NEW q \in Requests, Books(req[q]), req'[q] = IdleRequest,
         req[q].pc # "idle" => req[q].wrote # TRUE, UNCHANGED <<row, subs>>,
         account'.sub = account.sub, ~account'.open => account'.sub = 0
  PROVE  Books(req[q])'
<1> DEFINE x == req[q]
<1>1. /\ Made(req[q])' /\ Carries(req[q])' /\ Level(req[q])'
  BY IdleBooks
<1>2. Keeping /\ \A m \in 1..Len(subs)' : ~(m > Len(subs))
  BY SubsKept
<1>3. ~Making(x) \/ x.sub = 0
  BY DEF Books, Made, Making
<1>4. PricesSet' /\ OthersFree(req[q])'
  BY <1>2, <1>3, PricesStay, OthersStay DEF Books
<1>5. \A k \in Paid : ~Put(x, k)
  BY DEF Books, Carries, Put, Paid
<1>6. OwnExact(req[q])'
  <2>1. \A k : Rows(k)' = Rows(k) /\ Rows(k) \in Nat
    BY RowsSame, RowsCount
  <2>2. \A k \in Paid : Ahead(req[q], k)' = 0 /\ ~Taken(req[q], k)'
    BY <1>1 DEF Level, Ahead
  <2>3. /\ Usable(account.sub)' <=> Usable(account.sub)
        /\ Ended' <=> Ended
    BY DEF Usable, Ended
  <2>4. \A k \in Paid : Taken(x, k) => x.wrote # TRUE
    BY DEF Taken
  <2>5. \A k \in Paid : /\ Ahead(x, k) = IF Taken(x, k) THEN -1 ELSE 0
                        /\ account.sub # 0 /\ ~Ended => ~Taken(x, k)
    BY <1>5, <2>4 DEF Ahead, Books, OwnExact
  <2>6. ASSUME NEW k \in Paid, account.sub # 0, Usable(account.sub)
        PROVE  /\ subs[account.sub].items[k].qty <= Rows(k)
               /\ ~Ended => subs[account.sub].items[k].qty = Rows(k)
    <3>1. subs[account.sub].items[k].qty \in Nat
      BY <2>6, OwnSubscription
    <3>2. /\ subs[account.sub].items[k].qty <= Rows(k) + Ahead(x, k)
          /\ ~Ended => subs[account.sub].items[k].qty = Rows(k) + Ahead(x, k)
      BY <2>6 DEF Books, OwnExact
    <3> QED BY <2>1, <2>5, <2>6, <3>1, <3>2
  <2>7. \A k \in Paid : account.sub = 0 /\ ~Ended => Rows(k) = 0
    BY DEF Books, OwnExact
  <2> QED BY <2>1, <2>2, <2>3, <2>6, <2>7 DEF OwnExact
<1> QED BY <1>1, <1>4, <1>6 DEF Books

LEMMA FailBooks ==
  ASSUME BillingInv, NEW q \in Requests, Books(req[q]), Fail(q), clean', UNCHANGED <<row, subs>>,
         account'.sub = account.sub, ~account'.open => account'.sub = 0
  PROVE  Books(req[q])'
<1>1. req[q].wrote # TRUE
  BY DEF Fail
<1> QED BY <1>1, LeaveIdle, UnwrittenBooks

\* Or one that had nothing to write.
LEMMA LeaveBooks ==
  ASSUME BillingInv, NEW q \in Requests, Books(req[q]), Leave(q), UNCHANGED <<row, subs>>,
         account' = account, Level(req[q]), ~Making(req[q])
  PROVE  Books(req[q])'
<1>1. req'[q] = IdleRequest
  BY LeaveIdle
<1>2. ~account'.open => account'.sub = 0
  BY DEF Books, Carries
<1> QED BY <1>1, <1>2, SubsKept, IdleBooks, StandBooks

LEMMA BeginBooks ==
  ASSUME BillingInv, NEW q \in Requests, Books(req[q]), Begin(q)
  PROVE  Books(req[q])'
<1>1. PICK op, r, k, pc : /\ Start(q, Request(op, r, k, pc))
                          /\ \/ pc \in {"account", "read", "customer"}
                             \/ pc = "insert" /\ k = Free
                          /\ op \in {"update", "delete"} => pc = "read"
                          /\ op = "create" /\ pc # "insert" => k # Free
  <2>1. ASSUME NEW r \in Resources, NEW k \in Skus, StartCreate(q, r, k)
        PROVE  Start(q, Request("create", r, k, IF k = Free THEN "insert" ELSE "account"))
    BY <2>1 DEF StartCreate
  <2>2. ASSUME NEW r \in Resources, NEW k \in Skus \cup {Null}, StartUpdate(q, r, k)
        PROVE  Start(q, Request("update", r, k, "read"))
    BY <2>2 DEF StartUpdate
  <2>3. ASSUME NEW r \in Resources, StartDelete(q, r)
        PROVE  Start(q, Request("delete", r, Null, "read"))
    BY <2>3 DEF StartDelete
  <2>4. ASSUME NEW op \in Ops, StartOther(q, op)
        PROVE  /\ Start(q, Request(op, Null, Null, IF op = "customer" THEN "customer" ELSE "account"))
               /\ op \notin {"create", "update", "delete"}
    BY <2>4 DEF StartOther
  <2> QED BY <2>1, <2>2, <2>3, <2>4 DEF Begin
<1> DEFINE y == Request(op, r, k, pc)
<1>2. req'[q] = y /\ req[q].pc = "idle" /\ UNCHANGED <<row, account, subs>>
  BY <1>1 DEF Start, BillingInv, RequestsFit
<1>3. y.pc = pc /\ y.op = op /\ y.sku = k /\ y.sub = 0
  BY DEF Request
<1>4. Level(req[q]) /\ ~Making(req[q])
  BY <1>2, LevelPc DEF Making
<1>5. Level(req[q])' /\ Made(req[q])'
  BY <1>1, <1>2, <1>3 DEF Level, Put, Taken, Paid, Made, Making
<1>6. Carries(req[q])'
  BY <1>1, <1>2, <1>3 DEF Books, Carries
<1> QED BY <1>2, <1>4, <1>5, <1>6, SubsKept, StandBooks

LEMMA ReadRowBooks ==
  ASSUME BillingInv, NEW q \in Requests, Books(req[q]), ReadRow(q), clean'
  PROVE  Books(req[q])'
<1> DEFINE x == req[q]
           r == row[x.res]
<1>1. /\ Fits(x, Len(subs)) /\ x \in ActiveRequest /\ x.pc = "read" /\ Stage(x.op, "read")
  BY AtFits DEF ReadRow
<1>2. x.res \in Resources /\ x.op \in {"update", "delete"}
  BY <1>1 DEF Fits, Stage
<1>3. UNCHANGED <<row, account, subs>> /\ (~account'.open => account'.sub = 0)
  BY DEF ReadRow, Books, Carries
<1>4. CASE Fail(q)
  BY <1>3, <1>4, FailBooks
<1>5. ASSUME r # Gone, NEW pc \in {"save", "account", "erase"},
             req' = [req EXCEPT ![q].row = r, ![q].pc = pc],
             x.op = "update" => pc = (IF x.sku \in {Null, r.sku} THEN "save" ELSE "account"),
             x.op = "delete" => pc = (IF r.sku # Free /\ r.price # Null THEN "account" ELSE "erase")
      PROVE  Books(req[q])'
  <2>1. r \in Row /\ pc \in Pcs
    BY <1>2, <1>5 DEF BillingInv, TablesFit, Pcs
  <2>2. req'[q] = WithRow(x, r, pc)
    BY <1>5 DEF WithRow, BillingInv, RequestsFit
  <2>3. /\ req'[q].op = x.op /\ req'[q].res = x.res /\ req'[q].sku = x.sku
        /\ req'[q].pc = pc /\ req'[q].row = r /\ req'[q].sub = x.sub
    <3> HIDE DEF x, r
    <3> QED BY <1>1, <2>1, <2>2, WithRowFits DEF Same
  <2>4. Level(req[q]) /\ ~Making(req[q])
    BY <1>1, LevelPc DEF Making
  <2>5. pc = "erase" => r.sku \notin Paid
    <3>1. r.price = Null => r.sku \notin Paid
      BY <1>2, <1>5, SkusAssumption DEF Books, PricesSet, Here, Paid
    <3> QED BY <1>2, <1>5, <3>1 DEF Paid
  <2>6. Level(req[q])' /\ Made(req[q])'
    BY <1>2, <1>5, <2>3, <2>5 DEF Level, Put, Taken, Retiers, Made, Making
  <2>7. Carries(req[q])'
    BY <1>2, <1>3, <1>5, <2>3 DEF Carries, Here, Retiers
  <2> QED BY <1>3, <2>4, <2>6, <2>7, SubsKept, StandBooks
<1>6. CASE /\ r # Gone /\ x.op = "update"
           /\ req' = [req EXCEPT ![q].row = r,
                                 ![q].pc = IF x.sku \in {Null, r.sku} THEN "save" ELSE "account"]
  BY <1>5, <1>6
<1>7. CASE /\ r # Gone /\ x.op = "delete"
           /\ req' = [req EXCEPT ![q].row = r,
                                 ![q].pc = IF r.sku # Free /\ r.price # Null
                                           THEN "account" ELSE "erase"]
  BY <1>5, <1>7
<1> QED BY <1>4, <1>6, <1>7 DEF ReadRow

\* With the account in hand.
LEMMA TakeBooks ==
  ASSUME BillingInv, NEW q \in Requests, Books(req[q]), NEW a \in Account,
         TakeAccount(q, a), At(q, "account") \/ At(q, "open"), account' = a, a.sub = account.sub,
         a.open, UNCHANGED <<row, subs>>, clean'
  PROVE  Books(req[q])'
<1> DEFINE x == req[q]
<1>1. /\ Fits(x, Len(subs)) /\ x \in ActiveRequest /\ x.pc \in {"account", "open"}
      /\ Stage(x.op, x.pc)
  BY AtFits DEF At
<1>2. CASE AfterAccount(q, a) = "fail"
  BY <1>2, FailBooks DEF TakeAccount
<1>3. CASE AfterAccount(q, a) # "fail"
  <2> DEFINE pc == AfterAccount(q, a)
  <2>1. /\ pc \in Pcs /\ x.op # "customer"
        /\ pc \in {"subscribe", "fetch", "erase", "close", "cancel", "count", "schedule"}
        /\ pc \in {"erase", "close"} => a.sub = 0
        /\ x.op = "update" => pc = "fetch"
    BY <1>1, <1>3 DEF AfterAccount, Stage, Pcs
  <2>2. /\ req'[q].op = x.op /\ req'[q].res = x.res /\ req'[q].sku = x.sku
        /\ req'[q].pc = pc /\ req'[q].row = x.row /\ req'[q].sub = a.sub
    BY <1>1, <2>1, TakeKeeps DEF Same
  <2> HIDE DEF pc
  <2>3. Level(req[q]) /\ ~Making(req[q])
    BY <1>1, LevelPc DEF Making
  <2>4. (Level(req[q])' \/ account.sub = 0) /\ Made(req[q])'
    BY <2>1, <2>2 DEF Level, Put, Taken, Made, Making
  <2>5. Carries(req[q])'
    <3>1. x.op \in {"update", "delete"} => Here(x.res) /\ row[x.res] = x.row
      BY <1>1 DEF Books, Carries
    <3>2. (x.op = "update" => Retiers(x)) /\ (x.op = "create" => x.sku # Free)
      BY <1>1 DEF Books, Carries
    <3> QED BY <2>1, <2>2, <3>1, <3>2 DEF Carries, Here, Retiers
  <2> QED BY <2>3, <2>4, <2>5, SubsKept, StandBooks
<1> QED BY <1>2, <1>3

LEMMA AccountsBooks ==
  ASSUME BillingInv, NEW q \in Requests, Books(req[q]), GetAccount(q) \/ OpenAccount(q), clean'
  PROVE  Books(req[q])'
<1> DEFINE x == req[q]
<1>1. PICK pc \in {"account", "open"} : At(q, pc)
  BY DEF GetAccount, OpenAccount
<1>2. Fits(x, Len(subs)) /\ Stage(x.op, pc) /\ x.pc = pc /\ x \in ActiveRequest
  BY <1>1, AtFits
<1>3. UNCHANGED <<row, subs>> /\ account \in Account /\ (~account.open => account.sub = 0)
  BY DEF GetAccount, OpenAccount, BillingInv, TablesFit, Books, Carries
<1>4. CASE GetAccount(q) /\ account.open
  BY <1>3, <1>4, TakeBooks DEF GetAccount
<1>5. CASE GetAccount(q) /\ ~account.open
  <2>1. Goto(q, "open") /\ UNCHANGED account /\ x.pc = "account"
    BY <1>5, <1>1 DEF GetAccount, At
  <2>2. /\ req'[q].op = x.op /\ req'[q].res = x.res /\ req'[q].sku = x.sku
        /\ req'[q].pc = "open" /\ req'[q].row = x.row /\ req'[q].sub = x.sub
    BY <1>2, <2>1, GoKeeps DEF Same, Pcs
  <2>3. Level(req[q]) /\ ~Making(req[q]) /\ Level(req[q])' /\ Made(req[q])'
    BY <2>1, <2>2 DEF Level, Put, Taken, Made, Making
  <2>4. Carries(req[q])'
    BY <1>3, <1>5, <2>1, <2>2 DEF Books, Carries, Here, Retiers
  <2> QED BY <1>3, <2>1, <2>3, <2>4, SubsKept, StandBooks
<1>6. CASE OpenAccount(q)
  <2>1. ~account.open
    BY <1>6 DEF OpenAccount, At, Books, Carries
  <2>2. account' = [NoAccount EXCEPT !.open = TRUE] /\ TakeAccount(q, account')
    BY <1>6, <2>1 DEF OpenAccount
  <2>3. account' \in Account /\ account'.sub = 0 /\ account'.open = TRUE
    BY <2>2 DEF NoAccount, Account
  <2> QED BY <1>1, <1>3, <2>1, <2>2, <2>3, TakeBooks
<1> QED BY <1>4, <1>5, <1>6

\* Read from Stripe, or counted.
LEMMA CountBooks ==
  ASSUME BillingInv, NEW q \in Requests, TiedAt(q), Books(req[q]), CountResources(q), clean'
  PROVE  Books(req[q])'
<1> DEFINE x == req[q]
<1>1. /\ x.pc = "count" /\ Stage(x.op, "count") /\ Tied(x)
  BY AtTied DEF CountResources
<1>2. UNCHANGED <<row, subs, account>> /\ (~account'.open => account'.sub = 0)
  BY DEF CountResources, Books, Carries
<1>3. ASSUME NEW pc \in {"link", "bulk", "payment"}, x.op \in {"customer", "subscription"},
             pc = "link" => x.op = "customer",
             req' = [req EXCEPT ![q].items = Counts, ![q].pc = pc]
      PROVE  Books(req[q])'
  <2>1. pc \in Pcs
    BY <1>3 DEF Pcs
  <2>2. /\ Same(x, req'[q]) /\ req'[q].pc = pc /\ req'[q].sub = x.sub
        /\ req'[q].items = Counts
    BY <1>1, <1>3, <2>1, CountsFit, ItemsKeeps
  <2>3. Level(req[q]) /\ Level(req[q])' /\ ~Making(req[q])
    BY <1>1, <1>3, <2>2, LevelPc DEF Level, Put, Taken, Making
  <2>4. \A k \in Paid : Counts[k].qty = Rows(k) /\ Rows(k)' = Rows(k)
    BY <1>2, RowsSame DEF Counts, Paid
  <2>5. pc = "link" => x.sub = 0
    BY <1>1, <1>3 DEF Tied
  <2>6. Made(req[q])'
    BY <1>3, <2>2, <2>4, <2>5 DEF Made, Making, Same
  <2>7. Carries(req[q])'
    BY <1>2, <1>3, <2>2 DEF Carries, Same
  <2> QED BY <1>2, <2>3, <2>6, <2>7, SubsKept, StandBooks
<1>4. CASE Fail(q)
  BY <1>2, <1>4, FailBooks
<1> QED BY <1>3, <1>4 DEF CountResources

LEMMA FetchBooks ==
  ASSUME BillingInv, NEW q \in Requests, TiedAt(q), Books(req[q]), FetchSubscription(q)
  PROVE  Books(req[q])'
<1> DEFINE x     == req[q]
           items == subs[x.sub].items
           pc    == CASE x.op = "create" -> IF Usable(x.sub) THEN "charge" ELSE "subscribe"
                      [] x.op = "update" -> "discharge"
                      [] x.op = "delete" ->
                           IF Cardinality(Tiers(items)) = 1 THEN "cancel" ELSE "discharge"
<1>1. /\ Fits(x, Len(subs)) /\ x \in ActiveRequest /\ x.pc = "fetch" /\ Stage(x.op, "fetch")
      /\ Len(subs) \in Nat
  BY AtTied DEF FetchSubscription
<1>2. x.sub \in 1..Len(subs)
  BY <1>1 DEF Fits, ActiveRequest
<1>3. items \in [Skus -> Item]
  BY <1>2, OwnSubscription
<1>4. /\ pc \in Pcs /\ pc \in {"charge", "subscribe", "discharge", "cancel"}
      /\ pc = "charge" => x.op = "create"
  BY <1>1 DEF Pcs, Stage
<1>5. req' = [req EXCEPT ![q].items = items, ![q].pc = pc] /\ UNCHANGED <<row, account, subs>>
  BY DEF FetchSubscription
<1>6. x.sub = account.sub
  BY <1>1 DEF Books, Carries
<1> HIDE DEF pc
<1>7. /\ Same(x, req'[q]) /\ req'[q].pc = pc /\ req'[q].row = x.row /\ req'[q].sub = x.sub
      /\ req'[q].items = items
  <2> HIDE DEF items
  <2> QED BY <1>1, <1>3, <1>4, <1>5, ItemsKeeps
<1>8. Level(req[q]) /\ ~Making(req[q])
  BY <1>1, LevelPc DEF Making
<1>9. Level(req[q])' /\ Made(req[q])'
  BY <1>4, <1>7 DEF Level, Put, Taken, Made, Making, Same
<1>10. Carries(req[q])'
  <2>1. x.op \in {"update", "delete"} => Here(x.res) /\ row[x.res] = x.row
    BY <1>1 DEF Books, Carries
  <2>2. /\ x.op = "update" => Retiers(x)
        /\ x.op = "create" => x.sku # Free
        /\ ~account.open => account.sub = 0
    BY <1>1 DEF Books, Carries
  <2>3. x.op = "update" => Retiers(req[q])'
    BY <1>7, <2>2 DEF Retiers, Same
  <2> QED BY <1>4, <1>5, <1>6, <1>7, <2>1, <2>2, <2>3 DEF Carries, Here, Same
<1> QED BY <1>5, <1>8, <1>9, <1>10, SubsKept, StandBooks

LEMMA TouchBooks ==
  ASSUME BillingInv, NEW q \in Requests, Books(req[q]), TouchAccount(q), clean'
  PROVE  Books(req[q])'
<1>1. req[q].pc = "touch" /\ UNCHANGED <<row, subs, account>>
  BY DEF TouchAccount, At
<1>2. Level(req[q]) /\ ~Making(req[q]) /\ (~account'.open => account'.sub = 0)
  BY <1>1, LevelPc DEF Making, Books, Carries
<1>3. CASE Leave(q)
  BY <1>1, <1>2, <1>3, LeaveBooks
<1>4. CASE Fail(q)
  BY <1>1, <1>2, <1>4, FailBooks
<1> QED BY <1>3, <1>4 DEF TouchAccount

LEMMA NewCustomerBooks ==
  ASSUME BillingInv, NEW q \in Requests, Books(req[q]), NewCustomer(q)
  PROVE  Books(req[q])'
<1> DEFINE x == req[q]
           c == customers + 1
<1>1. /\ x \in ActiveRequest /\ x.pc = "customer" /\ Stage(x.op, "customer")
  BY AtFits DEF NewCustomer
<1>2. c \in Nat /\ "count" \in Pcs /\ x.op = "customer"
  BY <1>1 DEF BillingInv, TablesFit, Pcs, Stage
<1>3. req'[q] = WithCustomer(x, c, "count") /\ UNCHANGED <<row, account, subs>>
  BY DEF NewCustomer, WithCustomer, BillingInv, RequestsFit
<1>4. Same(x, req'[q]) /\ req'[q].pc = "count"
  <2> HIDE DEF c, x
  <2>1. Same(x, WithCustomer(x, c, "count")) /\ WithCustomer(x, c, "count").pc = "count"
    BY <1>1, <1>2, WithCustomerFits
  <2>2. req'[q] = WithCustomer(x, c, "count")
    BY <1>3
  <2> QED BY <2>1, <2>2
<1>5. Level(req[q]) /\ ~Making(req[q]) /\ Level(req[q])' /\ Made(req[q])'
  BY <1>1, <1>4 DEF Level, Put, Taken, Made, Making
<1>6. Carries(req[q])'
  BY <1>2, <1>3, <1>4 DEF Books, Carries, Same
<1> QED BY <1>3, <1>5, <1>6, SubsKept, StandBooks

\* A subscription is made for what the operation asks for.
LEMMA MadeBooks ==
  ASSUME BillingInv, NEW q \in Requests, Books(req[q]), req[q].pc # "idle",
         NEW items \in [Skus -> Item], MakeSubscription(q, items), UNCHANGED <<row, account>>,
         req[q].pc \in {"subscribe", "bulk", "payment"},
         req[q].op \in {"create", "customer", "subscription"},
         \A k \in Paid : /\ req[q].op = "customer" => items[k].qty = 0
                         /\ req[q].op = "create" => items[k].qty = IF k = req[q].sku THEN 1 ELSE 0
                         /\ req[q].op = "subscription" => items[k].qty = Rows(k)
  PROVE  Books(req[q])'
<1> DEFINE x  == req[q]
           pc == IF x.op = "customer" THEN "link" ELSE "record"
<1>1. /\ Same(x, req'[q])
      /\ req'[q].pc = pc /\ req'[q].sub = Len(subs) + 1
      /\ Len(subs)' = Len(subs) + 1 /\ Len(subs) \in Nat
      /\ \A m \in 1..Len(subs) : subs'[m] = subs[m]
      /\ subs'[Len(subs) + 1].items = items
  BY MadeKeeps
<1>2. req'[q].wrote = TRUE
  <2>1. x \in ActiveRequest
    BY AtFits DEF At
  <2>2. req'[q] = WithSub(x, Len(subs) + 1, pc)
    BY DEF MakeSubscription, WithSub, BillingInv, RequestsFit
  <2> HIDE DEF pc
  <2> QED BY <2>1, <2>2 DEF WithSub, ActiveRequest
<1>3. Level(req[q]) /\ ~Making(req[q])
  BY LevelPc DEF Making
<1>4. Level(req[q])' /\ Making(req[q])'
  BY <1>1 DEF Level, Put, Taken, Making
<1>5. Len(subs)' \in Nat /\ Keeping
  <2>1. Len(subs) + 1 \in Nat
    BY <1>1
  <2> QED BY <1>1, <2>1 DEF Keeping, Usable
<1>6. \A m \in 1..Len(subs)' : m > Len(subs) => Making(req[q])' /\ m = req'[q].sub
  BY <1>1, <1>4
<1>7. Made(req[q])'
  <2>1. \A k \in Paid : Rows(k)' = Rows(k)
    BY RowsSame
  <2>2. \A k \in Paid : subs'[req'[q].sub].items[k] = items[k]
    BY <1>1
  <2> QED BY <1>1, <1>2, <2>1, <2>2 DEF Made, Same
<1>8. Carries(req[q])'
  <2>1. (x.op = "create" => x.sku # Free) /\ (~account'.open => account'.sub = 0)
    BY DEF Books, Carries
  <2> QED BY <1>1, <2>1 DEF Carries, Same
<1> QED BY <1>3, <1>4, <1>5, <1>6, <1>7, <1>8, StandBooks

LEMMA SubscribeBooks ==
  ASSUME BillingInv, NEW q \in Requests, Books(req[q]), Subscribe(q)
  PROVE  Books(req[q])'
<1> DEFINE x == req[q]
<1>1. /\ Fits(x, Len(subs)) /\ x.pc = "subscribe" /\ Stage(x.op, "subscribe")
  BY AtFits DEF Subscribe
<1>2. x.op = "create" /\ x.sku \in Skus
  BY <1>1 DEF Fits, Stage
<1>3. \A k \in Paid : Only(x.sku)[k].qty = IF k = x.sku THEN 1 ELSE 0
  BY <1>2 DEF Only, NoItems, Paid
<1>4. Only(x.sku) \in [Skus -> Item]
  BY <1>2, OnlyFits
<1> QED BY <1>1, <1>2, <1>3, <1>4, MadeBooks DEF Subscribe

LEMMA ManyBooks ==
  ASSUME BillingInv, NEW q \in Requests, Books(req[q]), clean',
         BulkSubscribe(q) \/ PricesUnreadable(q) \/ SubscribeCounted(q)
  PROVE  Books(req[q])'
<1> DEFINE x == req[q]
<1>1. PICK pc \in {"bulk", "payment"} : At(q, pc)
  BY DEF BulkSubscribe, PricesUnreadable, SubscribeCounted
<1>2. /\ x \in ActiveRequest /\ x.pc = pc /\ Stage(x.op, pc)
  BY <1>1, AtFits
<1>3. /\ pc = "bulk" => x.op = "customer"
      /\ pc = "payment" => x.op = "subscription" /\ \A k \in Paid : x.items[k].qty = Rows(k)
      /\ x.items \in [Skus -> Item] /\ (~account'.open => account'.sub = 0)
  BY <1>2 DEF Stage, ActiveRequest, Books, Made, Carries,
     BulkSubscribe, PricesUnreadable, SubscribeCounted
<1>4. UNCHANGED <<row, account>>
  BY DEF BulkSubscribe, PricesUnreadable, SubscribeCounted
<1>5. CASE MakeSubscription(q, NoItems) /\ x.pc = "bulk"
  <2>1. \A k \in Paid : NoItems[k].qty = 0
    BY DEF NoItems, Paid
  <2> QED BY <1>2, <1>3, <1>4, <1>5, <2>1, NoItemsFit, MadeBooks
<1>6. CASE MakeSubscription(q, x.items) /\ x.pc = "payment"
  BY <1>2, <1>3, <1>4, <1>6, MadeBooks
<1>7. CASE Fail(q) /\ UNCHANGED subs
  BY <1>3, <1>4, <1>7, FailBooks
<1> QED BY <1>5, <1>6, <1>7 DEF BulkSubscribe, PricesUnreadable, SubscribeCounted, At

\* A call fails, or every request is stopped.
LEMMA CallFailsBooks ==
  ASSUME BillingInv, NEW q \in Requests, TiedAt(q), Books(req[q]), CallFails(q), clean'
  PROVE  Books(req[q])'
<1> DEFINE x == req[q]
<1>1. /\ Stage(x.op, x.pc) /\ x.pc # "idle" /\ Tied(x)
  BY AtTied DEF CallFails, At
<1>2. UNCHANGED <<row, account, subs>> /\ (~account'.open => account'.sub = 0)
  BY DEF CallFails, Books, Carries
<1>3. CASE (At(q, "count") \/ At(q, "bulk")) /\ x.op = "customer" /\ Goto(q, "link")
  <2>1. Same(x, req'[q]) /\ req'[q].pc = "link" /\ req'[q].sub = x.sub
    BY <1>1, <1>3, GoKeeps DEF Pcs
  <2>2. x.sub = 0 /\ Level(req[q]) /\ ~Making(req[q]) /\ Level(req[q])'
    BY <1>1, <1>3, <2>1, LevelPc DEF At, Tied, Level, Put, Taken, Making
  <2>3. Made(req[q])' /\ Carries(req[q])'
    BY <1>2, <1>3, <2>1, <2>2 DEF Made, Carries, Same
  <2> QED BY <1>2, <2>2, <2>3, SubsKept, StandBooks
<1>4. CASE Fail(q)
  BY <1>2, <1>4, FailBooks
<1> QED BY <1>3, <1>4 DEF CallFails

LEMMA CrashBooks ==
  ASSUME BillingInv, NEW q \in Requests, Books(req[q]), Crash, clean'
  PROVE  Books(req[q])'
<1>1. /\ UNCHANGED <<row, account, subs>> /\ req'[q] = IdleRequest
      /\ (~account'.open => account'.sub = 0)
      /\ req[q].pc # "idle" => req[q].wrote # TRUE
  BY DEF Crash, Books, Carries
<1> QED BY <1>1, UnwrittenBooks

\* Or somebody else's step reads.
LEMMA WaitingBooks ==
  ASSUME BillingInv, NEW q \in Requests, Books(req[q]), req'[q] = req[q],
         UNCHANGED <<row, account, subs>>
  PROVE  Books(req[q])'
<1>1. Made(req[q])' /\ Carries(req[q])'
  <2>1. \A k \in Paid : Rows(k)' = Rows(k)
    BY RowsSame
  <2> QED BY <2>1 DEF Books, Made, Making, Carries, Here, Retiers, Usable
<1> QED BY <1>1, SubsKept, StandBooks

\* A subscription changes its status.
LEMMA StatusKeeps ==
  ASSUME BillingInv, NEW n \in 1..Len(subs), NEW st \in {"ending", "canceled"}, Usable(n) \/ st = "canceled",
         subs' = [subs EXCEPT ![n].status = st]
  PROVE  /\ Keeping /\ Len(subs)' = Len(subs)
         /\ \A m \in 1..Len(subs)' : ~(m > Len(subs))
         /\ st = "canceled" => subs'[n].status = "canceled"
<1>1. subs \in Seq(Subscription)
  BY DEF BillingInv, TablesFit
<1>2. /\ Len(subs)' = Len(subs) /\ Len(subs) \in Nat
      /\ \A m \in 1..Len(subs) : subs'[m].items = subs[m].items
  BY <1>1, StatusFits
<1>3. subs[n] \in Subscription
  BY <1>1, ElementOfSeq
<1>4. subs' = [subs EXCEPT ![n] = WithStatus(subs[n], st)]
  BY DEF WithStatus
<1>5. /\ WithStatus(subs[n], st) \in Subscription /\ WithStatus(subs[n], st).status = st
  BY <1>3 DEF WithStatus, Subscription
<1>6. \A m \in 1..Len(subs) : subs'[m] = IF m = n THEN WithStatus(subs[n], st) ELSE subs[m]
  BY <1>1, <1>4, <1>5, ChangedFits
<1>7. \A m \in 1..Len(subs) : subs'[m].status # "canceled" => Usable(m)
  BY <1>5, <1>6 DEF Usable
<1> QED BY <1>2, <1>5, <1>6, <1>7 DEF Keeping

LEMMA CancelNowBooks ==
  ASSUME BillingInv, NEW q \in Requests, Books(req[q]), CancelNow(q)
  PROVE  Books(req[q])'
<1> DEFINE x  == req[q]
           to == IF x.op = "delete" THEN "clear" ELSE "close"
<1>1. /\ Fits(x, Len(subs)) /\ x \in ActiveRequest /\ x.pc = "cancel" /\ Stage(x.op, "cancel")
      /\ Len(subs) \in Nat
  BY AtFits DEF CancelNow
<1>2. x.sub \in 1..Len(subs) /\ x.sub = account.sub
  BY <1>1 DEF Fits, ActiveRequest, Books, Carries
<1>3. UNCHANGED <<row, account>> /\ Wrote(q, to) /\ subs' = [subs EXCEPT ![x.sub].status = "canceled"]
  BY DEF CancelNow
<1>4. /\ Keeping /\ Len(subs)' = Len(subs)
      /\ \A m \in 1..Len(subs)' : ~(m > Len(subs))
      /\ subs'[x.sub].status = "canceled"
  BY <1>2, <1>3, StatusKeeps
<1>5. to \in Pcs /\ to \in {"clear", "close"}
  BY DEF Pcs
<1> HIDE DEF to
<1>6. /\ Same(x, req'[q]) /\ req'[q].pc = to /\ req'[q].row = x.row
  BY <1>1, <1>3, <1>5, GoKeeps
<1>7. Level(req[q]) /\ ~Making(req[q]) /\ Level(req[q])' /\ Made(req[q])'
  BY <1>1, <1>5, <1>6 DEF Level, Put, Taken, Made, Making
<1>8. Carries(req[q])'
  <2>1. x.op \in {"update", "delete"} => Here(x.res) /\ row[x.res] = x.row
    BY <1>1 DEF Books, Carries
  <2>2. x.op \notin {"update", "create"} /\ (~account.open => account.sub = 0)
    BY <1>1 DEF Stage, Books, Carries
  <2>3. ~Usable(account.sub)'
    BY <1>2, <1>3, <1>4 DEF Usable
  <2> QED BY <1>3, <1>5, <1>6, <2>1, <2>2, <2>3 DEF Carries, Here, Same
<1> QED BY <1>3, <1>4, <1>7, <1>8, StandBooks

LEMMA ScheduleBooks ==
  ASSUME BillingInv, NEW q \in Requests, Books(req[q]), CancelAtPeriodEnd(q), clean'
  PROVE  Books(req[q])'
<1> DEFINE x == req[q]
<1>1. /\ Fits(x, Len(subs)) /\ x \in ActiveRequest /\ x.pc = "schedule" /\ Stage(x.op, "schedule")
      /\ Len(subs) \in Nat
  BY AtFits DEF CancelAtPeriodEnd
<1>2. x.sub \in 1..Len(subs) /\ x.op = "cancel"
  BY <1>1 DEF Fits, ActiveRequest, Stage
<1>3. UNCHANGED <<row, account>> /\ (~account'.open => account'.sub = 0)
  BY DEF CancelAtPeriodEnd, Books, Carries
<1>4. CASE Usable(x.sub) /\ Wrote(q, "touch") /\ subs' = [subs EXCEPT ![x.sub].status = "ending"]
  <2>1. Keeping /\ \A m \in 1..Len(subs)' : ~(m > Len(subs))
    BY <1>2, <1>4, StatusKeeps
  <2>2. Same(x, req'[q]) /\ req'[q].pc = "touch"
    BY <1>1, <1>4, GoKeeps DEF Pcs
  <2>3. /\ Level(req[q]) /\ ~Making(req[q]) /\ Level(req[q])'
        /\ Made(req[q])' /\ Carries(req[q])'
    BY <1>1, <1>2, <1>3, <2>2 DEF Level, Put, Taken, Made, Making, Carries, Same
  <2> QED BY <1>3, <2>1, <2>3, StandBooks
<1>5. CASE Fail(q) /\ UNCHANGED subs
  BY <1>3, <1>5, FailBooks
<1> QED BY <1>4, <1>5 DEF CancelAtPeriodEnd

LEMMA EndsBooks ==
  ASSUME BillingInv, NEW q \in Requests, Books(req[q]),
         NEW n \in 1..Len(subs), SubscriptionEnds(n)
  PROVE  Books(req[q])'
<1> DEFINE x == req[q]
<1>1. UNCHANGED <<row, account, req>> /\ subs' = [subs EXCEPT ![n].status = "canceled"]
  BY DEF SubscriptionEnds
<1>2. Keeping /\ \A m \in 1..Len(subs)' : ~(m > Len(subs))
  BY <1>1, StatusKeeps
<1>3. x.pc # "idle" => x.sub \in Nat /\ x.sub <= Len(subs) /\ Fits(x, Len(subs))
  BY DEF BillingInv, RequestsFit, Fits, ActiveRequest
<1>4. x.pc \in {"fetch", "discharge", "charge", "record"} => x.sub # 0
  BY <1>3 DEF Fits
<1>5. account.sub # 0 => account.sub \in 1..Len(subs) /\ (Usable(account.sub)' => Usable(account.sub))
  BY <1>1, <1>2, OwnSubscription DEF Keeping, Usable
<1>6. Len(subs) \in Nat /\ \A m \in 1..Len(subs) : subs'[m].items = subs[m].items
  BY <1>2, OwnSubscription DEF Keeping
<1>7. x.pc # "idle" /\ x.sub # 0 => subs'[x.sub].items = subs[x.sub].items
  BY <1>3, <1>6
<1>8. Made(req[q])'
  <2>1. \A k \in Paid : Rows(k)' = Rows(k)
    BY <1>1, RowsSame
  <2>2. Made(x)
    BY DEF Books
  <2> QED BY <1>1, <1>4, <1>7, <2>1, <2>2 DEF Made, Making
<1>9. Carries(req[q])'
  BY <1>1, <1>4, <1>5, <1>7 DEF Books, Carries, Here, Retiers
<1> QED BY <1>1, <1>2, <1>8, <1>9, StandBooks
-----------------------------------------------------------------------------
(* The account takes another subscription, or none.                          *)
\* Without one in use, a project whose subscriptions have not ended has no rows
\* to pay for.
LEMMA NothingCurrent ==
  ASSUME BillingInv, NEW q \in Requests, OwnExact(req[q]), ~Current, ~Ended
  PROVE  account.sub = 0 /\ \A k \in Paid : Rows(k) = 0
<1>1. account.sub = 0
  BY OwnSubscription DEF Current, Ended
<1> QED BY <1>1 DEF OwnExact

LEMMA OthersPass ==
  ASSUME BillingInv, NEW q \in Requests, OthersFree(req[q]), ~Current, UNCHANGED subs,
         Making(req[q]) => account'.sub = req[q].sub
  PROVE  OthersFree(req[q])'
<1> SUFFICES ASSUME NEW n \in 1..Len(subs), Usable(n), n # account'.sub
             PROVE  \A k \in Paid : subs[n].items[k].qty = 0
  BY DEF OthersFree, Usable
<1>1. n # account.sub
  BY OwnSubscription DEF Current
<1> QED BY <1>1 DEF OthersFree

LEMMA RecordBooks ==
  ASSUME BillingInv, NEW q \in Requests, Books(req[q]), RecordSubscription(q), clean'
  PROVE  Books(req[q])'
<1> DEFINE x == req[q]
<1>1. /\ Fits(x, Len(subs)) /\ x.pc = "record" /\ Stage(x.op, "record")
      /\ Len(subs) \in Nat /\ x \in ActiveRequest
  BY AtFits DEF RecordSubscription
<1>2. x.sub \in 1..Len(subs) /\ x.op \in {"create", "subscription"} /\ x.wrote = TRUE /\ Making(x)
  BY <1>1 DEF Fits, ActiveRequest, Stage, Books, Made, Making
<1>3. UNCHANGED <<row, subs>> /\ (~account.open => account.sub = 0)
  BY DEF RecordSubscription, Books, Carries
<1>4. CASE Fail(q)
  BY <1>2, <1>4 DEF Fail
<1>5. CASE /\ account.open /\ account' = [account EXCEPT !.sub = x.sub]
           /\ IF x.op = "create" THEN Goto(q, "insert") ELSE Leave(q)
           /\ clean' = (clean /\ ~Current)
  <2>1. ~Current
    BY <1>5
  <2>2. account'.sub = x.sub /\ account'.open = TRUE
    BY <1>5 DEF BillingInv, TablesFit, Account
  <2>3. OthersFree(req[q])' /\ PricesSet'
    BY <1>3, <2>1, <2>2, OthersPass, PricesStay DEF Books
  <2>4. \A k \in Paid : /\ Rows(k)' = Rows(k) /\ Rows(k) \in Nat
                        /\ subs'[account'.sub].items[k] = subs[x.sub].items[k]
    BY <1>3, <2>2, RowsSame, RowsCount
  <2>5. ~Ended => \A k \in Paid : Rows(k) = 0
    BY <2>1, NothingCurrent DEF Books
  <2>6. Ended' <=> Ended
    BY <1>3 DEF Ended, Usable
  <2>7. CASE x.op = "create"
    <3>1. Same(x, req'[q]) /\ req'[q].pc = "insert" /\ req'[q].sub = x.sub
      BY <1>1, <1>5, <2>7, GoKeeps DEF Pcs
    <3>2. req'[q].wrote = x.wrote
      BY <1>1, <1>5, <2>7 DEF Goto, ActiveRequest, BillingInv, RequestsFit
    <3>3. \A k \in Paid : subs[x.sub].items[k].qty = IF k = x.sku THEN 1 ELSE 0
      BY <1>1, <2>7 DEF Books, Made
    <3>4. \A k \in Paid : /\ Ahead(req[q], k)' = IF k = x.sku THEN 1 ELSE 0
                          /\ ~Taken(req[q], k)'
      BY <2>7, <3>1 DEF Ahead, Put, Taken, Same
    <3>5. OwnExact(req[q])'
      <4>1. ASSUME NEW k \in Paid
            PROVE  /\ subs'[account'.sub].items[k].qty <= Rows(k)' + Ahead(req[q], k)'
                   /\ ~Ended' => subs'[account'.sub].items[k].qty = Rows(k)' + Ahead(req[q], k)'
        BY <2>4, <2>5, <2>6, <3>3, <3>4
      <4> QED BY <1>2, <2>2, <3>4, <4>1 DEF OwnExact
    <3>6. Made(req[q])' /\ Carries(req[q])'
      BY <1>2, <2>2, <2>7, <3>1, <3>2 DEF Made, Making, Carries, Same
    <3> QED BY <2>3, <3>5, <3>6 DEF Books
  <2>8. CASE x.op # "create"
    <3>1. req'[q] = IdleRequest
      BY <1>5, <2>8, LeaveIdle
    <3>2. Made(req[q])' /\ Carries(req[q])' /\ Level(req[q])'
      BY <2>2, <3>1, IdleBooks
    <3>3. \A k \in Paid : subs[x.sub].items[k].qty = Rows(k)
      BY <1>1, <1>2, <2>8 DEF Books, Made
    <3>4. \A k \in Paid : Ahead(req[q], k)' = 0 /\ ~Taken(req[q], k)'
      BY <3>2 DEF Level, Ahead
    <3>5. OwnExact(req[q])'
      BY <1>2, <2>2, <2>4, <3>3, <3>4 DEF OwnExact
    <3> QED BY <2>3, <3>2, <3>5 DEF Books
  <2> QED BY <2>7, <2>8
<1> QED BY <1>4, <1>5 DEF RecordSubscription

LEMMA LinkBooks ==
  ASSUME BillingInv, NEW q \in Requests, Books(req[q]), LinkCustomer(q), clean'
  PROVE  Books(req[q])'
<1> DEFINE x == req[q]
<1>1. /\ Fits(x, Len(subs)) /\ x.pc = "link" /\ Len(subs) \in Nat /\ x \in ActiveRequest
  BY AtFits DEF LinkCustomer
<1>2. /\ x.sub \in Nat /\ x.sub <= Len(subs) /\ Making(x)
      /\ x.sub # 0 => \A k \in Paid : subs[x.sub].items[k].qty = 0
  BY <1>1 DEF Fits, ActiveRequest, Books, Made, Making
<1>3. UNCHANGED <<row, subs>> /\ (~account.open => account.sub = 0)
  BY DEF LinkCustomer, Books, Carries
<1>4. CASE Fail(q) /\ UNCHANGED account
  BY <1>3, <1>4, FailBooks
<1>5. CASE /\ account.open
           /\ account' = [account EXCEPT !.customer = x.customer, !.sub = x.sub]
           /\ Leave(q) /\ clean' = (clean /\ ~Current)
  <2>1. ~Current /\ req'[q] = IdleRequest
    BY <1>5, LeaveIdle
  <2>2. account'.sub = x.sub /\ account'.open = TRUE
    BY <1>5 DEF BillingInv, TablesFit, Account
  <2>3. OthersFree(req[q])' /\ PricesSet'
    BY <1>3, <2>1, <2>2, OthersPass, PricesStay DEF Books
  <2>4. Made(req[q])' /\ Carries(req[q])' /\ Level(req[q])'
    BY <2>1, <2>2, IdleBooks
  <2>5. \A k \in Paid : /\ Rows(k)' = Rows(k) /\ Rows(k) \in Nat
                        /\ subs'[account'.sub].items[k] = subs[x.sub].items[k]
                        /\ Ahead(req[q], k)' = 0 /\ ~Taken(req[q], k)'
    BY <1>3, <2>2, <2>4, RowsSame, RowsCount DEF Level, Ahead
  <2>6. (Ended' <=> Ended) /\ (~Ended => \A k \in Paid : Rows(k) = 0)
    BY <1>3, <2>1, NothingCurrent DEF Books, Ended, Usable
  <2>7. OwnExact(req[q])'
    <3>1. ASSUME NEW k \in Paid, account'.sub # 0
          PROVE  /\ subs'[account'.sub].items[k].qty <= Rows(k)' + Ahead(req[q], k)'
                 /\ ~Ended' => subs'[account'.sub].items[k].qty = Rows(k)' + Ahead(req[q], k)'
      BY <1>2, <2>2, <2>5, <2>6, <3>1
    <3> QED BY <2>5, <2>6, <3>1 DEF OwnExact
  <2> QED BY <2>3, <2>4, <2>7 DEF Books
<1> QED BY <1>4, <1>5 DEF LinkCustomer

LEMMA ClearBooks ==
  ASSUME BillingInv, NEW q \in Requests, Books(req[q]), ClearSubscription(q) \/ CloseAccount(q)
  PROVE  Books(req[q])'
<1> DEFINE x == req[q]
<1>1. PICK pc \in {"clear", "close"}, to \in {"erase", "drop"} :
        /\ At(q, pc) /\ Goto(q, to) /\ UNCHANGED <<row, subs>>
        /\ account'.sub = 0
        /\ pc = "clear" <=> to = "erase"
  BY DEF ClearSubscription, CloseAccount, NoAccount, Account, BillingInv, TablesFit
<1>2. x.pc = pc /\ x \in ActiveRequest /\ Stage(x.op, pc)
  BY <1>1, AtFits
<1>3. ~Current /\ ~Making(x)
  BY <1>1, <1>2 DEF Books, Carries, Current, Making
<1>4. /\ Same(x, req'[q]) /\ req'[q].pc = to /\ req'[q].row = x.row
  BY <1>1, <1>2, GoKeeps DEF Pcs
<1>5. OthersFree(req[q])' /\ PricesSet'
  BY <1>1, <1>3, OthersPass, PricesStay DEF Books
<1>6. OwnExact(req[q])'
  <2>1. \A k \in Paid : Rows(k)' = Rows(k)
    BY <1>1, RowsSame
  <2>2. (Ended' <=> Ended) /\ (~Ended => \A k \in Paid : Rows(k) = 0)
    BY <1>1, <1>3, NothingCurrent DEF Books, Ended, Usable
  <2> QED BY <1>1, <2>1, <2>2 DEF OwnExact
<1>7. Made(req[q])'
  BY <1>1, <1>4 DEF Made, Making
<1>8. Carries(req[q])'
  <2>1. x.op \in {"delete", "deleteProject"} /\ (x.op = "delete" => Here(x.res) /\ row[x.res] = x.row)
    BY <1>1, <1>2 DEF Stage, Books, Carries
  <2> QED BY <1>1, <1>2, <1>4, <2>1 DEF Carries, Here, Same
<1> QED BY <1>5, <1>6, <1>7, <1>8 DEF Books
-----------------------------------------------------------------------------
(* A row is written: the books close as the request that was ahead is over.  *)
LEMMA OthersLeft ==
  ASSUME NEW q \in Requests, OthersFree(req[q]), UNCHANGED <<account, subs>>, ~Making(req[q])
  PROVE  OthersFree(req[q])'
BY DEF OthersFree, Usable

LEMMA RowBooks ==
  ASSUME BillingInv, NEW q \in Requests, Books(req[q]), req'[q] = IdleRequest,
         UNCHANGED <<account, subs>>, ~Making(req[q]), PricesSet',
         \A k \in Paid : Rows(k)' = Rows(k) + Ahead(req[q], k),
         \A k \in Paid : account.sub = 0 /\ ~Ended => Ahead(req[q], k) <= 0
  PROVE  Books(req[q])'
<1> DEFINE x == req[q]
<1>1. Made(req[q])' /\ Carries(req[q])' /\ Level(req[q])'
  BY IdleBooks DEF Books, Carries
<1>2. \A k \in Paid : Ahead(req[q], k)' = 0 /\ ~Taken(req[q], k)'
  BY <1>1 DEF Level, Ahead
<1>3. OthersFree(req[q])'
  BY OthersLeft DEF Books
<1>4. \A k : Rows(k) \in Nat /\ Rows(k)' \in Nat
  <2>1. \A k : Rows(k)' \in Nat
    BY ResourcesAssumption, FS_Subset, FS_CardinalityType DEF Rows
  <2> QED BY <2>1, RowsCount
<1>5. (Ended' <=> Ended) /\ (Usable(account.sub)' <=> Usable(account.sub))
  BY DEF Ended, Usable
<1>6. \A k \in Paid : Ahead(x, k) \in Int
  BY DEF Ahead
<1>7. OwnExact(req[q])'
  <2> SUFFICES ASSUME NEW k \in Paid
               PROVE  /\ account.sub # 0 /\ Usable(account.sub) =>
                           /\ subs[account.sub].items[k].qty <= Rows(k)'
                           /\ ~Ended => subs[account.sub].items[k].qty = Rows(k)'
                      /\ account.sub = 0 /\ ~Ended => Rows(k)' = 0
    BY <1>2, <1>4, <1>5 DEF OwnExact
  <2>1. /\ account.sub # 0 /\ Usable(account.sub) =>
             /\ subs[account.sub].items[k].qty <= Rows(k)'
             /\ ~Ended => subs[account.sub].items[k].qty = Rows(k)'
    BY DEF Books, OwnExact
  <2>2. account.sub = 0 /\ ~Ended => Rows(k) = 0
    BY DEF Books, OwnExact
  <2>3. account.sub = 0 /\ ~Ended => Rows(k)' = 0
    BY <1>4, <1>6, <2>2
  <2> QED BY <2>1, <2>3
<1> QED BY <1>1, <1>3, <1>7 DEF Books

LEMMA InsertBooks ==
  ASSUME BillingInv, NEW q \in Requests, Books(req[q]), InsertResource(q), clean'
  PROVE  Books(req[q])'
<1> DEFINE x == req[q]
           v == [sku |-> x.sku, price |-> IF x.sku = Free THEN Null ELSE x.sku]
<1>1. /\ Fits(x, Len(subs)) /\ x.pc = "insert" /\ Stage(x.op, "insert")
  BY AtFits DEF InsertResource
<1>2. x.res \in Resources /\ x.sku \in Skus /\ row \in [Resources -> Row \cup {Gone}]
  BY <1>1 DEF Fits, Stage, BillingInv, TablesFit
<1>3. UNCHANGED <<account, subs>> /\ (~account'.open => account'.sub = 0)
  BY DEF InsertResource, Books, Carries
<1>4. CASE Fail(q) /\ UNCHANGED row
  BY <1>3, <1>4, FailBooks
<1>5. CASE /\ row[x.res] = Gone /\ row' = [row EXCEPT ![x.res] = v] /\ Leave(q)
  <2>1. req'[q] = IdleRequest /\ ~Making(x)
    BY <1>1, <1>5, LeaveIdle DEF Making
  <2>2. v # Gone
    <3>1. v \in Row
      BY <1>2 DEF Row
    <3> QED BY <3>1, GoneAssumption
  <2>3. PricesSet'
    <3>1. v.sku = x.sku /\ (x.sku \in Paid => v.price = x.sku)
      BY DEF Paid
    <3> HIDE DEF v
    <3> QED BY <1>2, <1>5, <3>1 DEF Books, PricesSet, Here
  <2>4. ASSUME NEW k \in Paid
        PROVE  /\ Rows(k)' = Rows(k) + Ahead(x, k)
               /\ account.sub = 0 => Ahead(x, k) <= 0
    <3>1. v.sku = x.sku
      OBVIOUS
    <3> HIDE DEF v
    <3>2. Rows(k)' = Rows(k) + (IF IsOf(v, k) THEN 1 ELSE 0) - (IF IsOf(row[x.res], k) THEN 1 ELSE 0)
      BY <1>2, <1>5, RowsMoved
    <3>3. ~IsOf(row[x.res], k) /\ (IsOf(v, k) <=> x.sku = k)
      BY <1>5, <2>2, <3>1 DEF IsOf
    <3>4. Ahead(x, k) = IF x.sku = k THEN 1 ELSE 0
      BY <1>1 DEF Ahead, Put, Taken
    <3>5. x.sku = k => account.sub # 0
      BY <1>1 DEF Books, Carries, Paid
    <3>6. Rows(k) \in Nat
      BY RowsCount
    <3> QED BY <3>2, <3>3, <3>4, <3>5, <3>6
  <2> QED BY <1>3, <2>1, <2>3, <2>4, RowBooks
<1> QED BY <1>4, <1>5 DEF InsertResource, Here

LEMMA SaveBooks ==
  ASSUME BillingInv, NEW q \in Requests, Books(req[q]), SaveResource(q), clean'
  PROVE  Books(req[q])'
<1> DEFINE x == req[q]
           v == [sku |-> IF x.sku = Null THEN x.row.sku ELSE x.sku, price |-> NewPrice(q)]
<1>1. /\ Fits(x, Len(subs)) /\ x.pc = "save" /\ Stage(x.op, "save") /\ x \in ActiveRequest
  BY AtFits DEF SaveResource
<1>2. /\ x.op = "update" /\ x.res \in Resources /\ x.sku \in Skus \cup {Null} /\ x.row \in Row
      /\ row \in [Resources -> Row \cup {Gone}]
  BY <1>1 DEF Fits, Stage, ActiveRequest, BillingInv, TablesFit
<1>3. row[x.res] = x.row /\ row[x.res] # Gone
  BY <1>1, <1>2 DEF Books, Carries, Here
<1>4. /\ row' = [row EXCEPT ![x.res] = v] /\ Leave(q) /\ UNCHANGED <<account, subs>>
      /\ NewPrice(q) = Null => x.row.price = Null
  BY <1>3 DEF SaveResource, Here
<1>5. req'[q] = IdleRequest /\ ~Making(x)
  BY <1>1, <1>4, LeaveIdle DEF Making
<1>6. v.sku = (IF x.sku = Null THEN x.row.sku ELSE x.sku) /\ v.price = NewPrice(q)
  OBVIOUS
<1>7. v # Gone
  <2>1. v \in Row
    BY <1>2 DEF Row, NewPrice
  <2> QED BY <2>1, GoneAssumption
<1> HIDE DEF v
<1>8. PricesSet'
  <2>1. x.row.sku \in Paid => x.row.price = x.row.sku
    BY <1>2, <1>3 DEF Books, PricesSet, Here
  <2>2. v.sku \in Paid => v.price = v.sku
    BY <1>2, <1>4, <1>6, <2>1, SkusAssumption DEF NewPrice, Paid
  <2> QED BY <1>2, <1>4, <2>2 DEF Books, PricesSet, Here
<1>9. ASSUME NEW k \in Paid
      PROVE  /\ Rows(k)' = Rows(k) + Ahead(x, k)
             /\ account.sub = 0 => Ahead(x, k) <= 0
  <2>1. Rows(k)' = Rows(k) + (IF IsOf(v, k) THEN 1 ELSE 0) - (IF IsOf(row[x.res], k) THEN 1 ELSE 0)
    BY <1>2, <1>4, RowsMoved
  <2>2. (IsOf(v, k) <=> v.sku = k) /\ (IsOf(row[x.res], k) <=> x.row.sku = k)
    BY <1>3, <1>7 DEF IsOf
  <2>3. Rows(k) \in Nat
    BY RowsCount
  <2>4. CASE Retiers(x)
    <3>1. v.sku = x.sku /\ x.sku # x.row.sku
      BY <1>6, <2>4 DEF Retiers
    <3>2. Ahead(x, k) = IF x.sku = k THEN 1 ELSE IF x.row.sku = k THEN -1 ELSE 0
      BY <1>1, <1>2, <2>4 DEF Ahead, Put, Taken
    <3>3. account.sub # 0
      BY <1>1, <2>4 DEF Books, Carries
    <3> QED BY <2>1, <2>2, <2>3, <3>1, <3>2, <3>3
  <2>5. CASE ~Retiers(x)
    <3>1. v.sku = x.row.sku
      BY <1>2, <1>6, <2>5 DEF Retiers
    <3>2. Ahead(x, k) = 0
      BY <1>1, <2>5 DEF Ahead, Put, Taken
    <3> QED BY <2>1, <2>2, <2>3, <3>1, <3>2
  <2> QED BY <2>4, <2>5
<1> QED BY <1>4, <1>5, <1>8, <1>9, RowBooks

LEMMA EraseBooks ==
  ASSUME BillingInv, NEW q \in Requests, Books(req[q]), EraseResource(q)
  PROVE  Books(req[q])'
<1> DEFINE x == req[q]
<1>1. /\ Fits(x, Len(subs)) /\ x.pc = "erase" /\ Stage(x.op, "erase")
  BY AtFits DEF EraseResource
<1>2. x.op = "delete" /\ x.res \in Resources /\ row \in [Resources -> Row \cup {Gone}]
  BY <1>1 DEF Fits, Stage, BillingInv, TablesFit
<1>3. row[x.res] = x.row /\ row[x.res] # Gone
  BY <1>1, <1>2 DEF Books, Carries, Here
<1>4. row' = [row EXCEPT ![x.res] = Gone] /\ UNCHANGED <<account, subs>>
  BY DEF EraseResource
<1>5. req'[q] = IdleRequest /\ ~Making(x)
  BY <1>1, LeaveIdle DEF EraseResource, Making
<1>6. PricesSet'
  BY <1>2, <1>4 DEF Books, PricesSet, Here
<1>7. ASSUME NEW k \in Paid
      PROVE  Rows(k)' = Rows(k) + Ahead(x, k) /\ Ahead(x, k) <= 0
  <2>1. Rows(k)' = Rows(k) + (IF IsOf(Gone, k) THEN 1 ELSE 0) - (IF IsOf(row[x.res], k) THEN 1 ELSE 0)
    BY <1>2, <1>4, RowsMoved
  <2>2. ~IsOf(Gone, k) /\ (IsOf(row[x.res], k) <=> x.row.sku = k)
    BY <1>3 DEF IsOf
  <2>3. Ahead(x, k) = IF x.row.sku = k THEN -1 ELSE 0
    BY <1>1 DEF Ahead, Put, Taken
  <2>4. Rows(k) \in Nat
    BY RowsCount
  <2> QED BY <2>1, <2>2, <2>3, <2>4
<1> QED BY <1>4, <1>5, <1>6, <1>7, RowBooks

LEMMA DropBooks ==
  ASSUME BillingInv, NEW q \in Requests, Books(req[q]), DropProject(q)
  PROVE  Books(req[q])'
<1> DEFINE x == req[q]
<1>1. x.pc = "drop" /\ account.sub = 0 /\ UNCHANGED <<account, subs>>
  BY DEF DropProject, At, Books, Carries
<1>2. row' = [r \in Resources |-> Gone]
  BY DEF DropProject
<1>3. req'[q] = IdleRequest /\ ~Making(x)
  BY <1>1, LeaveIdle DEF DropProject, Making
<1>4. \A k : Rows(k)' = 0
  <2>1. \A k : {r \in Resources : Here(r)' /\ row'[r].sku = k} = {}
    BY <1>2 DEF Here
  <2> QED BY <2>1, FS_EmptySet DEF Rows
<1>5. Made(req[q])' /\ Carries(req[q])' /\ Level(req[q])'
  BY <1>1, <1>3, IdleBooks
<1>6. PricesSet'
  BY <1>2 DEF PricesSet, Here
<1>7. OwnExact(req[q])'
  BY <1>1, <1>4, <1>5 DEF OwnExact, Level
<1>8. OthersFree(req[q])'
  BY <1>1, <1>3, OthersLeft DEF Books
<1> QED BY <1>5, <1>6, <1>7, <1>8 DEF Books
-----------------------------------------------------------------------------
(* The subscription's items are written ahead of the row.                    *)
LEMMA WriteKeeps ==
  ASSUME BillingInv, NEW q \in Requests, req[q] \in ActiveRequest, req[q].sub \in 1..Len(subs),
         NEW k \in Skus, NEW qty \in Nat, WriteItem(q, k, qty)
  PROVE  /\ Len(subs)' = Len(subs) /\ Len(subs) \in Nat
         /\ \A m \in 1..Len(subs) : /\ Usable(m)' <=> Usable(m)
                                    /\ m # req[q].sub => subs'[m].items = subs[m].items
         /\ \A j \in Skus \ {k} : subs'[req[q].sub].items[j] = subs[req[q].sub].items[j]
         /\ subs'[req[q].sub].items[k].qty = qty
<1> DEFINE n == req[q].sub
           i == [gen |-> IF Read(q, k).qty = 0 THEN subs[n].items[k].gen + 1
                                               ELSE subs[n].items[k].gen,
                 qty |-> qty]
<1>1. subs \in Seq(Subscription) /\ subs[n] \in Subscription
  BY ElementOfSeq DEF BillingInv, TablesFit
<1>2. subs[n].items \in [Skus -> Item]
  BY <1>1 DEF Subscription
<1>3. subs[n].items[k].gen \in Nat
  BY <1>2 DEF Item
<1>4. i \in Item /\ i.qty = qty
  BY <1>3 DEF Item
<1>5. subs' = [subs EXCEPT ![n] = WithItem(subs[n], k, i)]
  BY DEF WriteItem, WithItem
<1> HIDE DEF i
<1>6. /\ WithItem(subs[n], k, i) \in Subscription
      /\ WithItem(subs[n], k, i).items = [subs[n].items EXCEPT ![k] = i]
  BY <1>1, <1>4, WithItemFits
<1>7. WithItem(subs[n], k, i).status = subs[n].status
  BY <1>1 DEF WithItem, Subscription
<1>8. /\ Len(subs)' = Len(subs) /\ Len(subs) \in Nat
      /\ \A m \in 1..Len(subs) : subs'[m] = IF m = n THEN WithItem(subs[n], k, i) ELSE subs[m]
  BY <1>1, <1>5, <1>6, ChangedFits
<1>9. /\ subs'[n].items[k] = i
      /\ \A j \in Skus \ {k} : subs'[n].items[j] = subs[n].items[j]
  BY <1>2, <1>6, <1>8
<1> QED BY <1>4, <1>7, <1>8, <1>9 DEF Usable

LEMMA RowsPositive ==
  ASSUME NEW r \in Resources, Here(r)
  PROVE  Rows(row[r].sku) >= 1
<1> DEFINE A == {s \in Resources : Here(s) /\ row[s].sku = row[r].sku}
<1>1. IsFiniteSet(A) /\ r \in A /\ Cardinality(A) \in Nat
  BY ResourcesAssumption, FS_Subset, FS_CardinalityType
<1>2. Cardinality(A) # 0
  <2> HIDE DEF A
  <2> QED BY <1>1, FS_EmptySet
<1> QED BY <1>1, <1>2 DEF Rows

\* Where the quantities follow what the request is ahead of the rows, the rest
\* is as it was.
LEMMA WriteBooks ==
  ASSUME BillingInv, NEW q \in Requests, Books(req[q]), UNCHANGED <<row, account>>,
         Len(subs)' = Len(subs), account.sub \in 1..Len(subs), req[q].pc \in {"discharge", "charge"},
         req'[q].pc \notin {"payment", "record", "link"},
         \A m \in 1..Len(subs) : /\ Usable(m)' <=> Usable(m)
                                 /\ m # account.sub => subs'[m].items = subs[m].items,
         \A k \in Paid : Usable(account.sub) =>
             /\ subs'[account.sub].items[k].qty <= Rows(k) + Ahead(req[q], k)'
             /\ ~Ended => subs'[account.sub].items[k].qty = Rows(k) + Ahead(req[q], k)',
         \A k \in Paid : ~Ended /\ Taken(req[q], k)' => req'[q].wrote = TRUE,
         Carries(req[q])'
  PROVE  Books(req[q])'
<1>1. PricesSet' /\ \A k : Rows(k)' = Rows(k)
  BY PricesStay, RowsSame DEF Books
<1>2. Ended' <=> Ended
  BY DEF Ended
<1>3. OwnExact(req[q])'
  BY <1>1, <1>2 DEF OwnExact
<1>4. OthersFree(req[q])'
  BY DEF Books, OthersFree, Making
<1>5. Made(req[q])'
  BY DEF Made, Making
<1> QED BY <1>1, <1>3, <1>4, <1>5 DEF Books

LEMMA DischargeBooks ==
  ASSUME BillingInv, NEW q \in Requests, Books(req[q]), Discharge(q), clean'
  PROVE  Books(req[q])'
<1> DEFINE x    == req[q]
           k    == x.row.price
           on   == x.row.sku # Free /\ k # Null
           next == IF x.op = "delete" THEN "erase" ELSE IF x.sku = Free THEN "save" ELSE "charge"
<1>1. /\ Fits(x, Len(subs)) /\ x \in ActiveRequest /\ x.pc = "discharge" /\ Stage(x.op, "discharge")
      /\ Len(subs) \in Nat
  BY AtFits DEF Discharge
<1>2. /\ x.sub \in 1..Len(subs) /\ x.sub = account.sub /\ x.row \in Row
      /\ x.items = subs[x.sub].items /\ x.res \in Resources /\ x.op \in {"update", "delete"}
  BY <1>1 DEF Fits, ActiveRequest, Stage, Books, Carries
<1>3. Here(x.res) /\ row[x.res] = x.row /\ (x.op = "update" => Retiers(x) /\ x.sku \in Skus)
  BY <1>1, <1>2 DEF Books, Carries, Fits
<1>4. UNCHANGED <<row, account>> /\ (~account'.open => account'.sub = 0)
  BY DEF Discharge, Books, Carries
<1>5. /\ x.row.sku \in Paid => on /\ k = x.row.sku
      /\ on => k \in Paid /\ k = x.row.sku
  BY <1>2, <1>3, SkusAssumption DEF Books, PricesSet, Paid, Row
<1>6. \A j \in Paid : /\ subs[x.sub].items[j].qty \in Nat /\ Rows(j) \in Nat
                      /\ Usable(x.sub) => /\ subs[x.sub].items[j].qty <= Rows(j)
                                          /\ ~Ended => subs[x.sub].items[j].qty = Rows(j)
  <2>1. \A j \in Paid : Ahead(x, j) = 0
    BY <1>1 DEF Ahead, Put, Taken
  <2>2. \A j \in Paid : subs[x.sub].items[j].qty \in Nat /\ Rows(j) \in Nat
    BY <1>2, OwnSubscription, RowsCount
  <2> QED BY <1>2, <2>1, <2>2 DEF Books, OwnExact
<1>7. on => Rows(k) >= 1
  BY <1>2, <1>3, <1>5, RowsPositive
<1>8. ASSUME Goto(q, next) \/ Wrote(q, next),
             Len(subs)' = Len(subs),
             \A m \in 1..Len(subs) : /\ Usable(m)' <=> Usable(m)
                                     /\ m # account.sub => subs'[m].items = subs[m].items,
             \A j \in Skus \ {k} : subs'[x.sub].items[j] = subs[x.sub].items[j],
             on /\ Usable(x.sub) => /\ subs'[x.sub].items[k].qty <= Rows(k) - 1
                                    /\ ~Ended => subs'[x.sub].items[k].qty = Rows(k) - 1,
             on /\ ~Ended => Wrote(q, next),
             ~on => UNCHANGED subs
      PROVE  Books(req[q])'
  <2>1. next \in Pcs /\ next \in {"erase", "save", "charge"}
    BY DEF Pcs
  <2>2. /\ Same(x, req'[q]) /\ req'[q].pc = next /\ req'[q].row = x.row
        /\ req'[q].sub = x.sub /\ req'[q].items = x.items
    <3> HIDE DEF next
    <3> QED BY <1>1, <1>8, <2>1, GoKeeps
  <2>3. Wrote(q, next) => req'[q].wrote = TRUE
    <3> HIDE DEF next
    <3> QED BY <1>1 DEF Wrote, ActiveRequest, BillingInv, RequestsFit
  <2>4. \A j \in Paid : /\ Ahead(req[q], j)' = IF x.row.sku = j THEN -1 ELSE 0
                        /\ Taken(req[q], j)' => x.row.sku = j
    <3>1. x.op = "update" => x.sku # x.row.sku /\ Retiers(req[q])'
      BY <1>3, <2>2 DEF Retiers, Same
    <3>2. \A j \in Paid : (Taken(req[q], j)' <=> x.row.sku = j) /\ ~Put(req[q], j)'
      BY <1>2, <2>2, <3>1 DEF Taken, Put, Same, Paid
    <3> QED BY <3>2 DEF Ahead
  <2>5. ASSUME NEW j \in Paid, Usable(account.sub)
        PROVE  /\ subs'[account.sub].items[j].qty <= Rows(j) + Ahead(req[q], j)'
               /\ ~Ended => subs'[account.sub].items[j].qty = Rows(j) + Ahead(req[q], j)'
    <3>1. CASE x.row.sku = j
      <4>1. on /\ k = j
        BY <1>5, <3>1
      <4>2. Ahead(req[q], j)' = -1 /\ Rows(j) \in Nat
        BY <1>6, <2>4, <3>1
      <4> QED BY <1>2, <1>8, <2>5, <4>1, <4>2
    <3>2. CASE x.row.sku # j
      <4>1. subs'[x.sub].items[j] = subs[x.sub].items[j]
        BY <1>5, <1>8, <3>2 DEF Paid
      <4> QED BY <1>2, <1>6, <2>4, <2>5, <3>2, <4>1
    <3> QED BY <3>1, <3>2
  <2>6. \A j \in Paid : ~Ended /\ Taken(req[q], j)' => req'[q].wrote = TRUE
    BY <1>5, <1>8, <2>3, <2>4
  <2>7. Carries(req[q])'
    <3>1. x.op = "update" => /\ Retiers(req[q])'
                             /\ subs'[x.sub].items[x.sku] = subs[x.sub].items[x.sku]
      BY <1>3, <1>5, <1>8, <2>2 DEF Retiers, Same
    <3> QED BY <1>2, <1>3, <1>4, <2>1, <2>2, <3>1 DEF Carries, Here, Same
  <2>8. req'[q].pc \notin {"payment", "record", "link"} /\ account.sub \in 1..Len(subs)
    BY <1>2, <2>1, <2>2
  <2> HIDE DEF on, next, k
  <2> QED BY <1>1, <1>4, <1>8, <2>5, <2>6, <2>7, <2>8, WriteBooks
<1>9. CASE /\ on => Read(q, k).qty = 0
           /\ Goto(q, next) /\ UNCHANGED subs
  <2>1. on => subs[x.sub].items[k].qty = 0
    BY <1>2, <1>9 DEF Read
  <2>2. on /\ Usable(x.sub) => subs[x.sub].items[k].qty <= Rows(k) - 1 /\ Ended
    <3>1. on => Rows(k) \in Nat /\ k \in Paid
      BY <1>5, <1>6
    <3> QED BY <1>5, <1>6, <1>7, <2>1, <3>1
  <2>3. on => Ended
    BY <1>2, <2>2 DEF Ended
  <2> QED BY <1>8, <1>9, <2>2, <2>3 DEF Usable
<1>10. CASE /\ on /\ Read(q, k).qty > 0 /\ Accepted(q, k)
            /\ WriteItem(q, k, Read(q, k).qty - 1) /\ Wrote(q, next)
  <2>1. k \in Skus /\ Read(q, k).qty = subs[x.sub].items[k].qty /\ Read(q, k).qty \in Nat
    BY <1>2, <1>5, <1>6, <1>10 DEF Read, Paid
  <2>2. Read(q, k).qty - 1 \in Nat
    <3>1. Read(q, k).qty > 0
      BY <1>10
    <3> QED BY <2>1, <3>1
  <2>3. /\ Len(subs)' = Len(subs)
        /\ \A m \in 1..Len(subs) : /\ Usable(m)' <=> Usable(m)
                                   /\ m # x.sub => subs'[m].items = subs[m].items
        /\ \A j \in Skus \ {k} : subs'[x.sub].items[j] = subs[x.sub].items[j]
        /\ subs'[x.sub].items[k].qty = Read(q, k).qty - 1
    BY <1>1, <1>2, <1>10, <2>1, <2>2, WriteKeeps
  <2>4. Usable(x.sub) => /\ subs'[x.sub].items[k].qty <= Rows(k) - 1
                         /\ ~Ended => subs'[x.sub].items[k].qty = Rows(k) - 1
    <3>1. k \in Paid
      BY <1>5, <1>10
    <3>2. /\ Rows(k) \in Nat
          /\ Usable(x.sub) => /\ Read(q, k).qty <= Rows(k)
                              /\ ~Ended => Read(q, k).qty = Rows(k)
      BY <1>6, <2>1, <3>1
    <3>3. subs'[x.sub].items[k].qty = Read(q, k).qty - 1
      BY <2>3
    <3> HIDE DEF k, x
    <3> QED BY <2>1, <3>2, <3>3
  <2> QED BY <1>2, <1>8, <1>10, <2>3, <2>4
<1>11. CASE /\ on /\ Read(q, k).qty > 0 /\ ~Accepted(q, k)
            /\ Goto(q, next) \/ Fail(q)
            /\ UNCHANGED subs
  <2>1. CASE Fail(q)
    BY <1>4, <1>11, <2>1, FailBooks
  <2>2. ~Usable(x.sub)
    <3>1. k \in Skus /\ subs[x.sub].items[k] = Read(q, k)
      BY <1>2, <1>5, <1>11 DEF Read, Paid
    <3> QED BY <1>11, <3>1 DEF Accepted, Now
  <2>3. Ended
    BY <1>2, <2>2 DEF Ended
  <2>4. CASE Goto(q, next)
    BY <1>8, <1>11, <2>2, <2>3, <2>4 DEF Usable
  <2> QED BY <1>11, <2>1, <2>4
<1> QED BY <1>9, <1>10, <1>11 DEF Discharge

LEMMA ChargeBooks ==
  ASSUME BillingInv, NEW q \in Requests, Books(req[q]), Charge(q), clean'
  PROVE  Books(req[q])'
<1> DEFINE x    == req[q]
           next == IF x.op = "create" THEN "insert" ELSE "save"
<1>1. /\ Fits(x, Len(subs)) /\ x \in ActiveRequest /\ x.pc = "charge" /\ Stage(x.op, "charge")
      /\ Len(subs) \in Nat
  BY AtFits DEF Charge
<1>2. /\ x.sub \in 1..Len(subs) /\ x.sub = account.sub /\ x.sku \in Skus
      /\ x.items \in [Skus -> Item] /\ x.items[x.sku] = subs[x.sub].items[x.sku]
      /\ x.op \in {"create", "update"}
  BY <1>1 DEF Fits, ActiveRequest, Stage, Books, Carries
<1>3. x.op = "update" => Here(x.res) /\ row[x.res] = x.row /\ Retiers(x)
  BY <1>1, <1>2 DEF Books, Carries
<1>4. UNCHANGED <<row, account>> /\ (~account'.open => account'.sub = 0)
  BY DEF Charge, Books, Carries
<1>5. CASE Fail(q) /\ UNCHANGED subs
  BY <1>4, <1>5, FailBooks
<1>6. CASE Accepted(q, x.sku) /\ WriteItem(q, x.sku, Read(q, x.sku).qty + 1) /\ Wrote(q, next)
  <2>1. Read(q, x.sku).qty \in Nat /\ Read(q, x.sku).qty = subs[x.sub].items[x.sku].qty
    BY <1>2 DEF Read, Item
  <2>2. Read(q, x.sku).qty + 1 \in Nat
    BY <2>1
  <2>3. /\ Len(subs)' = Len(subs)
        /\ \A m \in 1..Len(subs) : /\ Usable(m)' <=> Usable(m)
                                   /\ m # x.sub => subs'[m].items = subs[m].items
        /\ \A j \in Skus \ {x.sku} : subs'[x.sub].items[j] = subs[x.sub].items[j]
        /\ subs'[x.sub].items[x.sku].qty = Read(q, x.sku).qty + 1
    BY <1>1, <1>2, <1>6, <2>2, WriteKeeps
  <2>4. next \in Pcs /\ next \in {"insert", "save"} /\ (next = "insert" <=> x.op = "create")
    BY DEF Pcs
  <2> HIDE DEF next
  <2>5. /\ Same(x, req'[q]) /\ req'[q].pc = next /\ req'[q].row = x.row
        /\ req'[q].sub = x.sub
    BY <1>1, <1>6, <2>4, GoKeeps
  <2>6. req'[q].wrote = TRUE
    BY <1>1, <1>6 DEF Wrote, ActiveRequest, BillingInv, RequestsFit
  <2>7. ASSUME NEW j \in Paid
        PROVE  Ahead(req[q], j)' = Ahead(x, j) + (IF x.sku = j THEN 1 ELSE 0)
    <3>1. CASE x.op = "create"
      <4>1. Ahead(x, j) = 0
        BY <1>1, <3>1 DEF Ahead, Put, Taken
      <4>2. Ahead(req[q], j)' = IF x.sku = j THEN 1 ELSE 0
        BY <2>4, <2>5, <3>1 DEF Ahead, Put, Taken, Same
      <4> QED BY <4>1, <4>2
    <3>2. CASE x.op = "update"
      <4>1. Retiers(req[q])' /\ x.sku # x.row.sku
        BY <1>3, <2>5, <3>2 DEF Retiers, Same
      <4>2. Ahead(x, j) = IF x.row.sku = j THEN -1 ELSE 0
        BY <1>1, <3>2 DEF Ahead, Put, Taken
      <4>3. Ahead(req[q], j)' = IF x.sku = j THEN 1 ELSE IF x.row.sku = j THEN -1 ELSE 0
        BY <2>4, <2>5, <3>2, <4>1 DEF Ahead, Put, Taken, Same
      <4> QED BY <4>1, <4>2, <4>3
    <3> QED BY <1>2, <3>1, <3>2
  <2>8. ASSUME NEW j \in Paid, Usable(account.sub)
        PROVE  /\ subs'[account.sub].items[j].qty <= Rows(j) + Ahead(req[q], j)'
               /\ ~Ended => subs'[account.sub].items[j].qty = Rows(j) + Ahead(req[q], j)'
    <3>1. /\ subs[account.sub].items[j].qty <= Rows(j) + Ahead(x, j)
          /\ ~Ended => subs[account.sub].items[j].qty = Rows(j) + Ahead(x, j)
      BY <1>2, <2>8 DEF Books, OwnExact
    <3>2. /\ subs[account.sub].items[j].qty \in Nat /\ Rows(j) \in Nat /\ Ahead(x, j) \in Int
      BY <1>2, OwnSubscription, RowsCount DEF Ahead
    <3>3. subs'[account.sub].items[j].qty = subs[account.sub].items[j].qty + (IF x.sku = j THEN 1 ELSE 0)
      <4>1. CASE x.sku = j
        BY <1>2, <2>1, <2>3, <4>1
      <4>2. CASE x.sku # j
        <5>1. j \in Skus \ {x.sku}
          BY <4>2 DEF Paid
        <5>2. subs'[x.sub].items[j] = subs[x.sub].items[j]
          BY <2>3, <5>1
        <5> QED BY <1>2, <3>2, <4>2, <5>2
      <4> QED BY <4>1, <4>2
    <3>4. Ahead(req[q], j)' = Ahead(x, j) + (IF x.sku = j THEN 1 ELSE 0)
      BY <2>7
    <3> HIDE DEF x
    <3> QED BY <3>1, <3>2, <3>3, <3>4
  <2>9. Carries(req[q])'
    <3>1. x.op = "update" => Retiers(req[q])'
      BY <1>3, <2>5 DEF Retiers, Same
    <3>2. x.op = "create" => x.sku # Free
      BY <1>1 DEF Books, Carries
    <3>3. account'.sub # 0
      BY <1>2, <1>4
    <3> QED BY <1>2, <1>3, <1>4, <2>4, <2>5, <2>6, <3>1, <3>2, <3>3 DEF Carries, Here, Same
  <2>10. req'[q].pc \notin {"payment", "record", "link"} /\ account.sub \in 1..Len(subs)
    BY <1>2, <2>4, <2>5
  <2> HIDE DEF x
  <2> QED BY <1>1, <1>2, <1>4, <2>3, <2>6, <2>8, <2>9, <2>10, WriteBooks DEF x
<1> QED BY <1>5, <1>6 DEF Charge
-----------------------------------------------------------------------------
(* Every step keeps the books.                                               *)
LEMMA CleanBefore == ASSUME BillingInv, [Next]_vars, clean' PROVE clean
<1> SUFFICES ASSUME clean' # clean PROVE clean
  OBVIOUS
<1>1. ASSUME NEW q \in Requests, Begin(q) PROVE clean
  BY <1>1 DEF Begin, StartCreate, StartUpdate, StartDelete, StartOther, Start
<1>2. ASSUME NEW q \in Requests, DbStep(q) PROVE clean
  BY <1>2 DEF DbStep, ReadRow, GetAccount, OpenAccount, RecordSubscription, InsertResource,
     SaveResource, ClearSubscription, EraseResource, CloseAccount, DropProject, CountResources,
     LinkCustomer, TouchAccount, TakeAccount, Fail
<1>3. ASSUME NEW q \in Requests, StripeStep(q) PROVE clean
  BY <1>3 DEF StripeStep, FetchSubscription, Subscribe, Discharge, Charge, CancelNow,
     NewCustomer, BulkSubscribe, PricesUnreadable, SubscribeCounted, CancelAtPeriodEnd, Fail
<1>4. ASSUME NEW q \in Requests, CallFails(q) PROVE clean
  BY <1>4 DEF CallFails, Fail
<1>5. ASSUME NEW n \in 1..Len(subs), SubscriptionEnds(n) PROVE clean
  BY <1>5 DEF SubscriptionEnds
<1>6. Crash => clean
  BY DEF Crash
<1>7. UNCHANGED vars => clean
  BY DEF vars
<1> QED BY <1>1, <1>2, <1>3, <1>4, <1>5, <1>6, <1>7 DEF Next

\* The step of a request keeps its own books.
LEMMA StepBooks ==
  ASSUME BillingInv, NEW q \in Requests, TiedAt(q), Books(req[q]), Step(q), clean'
  PROVE  Books(req[q])'
<1>1. CASE Begin(q)
  BY <1>1, BeginBooks
<1>2. CASE DbStep(q)
  BY <1>2, ReadRowBooks, AccountsBooks, RecordBooks, InsertBooks, SaveBooks, ClearBooks,
     EraseBooks, DropBooks, CountBooks, LinkBooks, TouchBooks DEF DbStep
<1>3. CASE StripeStep(q)
  BY <1>3, FetchBooks, SubscribeBooks, DischargeBooks, ChargeBooks, CancelNowBooks,
     NewCustomerBooks, ManyBooks, ScheduleBooks DEF StripeStep
<1>4. CASE CallFails(q)
  BY <1>4, CallFailsBooks
<1> QED BY <1>1, <1>2, <1>3, <1>4 DEF Step

\* While a request has read nothing, the books of one that is not half way are
\* its own.
LEMMA UnreadLevel ==
  ASSUME BillingInv, NEW p \in Requests, TiedAt(p), Unread(p)
  PROVE  /\ Level(req[p]) /\ ~Making(req[p]) /\ Made(req[p])
         /\ (~account.open => account.sub = 0) => Carries(req[p])
<1> DEFINE x == req[p]
<1>1. CASE x.pc = "idle"
  BY <1>1 DEF Level, Put, Taken, Making, Made, Carries
<1>2. CASE x.pc # "idle"
  <2>1. Tied(x) /\ Stage(x.op, x.pc)
    BY <1>2, AtTied DEF At
  <2>2. /\ x.pc \in {"read", "customer", "account", "count", "insert"}
        /\ x.pc = "account" => x.op \notin {"update", "delete"}
        /\ x.pc = "count" => x.op = "customer"
        /\ x.pc = "insert" => x.sku = Free
        /\ x.op = "create" /\ x.pc # "insert" => x.sku # Free
    BY <1>2, <2>1 DEF Unread, At, Tied
  <2>3. /\ x.pc = "insert" => x.op = "create"
        /\ x.pc = "customer" => x.op = "customer"
        /\ x.pc = "read" => x.op \in {"update", "delete"}
    BY <2>1 DEF Stage
  <2>4. Level(x) /\ ~Making(x) /\ Made(x)
    BY <2>2 DEF Level, Put, Taken, Paid, Making, Made
  <2>5. ASSUME ~account.open => account.sub = 0 PROVE Carries(x)
    BY <2>2, <2>3, <2>5 DEF Carries
  <2> QED BY <2>4, <2>5
<1> QED BY <1>1, <1>2

Shared ==
  \A q, p \in Requests :
    BillingInv /\ Books(req[q]) /\ ~Pending(req[q]) /\ TiedAt(p) /\ Unread(p) => Books(req[p])

LEMMA SharedBooks == Shared
<1> SUFFICES ASSUME BillingInv, NEW q \in Requests, NEW p \in Requests, Books(req[q]),
                    ~Pending(req[q]), TiedAt(p), Unread(p)
             PROVE  Books(req[p])
  BY DEF Shared
<1> DEFINE x == req[q]
           y == req[p]
<1>1. PricesSet /\ OwnExact(x) /\ OthersFree(x) /\ Made(x) /\ Carries(x)
  BY DEF Books
<1>2. /\ Level(y) /\ ~Making(y) /\ Made(y) /\ Carries(y)
  BY <1>1, UnreadLevel DEF Carries
<1>3. Making(x) => x.sub = 0
  BY <1>1 DEF Made, Making, Pending
<1>4. OthersFree(y)
  <2> SUFFICES ASSUME NEW n \in 1..Len(subs), Usable(n), n # account.sub
               PROVE  \A k \in Paid : subs[n].items[k].qty = 0
    BY DEF OthersFree
  <2>1. n # 0
    BY OwnSubscription
  <2> QED BY <1>1, <1>3, <2>1 DEF OthersFree
<1>5. \A k \in Paid : ~Put(x, k)
  BY <1>1 DEF Carries, Put, Paid, Pending
<1>6. \A k \in Paid : Taken(x, k) => x.wrote # TRUE
  BY DEF Taken, Pending
<1>7. \A k \in Paid : /\ Ahead(x, k) = IF Taken(x, k) THEN -1 ELSE 0
                      /\ account.sub # 0 /\ ~Ended => ~Taken(x, k)
                      /\ Ahead(y, k) = 0 /\ ~Taken(y, k)
  BY <1>1, <1>2, <1>5, <1>6 DEF Ahead, OwnExact, Level
<1>8. ASSUME NEW k \in Paid, account.sub # 0, Usable(account.sub)
      PROVE  /\ subs[account.sub].items[k].qty <= Rows(k)
             /\ ~Ended => subs[account.sub].items[k].qty = Rows(k)
  <2>1. subs[account.sub].items[k].qty \in Nat /\ Rows(k) \in Nat
    BY <1>8, OwnSubscription, RowsCount
  <2>2. /\ subs[account.sub].items[k].qty <= Rows(k) + Ahead(x, k)
        /\ ~Ended => subs[account.sub].items[k].qty = Rows(k) + Ahead(x, k)
    BY <1>1, <1>8 DEF OwnExact
  <2> HIDE DEF x
  <2> QED BY <1>7, <1>8, <2>1, <2>2
<1>9. OwnExact(y)
  <2>1. \A k \in Paid : Rows(k) \in Nat /\ (account.sub = 0 /\ ~Ended => Rows(k) = 0)
    BY <1>1, RowsCount DEF OwnExact
  <2> HIDE DEF y
  <2> QED BY <1>7, <1>8, <2>1 DEF OwnExact
<1> QED BY <1>1, <1>2, <1>4, <1>9 DEF Books

\* Every step keeps the books: one that only reads leaves them to the others, and
\* when one writes nobody else has read anything yet.
LEMMA NextLedger ==
  ASSUME BillingInv, SerialInv, Ledger, [Next]_vars, BillingInv', SerialInv', Shared'
  PROVE  Ledger'
<1> SUFFICES ASSUME apart', clean', NEW p \in Requests, Clear(p)' PROVE Books(req[p])'
  BY DEF Ledger
<1>1. apart /\ clean
  BY CleanBefore DEF Next, Separate, vars
<1>2. /\ \A o \in Requests : Clear(o) => Books(req[o])
      /\ \A o \in Requests : TiedAt(o) /\ TiedAt(o)'
  BY <1>1 DEF Ledger, SerialInv
<1>3. ASSUME NEW q \in Requests, Separate(q), Step(q) PROVE Books(req[p])'
  <2>1. \A o \in Requests \ {q} : req'[o] = req[o]
    BY <1>3, OthersWait
  <2>2. CASE ~Writes(q)
    <3>1. ~Pending(req[q])
      BY <2>2 DEF Pending, Writes
    <3>2. \A o \in Requests \ {p} : ~Pending(req'[o])
      BY DEF Clear, Pending
    <3>3. Clear(p)
      BY <2>1, <3>1, <3>2 DEF Clear
    <3>4. UNCHANGED <<row, account, subs>>
      BY <1>3, <2>2, ReadsOnly
    <3>5. CASE p = q
      BY <1>2, <1>3, <3>3, <3>5, StepBooks
    <3>6. CASE p # q
      BY <1>2, <2>1, <3>3, <3>4, <3>6, WaitingBooks
    <3> QED BY <3>5, <3>6
  <2>3. CASE Writes(q)
    <3>1. \A o \in Requests \ {q} : Unread(o)
      BY <1>3, <2>3 DEF Separate
    <3>2. \A o \in Requests \ {q} : ~Pending(req[o])
      BY <3>1 DEF Unread, At, Pending
    <3>3. Books(req[q])'
      BY <1>2, <1>3, <3>2, StepBooks DEF Clear
    <3>4. CASE p # q
      <4>1. Unread(p)'
        BY <2>1, <3>1, <3>4 DEF Unread, At
      <4>2. ~Pending(req[q])'
        BY <3>4 DEF Clear
      <4> QED BY <1>2, <3>3, <4>1, <4>2 DEF Shared
    <3> QED BY <3>3, <3>4
  <2> QED BY <2>2, <2>3
<1>4. ASSUME NEW n \in 1..Len(subs), SubscriptionEnds(n) PROVE Books(req[p])'
  <2>1. req' = req
    BY <1>4 DEF SubscriptionEnds
  <2>2. Clear(p)
    BY <2>1 DEF Clear, Pending
  <2> QED BY <1>2, <1>4, <2>2, EndsBooks
<1>5. CASE Crash
  <2>1. Clear(p)
    BY <1>5 DEF Crash, Clear, Pending
  <2> QED BY <1>2, <1>5, <2>1, CrashBooks
<1>6. CASE UNCHANGED vars
  <2>1. UNCHANGED <<row, account, subs, req>>
    BY <1>6 DEF vars
  <2>2. Clear(p)
    BY <2>1 DEF Clear, Pending
  <2> QED BY <1>2, <2>1, <2>2, WaitingBooks
<1> QED BY <1>3, <1>4, <1>5, <1>6 DEF Next, Step

LEMMA InitLedger == Init => Ledger
<1> SUFFICES ASSUME Init, NEW q \in Requests PROVE Books(req[q])
  BY DEF Ledger
<1>1. req[q].pc = "idle" /\ account.sub = 0 /\ subs = <<>> /\ row = [r \in Resources |-> Gone]
  BY DEF Init, IdleRequest, NoAccount
<1>2. \A k : Rows(k) = 0
  <2>1. \A k : {r \in Resources : Here(r) /\ row[r].sku = k} = {}
    BY <1>1 DEF Here
  <2> QED BY <2>1, FS_EmptySet DEF Rows
<1>3. \A k : Ahead(req[q], k) = 0 /\ ~Taken(req[q], k)
  BY <1>1 DEF Ahead, Put, Taken
<1>4. OwnExact(req[q]) /\ PricesSet
  BY <1>1, <1>2, <1>3 DEF OwnExact, PricesSet, Here
<1>5. OthersFree(req[q])
  BY <1>1 DEF OthersFree
<1>6. Made(req[q]) /\ Carries(req[q])
  BY <1>1 DEF Made, Making, Carries
<1> QED BY <1>4, <1>5, <1>6 DEF Books

LEMMA LedgerAlways == Spec => [](BillingInv /\ Ledger)
<1>1. Init => Ledger
  BY InitLedger
<1>2. /\ BillingInv /\ SerialInv /\ Ledger /\ [Next]_vars
      /\ (BillingInv /\ SerialInv /\ Shared)'
      => Ledger'
  BY NextLedger
<1>3. Shared
  BY SharedBooks
<1> QED BY <1>1, <1>2, <1>3, SerialAlways, PTL DEF Spec

\* Where no request is served, nothing happens.
Unserved ==
  Requests = {} => subs = <<>> /\ account = NoAccount /\ row = [r \in Resources |-> Gone]

LEMMA UnservedAlways == Spec => []Unserved
<1>1. Init => Unserved
  BY DEF Init, Unserved
<1>2. Unserved /\ [Next]_vars => Unserved'
  <2> SUFFICES ASSUME Unserved, [Next]_vars, Requests = {}
               PROVE  UNCHANGED <<row, account, subs>>
    BY DEF Unserved
  <2>1. subs = <<>> /\ 1..Len(subs) = {}
    BY DEF Unserved
  <2> QED BY <2>1 DEF Next, Crash, vars
<1> QED BY <1>1, <1>2, PTL DEF Spec

LEMMA UnservedRows == ASSUME Unserved, Requests = {} PROVE \A k : Rows(k) = 0
<1>1. \A k : {r \in Resources : Here(r) /\ row[r].sku = k} = {}
  BY DEF Unserved, Here
<1> QED BY <1>1, FS_EmptySet DEF Rows

\* When only the account's subscription charges, the bill is its quantity.
LEMMA BilledOwn ==
  ASSUME BillingInv, NEW k \in Paid,
         \A n \in 1..Len(subs) : Usable(n) /\ n # account.sub => subs[n].items[k].qty = 0
  PROVE  Billed(k) = IF account.sub # 0 /\ Usable(account.sub) THEN subs[account.sub].items[k].qty ELSE 0
<1> DEFINE a == account.sub
           Q(n) == subs[n].items[k].qty
<1>1. /\ a \in Nat /\ (a # 0 => a \in 1..Len(subs)) /\ Len(subs) \in Nat
      /\ \A n \in 1..Len(subs) : Q(n) \in Nat
  BY OwnSubscription
<1>2. 1..0 = {}
  OBVIOUS
<1>3. Charges(k) = UNION {{n} \X (1..Q(n)) : n \in {m \in 1..Len(subs) : Usable(m)}}
  BY DEF Charges
<1>4. \A n \in 1..Len(subs) : Usable(n) /\ n # a => {n} \X (1..Q(n)) = {}
  BY <1>2
<1> HIDE DEF Q
<1>5. CASE a # 0 /\ Usable(a)
  <2>1. Charges(k) = {a} \X (1..Q(a))
    BY <1>1, <1>3, <1>4, <1>5
  <2>2. IsFiniteSet({a}) /\ Cardinality({a}) = 1
    BY FS_Singleton
  <2>3. Q(a) \in Nat
    BY <1>1, <1>5
  <2>4. IsFiniteSet(1..Q(a)) /\ Cardinality(1..Q(a)) = Q(a)
    BY <2>3, FS_Interval
  <2>5. Cardinality({a} \X (1..Q(a))) = Cardinality({a}) * Cardinality(1..Q(a))
    BY <2>2, <2>4, FS_Product
  <2>6. Cardinality(Charges(k)) = Q(a)
    BY <2>1, <2>2, <2>3, <2>4, <2>5
  <2> QED BY <1>5, <2>6 DEF Billed, Q
<1>6. CASE ~(a # 0 /\ Usable(a))
  <2>1. \A n \in 1..Len(subs) : Usable(n) => n # a
    BY <1>6
  <2>2. Charges(k) = {}
    BY <1>3, <1>4, <2>1
  <2> QED BY <1>6, <2>2, FS_EmptySet DEF Billed
<1> QED BY <1>5, <1>6

\* Between requests the ledger is level.
LEMMA QuietLevel ==
  ASSUME BillingInv, Ledger, Quiet, clean, apart, NEW q \in Requests, NEW k \in Paid
  PROVE  /\ account.sub # 0 /\ Usable(account.sub) =>
              /\ subs[account.sub].items[k].qty <= Rows(k)
              /\ ~Ended => subs[account.sub].items[k].qty = Rows(k)
         /\ account.sub = 0 /\ ~Ended => Rows(k) = 0
         /\ \A n \in 1..Len(subs) : Usable(n) /\ n # account.sub => subs[n].items[k].qty = 0
<1>1. req[q].pc = "idle" /\ Books(req[q])
  <2>1. Clear(q)
    BY DEF Quiet, Clear, Pending
  <2> QED BY <2>1 DEF Quiet, Ledger
<1>2. Ahead(req[q], k) = 0
  BY <1>1 DEF Ahead, Put, Taken
<1>3. Rows(k) \in Nat
  BY RowsCount
<1>4. /\ account.sub # 0 /\ Usable(account.sub) =>
           /\ subs[account.sub].items[k].qty <= Rows(k)
           /\ ~Ended => subs[account.sub].items[k].qty = Rows(k)
      /\ account.sub = 0 /\ ~Ended => Rows(k) = 0
  BY <1>1, <1>2, <1>3 DEF Books, OwnExact
<1>5. \A n \in 1..Len(subs) : Usable(n) /\ n # account.sub => subs[n].items[k].qty = 0
  BY <1>1 DEF Books, OthersFree, Making
<1> QED BY <1>4, <1>5

\* Until a first subscription ends, a project pays for exactly the resources it
\* has, as long as no request writes between the calls of another and for as many
\* requests as are served: what CreateResource, UpdateResource and DeleteResource
\* put on the subscription and take off it is what they do to the rows.
THEOREM BilledExactly == Spec => []BillExact
<1>1. BillingInv /\ Ledger /\ Unserved => BillExact
  <2> SUFFICES ASSUME BillingInv, Ledger, Unserved, Quiet, clean, apart,
                      \A n \in 1..Len(subs) : Usable(n), NEW k \in Paid
               PROVE  Rows(k) = IF account.sub = 0 THEN 0 ELSE subs[account.sub].items[k].qty
    BY DEF BillExact
  <2>1. CASE Requests = {}
    BY <2>1, UnservedRows DEF Unserved, NoAccount
  <2>2. ASSUME NEW q \in Requests
        PROVE  Rows(k) = IF account.sub = 0 THEN 0 ELSE subs[account.sub].items[k].qty
    <3>1. ~Ended /\ (account.sub # 0 => Usable(account.sub))
      BY OwnSubscription DEF Ended
    <3>2. /\ account.sub # 0 => subs[account.sub].items[k].qty = Rows(k)
          /\ account.sub = 0 => Rows(k) = 0
      BY <3>1, QuietLevel
    <3> QED BY <3>2
  <2> QED BY <2>1, <2>2
<1> QED BY <1>1, LedgerAlways, UnservedAlways, PTL
-----------------------------------------------------------------------------
(* Requests served at the same time, none of which takes anything off the    *)
(* bill: the price of a resource may be on the subscription before its row   *)
(* is there, and a charge may overwrite another, but only by less.           *)
\* The requests that have charged for a resource of tier k and are about to
\* insert it, and the resources that will be there when they have.
Inserts(x, k) == x.pc = "insert" /\ x.sku = k
Placing(k)    == {q \in Requests : Inserts(req[q], k)}
Due(k)        == Rows(k) + Cardinality(Placing(k))

\* Items that charge for no more than that.
Bounded(items) == \A k \in Paid : items[k].qty <= Due(k)

OwnBounded == account.sub # 0 /\ Usable(account.sub) => Bounded(subs[account.sub].items)

\* What a request carries, true of the past, still bounds the bill.
Shares(x) ==
  /\ x.pc \in {"fetch", "charge"} /\ Usable(x.sub) => x.sub = account.sub
  /\ x.pc = "charge" /\ Usable(x.sub) => Bounded(x.items)
  /\ x.pc = "payment" => Bounded(x.items)
  /\ Making(x) /\ x.sub # 0 => x.sub # account.sub /\ x.wrote = TRUE
  /\ x.pc = "record" /\ x.op = "subscription" => Bounded(subs[x.sub].items)
  /\ x.pc = "record" /\ x.op = "create" =>
       \A k \in Paid : subs[x.sub].items[k].qty <= IF k = x.sku THEN 1 ELSE 0
  /\ x.pc = "link" /\ x.sub # 0 => \A k \in Paid : subs[x.sub].items[k].qty = 0
  /\ x.pc = "insert" /\ x.sku # Free => x.wrote = TRUE
  /\ x.pc \in {"customer", "count", "bulk"} /\ x.op = "customer" => x.sub = 0

\* Each subscription made is handed over by one request, and only those charge.
MadeApart ==
  \A p, q \in Requests : p # q /\ Making(req[p]) /\ Making(req[q]) /\ req[p].sub # 0
                           => req[p].sub # req[q].sub
NoneElse ==
  \A n \in 1..Len(subs) :
    Usable(n) /\ n # account.sub /\ (\A q \in Requests : Making(req[q]) => n # req[q].sub)
      => \A k \in Paid : subs[n].items[k].qty = 0

Even ==
  /\ ~account.open => account.sub = 0
  /\ OwnBounded /\ MadeApart /\ NoneElse
  /\ \A q \in Requests : Shares(req[q])

Joint == Growing /\ clean /\ Requests # {} => Even

\* What is known of a request that is served.
LEMMA GrowingAt ==
  ASSUME BillingInv, Growing, NEW q \in Requests, req[q].pc # "idle"
  PROVE  /\ Fits(req[q], Len(subs)) /\ req[q] \in ActiveRequest /\ Stage(req[q].op, req[q].pc)
         /\ req[q].op \in {"info", "customer", "create", "subscription", "cancel"}
         /\ Len(subs) \in Nat /\ req[q].sub \in Nat /\ req[q].sub <= Len(subs)
         /\ req[q].items \in [Skus -> Item] /\ \A k \in Paid : req[q].items[k].qty \in Nat
<1>1. Fits(req[q], Len(subs)) /\ req[q] \in ActiveRequest /\ Stage(req[q].op, req[q].pc) /\ Len(subs) \in Nat
  BY AtFits DEF At
<1>2. /\ req[q].op \in Ops /\ req[q].sub \in Nat /\ req[q].sub <= Len(subs)
      /\ req[q].items \in [Skus -> Item]
  BY <1>1 DEF ActiveRequest, Fits
<1>3. \A k \in Paid : req[q].items[k].qty \in Nat
  BY <1>2 DEF Item, Paid
<1> QED BY <1>1, <1>2, <1>3 DEF Growing

\* The other requests stand where they are.
Alone(q) == \A p \in Requests \ {q} : req'[p] = req[p]

LEMMA PlacingMoved ==
  ASSUME NEW q \in Requests, Alone(q), NEW k
  PROVE  /\ Cardinality(Placing(k)) \in Nat /\ Cardinality(Placing(k)') \in Nat
         /\ Cardinality(Placing(k)') = Cardinality(Placing(k)) + (IF Inserts(req'[q], k) THEN 1 ELSE 0)
                                                               - (IF Inserts(req[q], k) THEN 1 ELSE 0)
<1> DEFINE A == Placing(k)
           B == {p \in Requests : Inserts(req'[p], k)}
<1>1. Placing(k)' = B
  BY DEF Placing, Inserts
<1>2. IsFiniteSet(A) /\ IsFiniteSet(B) /\ IsFiniteSet(A \ {q})
  BY RequestsAssumption, FS_Subset DEF Placing
<1>3. Cardinality(A) \in Nat /\ Cardinality(B) \in Nat
  BY <1>2, FS_CardinalityType
<1>4. Cardinality(A \ {q}) = Cardinality(A) - (IF Inserts(req[q], k) THEN 1 ELSE 0)
  <2>1. q \in A <=> Inserts(req[q], k)
    BY DEF Placing
  <2>2. Cardinality(A \ {q}) = IF q \in A THEN Cardinality(A) - 1 ELSE Cardinality(A)
    BY <1>2, FS_RemoveElement
  <2> HIDE DEF A
  <2> QED BY <1>3, <2>1, <2>2
<1>5. CASE Inserts(req'[q], k)
  <2>1. B = (A \ {q}) \cup {q}
    BY <1>5 DEF Placing, Alone
  <2>2. Cardinality((A \ {q}) \cup {q}) = Cardinality(A \ {q}) + 1
    BY <1>2, FS_AddElement
  <2> HIDE DEF A, B
  <2> QED BY <1>1, <1>3, <1>4, <1>5, <2>1, <2>2 DEF A
<1>6. CASE ~Inserts(req'[q], k)
  <2>1. B = A \ {q}
    BY <1>6 DEF Placing, Alone
  <2> HIDE DEF A, B
  <2> QED BY <1>1, <1>3, <1>4, <1>6, <2>1 DEF A
<1> QED BY <1>5, <1>6

\* What is due stays due.
DueStays == \A k \in Paid : Due(k) \in Nat /\ Due(k)' \in Nat /\ Due(k) <= Due(k)'

LEMMA DueMoved ==
  ASSUME NEW q \in Requests, Alone(q), UNCHANGED row, NEW k
  PROVE  /\ Due(k) \in Nat /\ Due(k)' \in Nat
         /\ Due(k)' = Due(k) + (IF Inserts(req'[q], k) THEN 1 ELSE 0)
                             - (IF Inserts(req[q], k) THEN 1 ELSE 0)
<1>1. Rows(k) \in Nat /\ Rows(k)' = Rows(k)
  BY RowsCount, RowsSame
<1>2. Due(k) = Rows(k) + Cardinality(Placing(k)) /\ Due(k)' = Rows(k)' + Cardinality(Placing(k)')
  BY DEF Due
<1>3. /\ Cardinality(Placing(k)) \in Nat /\ Cardinality(Placing(k)') \in Nat
      /\ Cardinality(Placing(k)') = Cardinality(Placing(k)) + (IF Inserts(req'[q], k) THEN 1 ELSE 0)
                                                            - (IF Inserts(req[q], k) THEN 1 ELSE 0)
  BY PlacingMoved
<1> QED BY <1>1, <1>2, <1>3

LEMMA DueKept ==
  ASSUME NEW q \in Requests, Alone(q), UNCHANGED row,
         \A k \in Paid : Inserts(req[q], k) => Inserts(req'[q], k)
  PROVE  DueStays
<1> SUFFICES ASSUME NEW k \in Paid PROVE Due(k) \in Nat /\ Due(k)' \in Nat /\ Due(k) <= Due(k)'
  BY DEF DueStays
<1>1. /\ Due(k) \in Nat /\ Due(k)' \in Nat
      /\ Due(k)' = Due(k) + (IF Inserts(req'[q], k) THEN 1 ELSE 0)
                          - (IF Inserts(req[q], k) THEN 1 ELSE 0)
  BY DueMoved
<1> QED BY <1>1

\* No subscription comes back, and only the account's own charges differently.
Holding ==
  /\ Len(subs)' \in Nat /\ Len(subs) <= Len(subs)'
  /\ \A m \in 1..Len(subs) : /\ Usable(m)' => Usable(m)
                             /\ m # account.sub => subs'[m].items = subs[m].items

\* The account's subscription stays, or is replaced by the one made for it when
\* there is none to lose.
Handed(q) ==
  \/ account'.sub = account.sub
  \/ ~Current /\ Making(req[q]) /\ account'.sub = req[q].sub

\* A request that does nothing stands where it is.
LEMMA OthersShare ==
  ASSUME BillingInv, Growing, Even, NEW q \in Requests, Holding, DueStays, Handed(q),
         NEW p \in Requests, req'[p] = req[p], p # q \/ account'.sub = account.sub
  PROVE  Shares(req[p])'
<1> DEFINE z == req[p]
<1>1. CASE z.pc = "idle"
  BY <1>1 DEF Shares, Making
<1>2. CASE z.pc # "idle"
  <2>1. /\ Fits(z, Len(subs)) /\ z.sub \in Nat /\ z.sub <= Len(subs) /\ Len(subs) \in Nat
        /\ \A k \in Paid : z.items[k].qty \in Nat
    BY <1>2, GrowingAt
  <2>2. /\ z.pc \in {"fetch", "charge", "record"} => z.sub # 0
        /\ z.sub # 0 => z.sub \in 1..Len(subs)
    BY <2>1 DEF Fits
  <2>3. Shares(z)
    BY DEF Even
  <2>4. z.pc \in {"fetch", "charge"} /\ Usable(z.sub)' => Usable(z.sub) /\ z.sub = account'.sub
    BY <2>2, <2>3 DEF Shares, Holding, Handed, Current
  <2>5. Making(z) /\ z.sub # 0 => /\ z.sub # account'.sub /\ z.sub # account.sub /\ z.wrote = TRUE
                                  /\ subs'[z.sub].items = subs[z.sub].items
    <3>1. Making(z) /\ z.sub # 0 => z.sub # account.sub /\ z.wrote = TRUE
      BY <2>3 DEF Shares
    <3>2. p # q /\ Making(z) /\ z.sub # 0 /\ Making(req[q]) => z.sub # req[q].sub
      BY DEF Even, MadeApart
    <3> QED BY <2>2, <3>1, <3>2 DEF Holding, Handed
  <2>6. \A k \in Paid : z.items[k].qty <= Due(k) => z.items[k].qty <= Due(k)'
    BY <2>1 DEF DueStays
  <2>7. Making(z) /\ z.sub # 0 =>
          \A k \in Paid : subs[z.sub].items[k].qty <= Due(k) => subs[z.sub].items[k].qty <= Due(k)'
    <3>1. Making(z) /\ z.sub # 0 => \A k \in Paid : subs[z.sub].items[k].qty \in Nat
      BY <2>2, OwnSubscription
    <3> QED BY <3>1 DEF DueStays
  <2> QED BY <2>2, <2>3, <2>4, <2>5, <2>6, <2>7 DEF Shares, Bounded, Making
<1> QED BY <1>1, <1>2

\* The step of one request keeps the bill even when that request is.
LEMMA EvenStep ==
  ASSUME BillingInv, Growing, Even, NEW q \in Requests, Alone(q), Holding, DueStays, Handed(q),
         ~account'.open => account'.sub = 0, OwnBounded',
         \/ req'[q] = req[q] /\ account'.sub = account.sub
         \/ /\ Shares(req[q])'
            /\ Making(req[q]) => req[q].sub = 0 \/ account'.sub = req[q].sub
            /\ Making(req[q])' => req'[q].sub = 0 \/ req'[q].sub > Len(subs),
         \A m \in 1..Len(subs)' : m > Len(subs) => Making(req[q])' /\ m = req'[q].sub
  PROVE  Even'
<1>1. Len(subs) \in Nat /\ Len(subs)' \in Nat
  BY OwnSubscription DEF Holding
<1>2. \A p \in Requests : p # q => req'[p] = req[p]
  BY DEF Alone
<1>3. \A p \in Requests : Making(req[p]) => req[p].sub \in Nat /\ req[p].sub <= Len(subs)
  BY GrowingAt DEF Making
<1>4. \A p \in Requests : Shares(req[p])'
  BY <1>2, OthersShare
<1>5. MadeApart'
  <2> SUFFICES ASSUME NEW p \in Requests, NEW o \in Requests, p # o, Making(req'[p]), Making(req'[o]),
                      req'[p].sub # 0
               PROVE  req'[p].sub # req'[o].sub
    BY DEF MadeApart, Making
  <2>1. Making(req[q])' <=> Making(req'[q])
    BY DEF Making
  <2>2. CASE p # q /\ o # q
    BY <1>2, <2>2 DEF Even, MadeApart
  <2>3. CASE req'[q] = req[q]
    <3>1. req'[p] = req[p] /\ req'[o] = req[o]
      BY <1>2, <2>3
    <3> QED BY <3>1 DEF Even, MadeApart
  <2>4. CASE (p = q \/ o = q) /\ req'[q] # req[q]
    <3>1. Making(req'[q]) => req'[q].sub = 0 \/ req'[q].sub > Len(subs)
      BY <2>1, <2>4
    <3>2. CASE p = q
      <4>1. req'[o] = req[o] /\ req[o].sub \in Nat /\ req[o].sub <= Len(subs)
        BY <1>2, <1>3, <3>2
      <4> QED BY <1>1, <3>1, <3>2, <4>1
    <3>3. CASE o = q
      <4>1. req'[p] = req[p] /\ req[p].sub \in Nat /\ req[p].sub <= Len(subs)
        BY <1>2, <1>3, <3>3
      <4> QED BY <1>1, <3>1, <3>3, <4>1
    <3> QED BY <2>4, <3>2, <3>3
  <2> QED BY <2>2, <2>3, <2>4
<1>6. NoneElse'
  <2> SUFFICES ASSUME NEW n \in 1..Len(subs)', Usable(n)', n # account'.sub,
                      \A p \in Requests : Making(req[p])' => n # req'[p].sub
               PROVE  \A k \in Paid : subs'[n].items[k].qty = 0
    BY DEF NoneElse
  <2>1. n \in 1..Len(subs)
    BY <1>1
  <2>2. Usable(n) /\ n # account.sub
    BY <1>1, <2>1 DEF Holding, Handed, Current
  <2>3. subs'[n].items = subs[n].items
    BY <2>1, <2>2 DEF Holding
  <2>4. ASSUME NEW p \in Requests, Making(req[p]) PROVE n # req[p].sub
    <3>1. CASE req'[p] = req[p]
      BY <2>4, <3>1 DEF Making
    <3>2. CASE req'[p] # req[p]
      <4>1. p = q /\ (req[p].sub = 0 \/ account'.sub = req[p].sub)
        BY <1>2, <2>4, <3>2
      <4> QED BY <1>1, <2>1, <4>1
    <3> QED BY <3>1, <3>2
  <2> QED BY <2>1, <2>2, <2>3, <2>4 DEF Even, NoneElse
<1> QED BY <1>4, <1>5, <1>6 DEF Even

LEMMA KeepingHolds == ASSUME Keeping PROVE Holding
BY DEF Keeping, Holding, Usable

LEMMA OwnBoundedStays ==
  ASSUME BillingInv, Even, account'.sub = account.sub, Keeping, DueStays
  PROVE  OwnBounded'
<1>1. /\ account.sub # 0 => account.sub \in 1..Len(subs)
      /\ \A n \in 1..Len(subs) : \A k \in Paid : subs[n].items[k].qty \in Nat
  BY OwnSubscription
<1>2. account.sub # 0 => /\ subs'[account'.sub].items = subs[account.sub].items
                         /\ Usable(account.sub)' => Usable(account.sub)
  BY <1>1 DEF Keeping, Usable
<1>3. account.sub # 0 => \A k \in Paid : /\ subs[account.sub].items[k].qty \in Nat
                                        /\ Due(k) \in Nat /\ Due(k)' \in Nat /\ Due(k) <= Due(k)'
  BY <1>1 DEF DueStays
<1>4. account.sub # 0 /\ Usable(account.sub) => \A k \in Paid : subs[account.sub].items[k].qty <= Due(k)
  BY DEF Even, OwnBounded, Bounded
<1>5. account.sub # 0 /\ Usable(account.sub) => \A k \in Paid : subs[account.sub].items[k].qty <= Due(k)'
  BY <1>3, <1>4
<1> QED BY <1>2, <1>5 DEF OwnBounded, Bounded

\* A step that changes no row and no account's subscription.
LEMMA EvenStand ==
  ASSUME BillingInv, Growing, Even, NEW q \in Requests, Alone(q), Keeping, UNCHANGED row,
         account'.sub = account.sub, ~account'.open => account'.sub = 0,
         \A k \in Paid : Inserts(req[q], k) => Inserts(req'[q], k),
         Making(req[q]) => req[q].sub = 0, Shares(req[q])',
         Making(req[q])' => req'[q].sub = 0 \/ req'[q].sub > Len(subs),
         \A m \in 1..Len(subs)' : m > Len(subs) => Making(req[q])' /\ m = req'[q].sub
  PROVE  Even'
<1>1. DueStays /\ Holding /\ Handed(q)
  BY DueKept, KeepingHolds DEF Handed
<1> QED BY <1>1, OwnBoundedStays, EvenStep

\* A request that is over, without having written when it went wrong.
LEMMA EvenOver ==
  ASSUME BillingInv, Growing, Even, NEW q \in Requests, UNCHANGED <<row, subs>>,
         account'.sub = account.sub, ~account'.open => account'.sub = 0,
         \/ Fail(q) /\ clean'
         \/ Leave(q) /\ req[q].pc \notin {"insert", "record", "link"}
  PROVE  Even'
<1>1. req'[q] = IdleRequest /\ Alone(q)
  BY LeaveIdle DEF Leave, Fail, Alone, BillingInv, RequestsFit
<1>2. req'[q].pc = "idle"
  BY <1>1 DEF IdleRequest
<1>3. Shares(req[q])' /\ ~Making(req[q])'
  BY <1>2 DEF Shares, Making
<1>4. \/ req[q].wrote # TRUE
      \/ req[q].pc \notin {"insert", "record", "link"}
  BY DEF Fail
<1>5. Making(req[q]) => req[q].sub = 0
  BY <1>4 DEF Even, Shares, Making
<1>6. \A k \in Paid : ~Inserts(req[q], k)
  BY <1>4 DEF Even, Shares, Inserts, Paid
<1> QED BY <1>1, <1>3, <1>5, <1>6, SubsKept, EvenStand
-----------------------------------------------------------------------------
(* The steps of one request.                                                 *)
LEMMA BeginEven ==
  ASSUME BillingInv, Growing, Even, NEW q \in Requests, Begin(q)
  PROVE  Even'
<1>1. PICK op, r, k, pc : /\ Start(q, Request(op, r, k, pc))
                          /\ \/ pc \in {"account", "customer"}
                             \/ pc = "insert" /\ k = Free
  <2>1. ASSUME NEW r \in Resources, NEW k \in Skus, StartCreate(q, r, k)
        PROVE  Start(q, Request("create", r, k, IF k = Free THEN "insert" ELSE "account"))
    BY <2>1 DEF StartCreate
  <2>2. ASSUME NEW op \in Ops, StartOther(q, op)
        PROVE  Start(q, Request(op, Null, Null, IF op = "customer" THEN "customer" ELSE "account"))
    BY <2>2 DEF StartOther
  <2>3. "update" \notin Ops /\ "delete" \notin Ops
    BY DEF Growing
  <2> QED BY <2>1, <2>2, <2>3 DEF Begin, StartUpdate, StartDelete
<1> DEFINE y == Request(op, r, k, pc)
<1>2. req'[q] = y /\ req[q].pc = "idle" /\ UNCHANGED <<row, account, subs>> /\ Alone(q)
  BY <1>1 DEF Start, Alone, BillingInv, RequestsFit
<1>3. y.pc = pc /\ y.op = op /\ y.sku = k /\ y.sub = 0
  BY DEF Request
<1>4. Shares(req[q])' /\ ~Making(req[q])' /\ ~Making(req[q]) /\ \A j \in Paid : ~Inserts(req[q], j)
  BY <1>1, <1>2, <1>3 DEF Shares, Making, Inserts
<1>5. ~account'.open => account'.sub = 0
  BY <1>2 DEF Even
<1> QED BY <1>2, <1>4, <1>5, SubsKept, EvenStand

\* Where a request that has the account goes.
LEMMA TakeEven ==
  ASSUME BillingInv, Growing, Even, NEW q \in Requests, NEW a \in Account, TakeAccount(q, a),
         At(q, "account") \/ At(q, "open"), account' = a, a.sub = account.sub, a.open,
         UNCHANGED <<row, subs>>, clean'
  PROVE  Even'
<1> DEFINE x  == req[q]
           pc == AfterAccount(q, a)
<1>1. /\ x.pc \in {"account", "open"} /\ Stage(x.op, x.pc)
      /\ x.op \in {"info", "customer", "create", "subscription", "cancel"}
  BY GrowingAt DEF At
<1>2. CASE pc = "fail"
  BY <1>2, EvenOver DEF TakeAccount
<1>3. CASE pc # "fail"
  <2>1. pc \in Pcs /\ pc \in {"subscribe", "fetch", "count", "schedule"} /\ (pc = "count" => x.op = "subscription")
    BY <1>1, <1>3 DEF AfterAccount, Stage, Pcs
  <2>2. Same(x, req'[q]) /\ req'[q].pc = pc /\ req'[q].sub = a.sub
    BY <1>1, <2>1, TakeKeeps
  <2>3. Alone(q)
    BY <1>3 DEF TakeAccount, Alone, BillingInv, RequestsFit
  <2> HIDE DEF pc
  <2>4. Shares(req[q])' /\ ~Making(req[q])' /\ ~Making(req[q]) /\ \A k \in Paid : ~Inserts(req[q], k)
    BY <1>1, <2>1, <2>2 DEF Shares, Making, Inserts, Same
  <2> QED BY <2>3, <2>4, SubsKept, EvenStand
<1> QED BY <1>2, <1>3

LEMMA AccountsEven ==
  ASSUME BillingInv, Growing, Even, NEW q \in Requests, GetAccount(q) \/ OpenAccount(q), clean'
  PROVE  Even'
<1> DEFINE x == req[q]
<1>1. PICK pc \in {"account", "open"} : At(q, pc)
  BY DEF GetAccount, OpenAccount
<1>2. /\ x.pc = pc /\ Stage(x.op, pc)
      /\ x.op \in {"info", "customer", "create", "subscription", "cancel"}
  BY <1>1, GrowingAt DEF At
<1>3. account \in Account /\ UNCHANGED <<row, subs>> /\ (~account.open => account.sub = 0)
  BY DEF BillingInv, TablesFit, GetAccount, OpenAccount, Even
<1>4. CASE TakeAccount(q, account) /\ account.open /\ UNCHANGED account
  BY <1>1, <1>3, <1>4, TakeEven
<1>5. CASE Goto(q, "open") /\ UNCHANGED account
  <2>1. /\ Same(x, req'[q]) /\ req'[q].pc = "open" /\ req'[q].sub = x.sub
    BY <1>2, <1>5, GoKeeps DEF Pcs
  <2>2. Alone(q)
    BY <1>5 DEF Goto, Alone, BillingInv, RequestsFit
  <2>3. Shares(req[q])' /\ ~Making(req[q])' /\ ~Making(req[q]) /\ \A k \in Paid : ~Inserts(req[q], k)
    BY <1>2, <2>1 DEF Shares, Making, Inserts
  <2> QED BY <1>3, <1>5, <2>2, <2>3, SubsKept, EvenStand
<1>6. CASE Fail(q) /\ UNCHANGED account
  BY <1>3, <1>6, EvenOver
<1>7. CASE /\ ~account.open /\ account' = [NoAccount EXCEPT !.open = TRUE]
           /\ TakeAccount(q, account')
  <2>1. account' \in Account /\ account'.sub = 0 /\ account'.open = TRUE
    BY <1>7 DEF NoAccount, Account
  <2> QED BY <1>1, <1>3, <1>7, <2>1, TakeEven
<1>8. ~Tolerant(q)
  BY <1>2 DEF Tolerant
<1> QED BY <1>4, <1>5, <1>6, <1>7, <1>8 DEF GetAccount, OpenAccount

\* The subscription made is the account's from then on.
LEMMA RecordEven ==
  ASSUME BillingInv, Growing, Even, NEW q \in Requests, RecordSubscription(q), clean'
  PROVE  Even'
<1> DEFINE x == req[q]
<1>1. /\ Fits(x, Len(subs)) /\ x.pc = "record" /\ Stage(x.op, "record") /\ x \in ActiveRequest
      /\ Len(subs) \in Nat /\ x.sub \in Nat /\ x.sub <= Len(subs)
  BY GrowingAt DEF RecordSubscription, At
<1>2. x.sub # 0 /\ x.sub \in 1..Len(subs) /\ x.op \in {"create", "subscription"} /\ Making(x)
  BY <1>1 DEF Fits, Stage, Making
<1>3. Shares(x) /\ x.wrote = TRUE
  BY <1>2 DEF Even, Shares
<1>4. UNCHANGED <<row, subs>>
  BY DEF RecordSubscription
<1>5. ~Fail(q)
  BY <1>3 DEF Fail
<1>6. /\ account.open /\ account' = [account EXCEPT !.sub = x.sub] /\ ~Current
      /\ IF x.op = "create" THEN Goto(q, "insert") ELSE Leave(q)
  BY <1>5 DEF RecordSubscription
<1>7. account'.sub = x.sub /\ account'.open = account.open
  BY <1>6 DEF BillingInv, TablesFit, Account
<1>8. Alone(q)
  BY <1>6 DEF Goto, Leave, Alone, BillingInv, RequestsFit
<1>9. /\ x.op = "create" => Same(x, req'[q]) /\ req'[q].pc = "insert" /\ req'[q].wrote = TRUE
      /\ x.op # "create" => req'[q].pc = "idle"
  <2>1. CASE x.op = "create"
    <3>1. Goto(q, "insert") /\ Same(x, req'[q]) /\ req'[q].pc = "insert"
      BY <1>1, <1>6, <2>1, GoKeeps DEF Pcs
    <3>2. req'[q].wrote = TRUE
      BY <1>1, <1>3, <3>1 DEF Goto, ActiveRequest, BillingInv, RequestsFit
    <3> QED BY <2>1, <3>1, <3>2
  <2>2. CASE x.op # "create"
    BY <1>6, <2>2 DEF Leave, IdleRequest, BillingInv, RequestsFit
  <2> QED BY <2>1, <2>2
<1>10. \A k \in Paid : /\ Due(k) \in Nat /\ Due(k)' \in Nat
                       /\ Due(k)' = Due(k) + (IF x.op = "create" /\ k = x.sku THEN 1 ELSE 0)
  <2> SUFFICES ASSUME NEW k \in Paid
               PROVE  /\ Due(k) \in Nat /\ Due(k)' \in Nat
                      /\ Due(k)' = Due(k) + (IF x.op = "create" /\ k = x.sku THEN 1 ELSE 0)
    OBVIOUS
  <2>1. ~Inserts(req[q], k) /\ (Inserts(req'[q], k) <=> x.op = "create" /\ k = x.sku)
    BY <1>1, <1>9 DEF Inserts, Same
  <2>2. /\ Due(k) \in Nat /\ Due(k)' \in Nat
        /\ Due(k)' = Due(k) + (IF Inserts(req'[q], k) THEN 1 ELSE 0)
                            - (IF Inserts(req[q], k) THEN 1 ELSE 0)
    BY <1>4, <1>8, DueMoved
  <2> QED BY <2>1, <2>2
<1>11. DueStays
  BY <1>10 DEF DueStays
<1>12. OwnBounded'
  <2>1. \A k \in Paid : subs[x.sub].items[k].qty \in Nat
    BY <1>2, OwnSubscription
  <2>2. CASE x.op = "create"
    <3>1. \A k \in Paid : subs[x.sub].items[k].qty <= IF k = x.sku THEN 1 ELSE 0
      BY <1>1, <1>3, <2>2 DEF Shares
    <3>2. \A k \in Paid : subs[x.sub].items[k].qty <= Due(k)'
      BY <1>10, <2>1, <2>2, <3>1
    <3> QED BY <1>4, <1>7, <3>2 DEF OwnBounded, Bounded
  <2>3. CASE x.op = "subscription"
    <3>1. \A k \in Paid : subs[x.sub].items[k].qty <= Due(k)
      BY <1>1, <1>3, <2>3 DEF Shares, Bounded
    <3>2. \A k \in Paid : subs[x.sub].items[k].qty <= Due(k)'
      BY <1>10, <2>1, <2>3, <3>1
    <3> QED BY <1>4, <1>7, <3>2 DEF OwnBounded, Bounded
  <2> QED BY <1>2, <2>2, <2>3
<1>13. Shares(req[q])' /\ ~Making(req[q])'
  BY <1>2, <1>9 DEF Shares, Making, Same
<1>14. ~account'.open => account'.sub = 0
  BY <1>6, <1>7
<1>15. Holding /\ Handed(q)
  BY <1>2, <1>6, <1>7, <1>4, SubsKept, KeepingHolds DEF Handed
<1> QED BY <1>4, <1>7, <1>8, <1>11, <1>12, <1>13, <1>14, <1>15, SubsKept, EvenStep

\* The row of a resource that is charged for already.
LEMMA InsertEven ==
  ASSUME BillingInv, Growing, Even, NEW q \in Requests, InsertResource(q), clean'
  PROVE  Even'
<1> DEFINE x == req[q]
           v == [sku |-> x.sku, price |-> IF x.sku = Free THEN Null ELSE x.sku]
<1>1. /\ Fits(x, Len(subs)) /\ x.pc = "insert" /\ Stage(x.op, "insert")
  BY GrowingAt DEF InsertResource, At
<1>2. x.res \in Resources /\ x.sku \in Skus /\ row \in [Resources -> Row \cup {Gone}]
  BY <1>1 DEF Fits, Stage, BillingInv, TablesFit
<1>3. UNCHANGED <<account, subs>> /\ (~account'.open => account'.sub = 0)
  BY DEF InsertResource, Even
<1>4. CASE Fail(q) /\ UNCHANGED row
  BY <1>3, <1>4, EvenOver
<1>5. CASE ~Here(x.res) /\ row' = [row EXCEPT ![x.res] = v] /\ Leave(q)
  <2>1. req'[q] = IdleRequest /\ Alone(q)
    BY <1>5, LeaveIdle DEF Leave, Alone, BillingInv, RequestsFit
  <2>2. req'[q].pc = "idle"
    BY <2>1 DEF IdleRequest
  <2>3. ASSUME NEW k \in Paid PROVE Due(k) \in Nat /\ Due(k)' \in Nat /\ Due(k) <= Due(k)'
    <3>1. Rows(k)' = Rows(k) + (IF IsOf(v, k) THEN 1 ELSE 0) - (IF IsOf(row[x.res], k) THEN 1 ELSE 0)
      BY <1>2, <1>5, RowsMoved
    <3>2. v \in Row /\ v.sku = x.sku
      BY <1>2 DEF Row
    <3>3. (IsOf(v, k) <=> x.sku = k) /\ ~IsOf(row[x.res], k)
      BY <1>5, <3>2, GoneAssumption DEF IsOf, Here
    <3>4. (Inserts(req[q], k) <=> x.sku = k) /\ ~Inserts(req'[q], k)
      BY <1>1, <2>2 DEF Inserts
    <3>5. /\ Cardinality(Placing(k)) \in Nat /\ Cardinality(Placing(k)') \in Nat
          /\ Cardinality(Placing(k)') = Cardinality(Placing(k)) + (IF Inserts(req'[q], k) THEN 1 ELSE 0)
                                                                - (IF Inserts(req[q], k) THEN 1 ELSE 0)
      BY <2>1, PlacingMoved
    <3>6. Due(k) = Rows(k) + Cardinality(Placing(k)) /\ Due(k)' = Rows(k)' + Cardinality(Placing(k)')
      BY DEF Due
    <3>7. Rows(k) \in Nat
      BY RowsCount
    <3> HIDE DEF v, x
    <3> QED BY <3>1, <3>3, <3>4, <3>5, <3>6, <3>7
  <2>4. DueStays
    BY <2>3 DEF DueStays
  <2>5. Shares(req[q])' /\ ~Making(req[q])' /\ ~Making(req[q])
    BY <1>1, <2>2 DEF Shares, Making
  <2>6. Holding /\ Handed(q) /\ OwnBounded'
    BY <1>3, <2>4, SubsKept, KeepingHolds, OwnBoundedStays DEF Handed
  <2> QED BY <1>3, <2>1, <2>4, <2>5, <2>6, SubsKept, EvenStep
<1> QED BY <1>4, <1>5 DEF InsertResource

\* The counts bound the bill as long as nothing goes.
LEMMA CountEven ==
  ASSUME BillingInv, Growing, Even, NEW q \in Requests, CountResources(q), clean'
  PROVE  Even'
<1> DEFINE x == req[q]
<1>1. x.pc = "count" /\ Stage(x.op, "count") /\ Shares(x) /\ ~Making(x)
  BY GrowingAt DEF CountResources, At, Even, Making
<1>2. UNCHANGED <<row, subs, account>> /\ (~account'.open => account'.sub = 0)
  BY DEF CountResources, Even
<1>3. ASSUME NEW pc \in {"link", "bulk", "payment"}, pc # "payment" => x.op = "customer",
             req' = [req EXCEPT ![q].items = Counts, ![q].pc = pc]
      PROVE  Even'
  <2>1. pc \in Pcs
    BY <1>3 DEF Pcs
  <2>2. /\ Same(x, req'[q]) /\ req'[q].pc = pc /\ req'[q].sub = x.sub
        /\ req'[q].items = Counts
    BY <1>1, <1>3, <2>1, CountsFit, ItemsKeeps
  <2>3. Alone(q)
    BY <1>3 DEF Alone, BillingInv, RequestsFit
  <2>4. \A k \in Paid : Counts[k].qty <= Due(k)'
    <3>1. ASSUME NEW k \in Paid PROVE Counts[k].qty <= Due(k)'
      <4>1. Counts[k].qty = Rows(k) /\ Rows(k)' = Rows(k) /\ Rows(k) \in Nat
        BY <1>2, RowsSame, RowsCount DEF Counts, Paid
      <4>2. Due(k)' = Rows(k)' + Cardinality(Placing(k)') /\ Cardinality(Placing(k)') \in Nat
        BY <2>3, PlacingMoved DEF Due
      <4> QED BY <4>1, <4>2
    <3> QED BY <3>1
  <2>5. x.op = "customer" => x.sub = 0
    BY <1>1 DEF Shares
  <2>6. Shares(req[q])'
    BY <1>3, <2>2, <2>4, <2>5 DEF Shares, Bounded, Making, Same
  <2>7. Making(req[q])' => req'[q].sub = 0
    BY <1>3, <2>2, <2>5 DEF Making, Same
  <2>8. \A k \in Paid : ~Inserts(req[q], k)
    BY <1>1 DEF Inserts
  <2> QED BY <1>1, <1>2, <2>3, <2>6, <2>7, <2>8, SubsKept, EvenStand
<1>4. CASE Fail(q)
  BY <1>2, <1>4, EvenOver
<1> QED BY <1>3, <1>4 DEF CountResources

\* A new customer's subscription charges for nothing.
LEMMA LinkEven ==
  ASSUME BillingInv, Growing, Even, NEW q \in Requests, LinkCustomer(q), clean'
  PROVE  Even'
<1> DEFINE x == req[q]
<1>1. x.pc = "link" /\ x.sub \in Nat /\ x.sub <= Len(subs) /\ Making(x) /\ Shares(x)
  BY GrowingAt DEF LinkCustomer, At, Making, Even
<1>2. UNCHANGED <<row, subs>> /\ Len(subs) \in Nat
  BY OwnSubscription DEF LinkCustomer
<1>3. CASE Fail(q) /\ UNCHANGED account
  BY <1>2, <1>3, EvenOver DEF Even
<1>4. CASE /\ account.open /\ Leave(q) /\ ~Current
           /\ account' = [account EXCEPT !.customer = x.customer, !.sub = x.sub]
  <2>1. req'[q] = IdleRequest /\ Alone(q)
    BY <1>4, LeaveIdle DEF Leave, Alone, BillingInv, RequestsFit
  <2>2. req'[q].pc = "idle"
    BY <2>1 DEF IdleRequest
  <2>3. account'.sub = x.sub /\ account'.open = account.open
    BY <1>4 DEF BillingInv, TablesFit, Account
  <2>4. DueStays
    BY <1>1, <1>2, <2>1, DueKept DEF Inserts
  <2>5. OwnBounded'
    <3>1. x.sub # 0 => \A k \in Paid : subs[x.sub].items[k].qty = 0
      BY <1>1 DEF Shares
    <3>2. \A k \in Paid : 0 <= Due(k)'
      BY <2>4 DEF DueStays
    <3> QED BY <1>2, <2>3, <3>1, <3>2 DEF OwnBounded, Bounded
  <2>6. Shares(req[q])' /\ ~Making(req[q])'
    BY <2>2 DEF Shares, Making
  <2>7. Holding /\ Handed(q) /\ (~account'.open => account'.sub = 0)
    BY <1>1, <1>2, <1>4, <2>3, SubsKept, KeepingHolds DEF Handed
  <2> QED BY <1>2, <2>1, <2>3, <2>4, <2>5, <2>6, <2>7, SubsKept, EvenStep
<1> QED BY <1>3, <1>4 DEF LinkCustomer

LEMMA TouchEven ==
  ASSUME BillingInv, Growing, Even, NEW q \in Requests, TouchAccount(q), clean'
  PROVE  Even'
<1>1. req[q].pc = "touch" /\ UNCHANGED <<row, subs, account>> /\ (~account'.open => account'.sub = 0)
  BY DEF TouchAccount, At, Even
<1> QED BY <1>1, EvenOver DEF TouchAccount

\* The subscription that a creation reads is the account's, or over.
LEMMA FetchEven ==
  ASSUME BillingInv, Growing, Even, NEW q \in Requests, FetchSubscription(q)
  PROVE  Even'
<1> DEFINE x     == req[q]
           items == subs[x.sub].items
           pc    == IF Usable(x.sub) THEN "charge" ELSE "subscribe"
<1>1. /\ Fits(x, Len(subs)) /\ x.pc = "fetch" /\ Stage(x.op, "fetch") /\ Len(subs) \in Nat
      /\ x.sub \in Nat /\ x.sub <= Len(subs)
      /\ x.op \in {"info", "customer", "create", "subscription", "cancel"}
  BY GrowingAt DEF FetchSubscription, At
<1>2. x.sub # 0 /\ x.sub \in 1..Len(subs) /\ x.op = "create" /\ Shares(x)
  BY <1>1 DEF Fits, Stage, Even
<1>3. items \in [Skus -> Item] /\ \A k \in Paid : items[k].qty \in Nat
  BY <1>2, OwnSubscription
<1>4. /\ req' = [req EXCEPT ![q].items = items, ![q].pc = pc] /\ UNCHANGED <<row, account, subs>>
  BY <1>2 DEF FetchSubscription
<1>5. pc \in Pcs /\ pc \in {"charge", "subscribe"} /\ (pc = "charge" <=> Usable(x.sub))
  BY DEF Pcs
<1>6. Alone(q)
  BY <1>4 DEF Alone, BillingInv, RequestsFit
<1> HIDE DEF pc
<1>7. /\ Same(x, req'[q]) /\ req'[q].pc = pc /\ req'[q].sub = x.sub /\ req'[q].items = items
  <2> HIDE DEF items
  <2> QED BY <1>1, <1>3, <1>4, <1>5, ItemsKeeps
<1>8. \A k \in Paid : ~Inserts(req[q], k)
  BY <1>1 DEF Inserts
<1>9. Usable(x.sub) => x.sub = account.sub /\ \A k \in Paid : items[k].qty <= Due(k)'
  <2>1. Usable(x.sub) => x.sub = account.sub /\ \A k \in Paid : items[k].qty <= Due(k)
    BY <1>1, <1>2 DEF Shares, Even, OwnBounded, Bounded
  <2>2. DueStays
    BY <1>4, <1>6, <1>8, DueKept
  <2> HIDE DEF items
  <2> QED BY <1>3, <2>1, <2>2 DEF DueStays
<1>10. Shares(req[q])' /\ ~Making(req[q])' /\ ~Making(req[q])
  <2> HIDE DEF items
  <2> QED BY <1>1, <1>4, <1>5, <1>7, <1>9 DEF Shares, Making, Bounded, Usable
<1>11. ~account'.open => account'.sub = 0
  BY <1>4 DEF Even
<1> QED BY <1>4, <1>6, <1>8, <1>10, <1>11, SubsKept, EvenStand

\* The item is set to one more than was read, which is due by now.
LEMMA ChargeEven ==
  ASSUME BillingInv, Growing, Even, NEW q \in Requests, Charge(q), clean'
  PROVE  Even'
<1> DEFINE x == req[q]
<1>1. /\ Fits(x, Len(subs)) /\ x \in ActiveRequest /\ x.pc = "charge" /\ Stage(x.op, "charge")
      /\ Len(subs) \in Nat /\ x.sub \in Nat /\ x.sub <= Len(subs)
      /\ x.op \in {"info", "customer", "create", "subscription", "cancel"}
      /\ x.items \in [Skus -> Item] /\ \A k \in Paid : x.items[k].qty \in Nat
  BY GrowingAt DEF Charge, At
<1>2. x.sub # 0 /\ x.sub \in 1..Len(subs) /\ x.op = "create" /\ x.sku \in Skus /\ Shares(x)
  BY <1>1 DEF Fits, Stage, Even
<1>3. UNCHANGED <<row, account>> /\ (~account'.open => account'.sub = 0)
  BY DEF Charge, Even
<1>4. CASE Fail(q) /\ UNCHANGED subs
  BY <1>3, <1>4, EvenOver
<1>5. CASE Accepted(q, x.sku) /\ WriteItem(q, x.sku, Read(q, x.sku).qty + 1) /\ Wrote(q, "insert")
  <2>1. Read(q, x.sku).qty \in Nat /\ Read(q, x.sku).qty + 1 \in Nat /\ Read(q, x.sku) = x.items[x.sku]
    BY <1>1, <1>2 DEF Read, Item
  <2>2. /\ Len(subs)' = Len(subs)
        /\ \A m \in 1..Len(subs) : /\ Usable(m)' <=> Usable(m)
                                   /\ m # x.sub => subs'[m].items = subs[m].items
        /\ \A j \in Skus \ {x.sku} : subs'[x.sub].items[j] = subs[x.sub].items[j]
        /\ subs'[x.sub].items[x.sku].qty = Read(q, x.sku).qty + 1
    BY <1>1, <1>2, <1>5, <2>1, WriteKeeps
  <2>3. /\ Same(x, req'[q]) /\ req'[q].pc = "insert" /\ req'[q].wrote = TRUE
    <3>1. Same(x, req'[q]) /\ req'[q].pc = "insert"
      BY <1>1, <1>5, GoKeeps DEF Pcs
    <3>2. req'[q].wrote = TRUE
      BY <1>1, <1>5 DEF Wrote, ActiveRequest, BillingInv, RequestsFit
    <3> QED BY <3>1, <3>2
  <2>4. Alone(q)
    BY <1>5 DEF Wrote, Alone, BillingInv, RequestsFit
  <2>5. x.sub = account.sub /\ Usable(x.sub) /\ \A k \in Paid : x.items[k].qty <= Due(k)
    BY <1>1, <1>2, <1>5 DEF Accepted, Shares, Bounded
  <2>6. ASSUME NEW k \in Paid
        PROVE  /\ Due(k) \in Nat /\ Due(k)' \in Nat
               /\ Due(k)' = Due(k) + (IF k = x.sku THEN 1 ELSE 0)
    <3>1. ~Inserts(req[q], k) /\ (Inserts(req'[q], k) <=> k = x.sku)
      BY <1>1, <2>3 DEF Inserts, Same
    <3>2. /\ Due(k) \in Nat /\ Due(k)' \in Nat
          /\ Due(k)' = Due(k) + (IF Inserts(req'[q], k) THEN 1 ELSE 0)
                              - (IF Inserts(req[q], k) THEN 1 ELSE 0)
      BY <1>3, <2>4, DueMoved
    <3> QED BY <3>1, <3>2
  <2>7. ASSUME NEW k \in Paid PROVE subs'[x.sub].items[k].qty <= Due(k)'
    <3>1. CASE k = x.sku
      <4>1. subs'[x.sub].items[k].qty = x.items[k].qty + 1
        BY <2>1, <2>2, <3>1
      <4>2. x.items[k].qty \in Nat /\ x.items[k].qty <= Due(k) /\ Due(k) \in Nat /\ Due(k)' = Due(k) + 1
        BY <1>1, <2>5, <2>6, <3>1
      <4> HIDE DEF x
      <4> QED BY <4>1, <4>2
    <3>2. CASE k # x.sku
      <4>1. k \in Skus \ {x.sku}
        BY <3>2 DEF Paid
      <4>2. subs'[x.sub].items[k].qty = subs[x.sub].items[k].qty
        BY <2>2, <4>1
      <4>3. subs[x.sub].items[k].qty <= Due(k) /\ Due(k)' = Due(k)
        BY <1>2, <2>5, <2>6, <3>2 DEF Even, OwnBounded, Bounded
      <4> QED BY <4>2, <4>3
    <3> QED BY <3>1, <3>2
  <2>8. DueStays
    BY <2>6 DEF DueStays
  <2>9. OwnBounded'
    BY <1>3, <2>5, <2>7 DEF OwnBounded, Bounded
  <2>10. Holding /\ Handed(q) /\ \A m \in 1..Len(subs)' : ~(m > Len(subs))
    BY <1>1, <1>3, <2>2, <2>5 DEF Holding, Handed
  <2>11. Shares(req[q])' /\ ~Making(req[q])' /\ ~Making(req[q])
    BY <1>1, <2>3 DEF Shares, Making
  <2> QED BY <1>3, <2>4, <2>8, <2>9, <2>10, <2>11, EvenStep
<1> QED BY <1>2, <1>4, <1>5 DEF Charge

LEMMA NewCustomerEven ==
  ASSUME BillingInv, Growing, Even, NEW q \in Requests, NewCustomer(q)
  PROVE  Even'
<1> DEFINE x == req[q]
           c == customers + 1
<1>1. x \in ActiveRequest /\ x.pc = "customer" /\ Stage(x.op, "customer") /\ Shares(x)
  BY GrowingAt DEF NewCustomer, At, Even
<1>2. c \in Nat /\ "count" \in Pcs /\ x.op = "customer" /\ x.sub = 0
  BY <1>1 DEF BillingInv, TablesFit, Pcs, Stage, Shares
<1>3. /\ req'[q] = WithCustomer(x, c, "count") /\ UNCHANGED <<row, account, subs>> /\ Alone(q)
  BY DEF NewCustomer, WithCustomer, Alone, BillingInv, RequestsFit
<1>4. Same(x, req'[q]) /\ req'[q].pc = "count" /\ req'[q].sub = 0
  <2> HIDE DEF c, x
  <2> QED BY <1>1, <1>2, <1>3, WithCustomerFits
<1>5. Shares(req[q])' /\ ~Making(req[q])' /\ ~Making(req[q]) /\ \A k \in Paid : ~Inserts(req[q], k)
  BY <1>1, <1>4 DEF Shares, Making, Inserts
<1>6. ~account'.open => account'.sub = 0
  BY <1>3 DEF Even
<1> QED BY <1>3, <1>5, <1>6, SubsKept, EvenStand

\* A subscription is made for what is due.
LEMMA MadeEven ==
  ASSUME BillingInv, Growing, Even, NEW q \in Requests, req[q].pc \in {"subscribe", "bulk", "payment"},
         NEW items \in [Skus -> Item], MakeSubscription(q, items), UNCHANGED <<row, account>>,
         req[q].op \in {"create", "customer", "subscription"},
         req[q].op = "customer" => \A k \in Paid : items[k].qty = 0,
         req[q].op = "create" => \A k \in Paid : items[k].qty <= IF k = req[q].sku THEN 1 ELSE 0,
         req[q].op = "subscription" => \A k \in Paid : items[k].qty <= Due(k)
  PROVE  Even'
<1> DEFINE x  == req[q]
           pc == IF x.op = "customer" THEN "link" ELSE "record"
<1>1. /\ Same(x, req'[q])
      /\ req'[q].pc = pc /\ req'[q].sub = Len(subs) + 1
      /\ Len(subs)' = Len(subs) + 1 /\ Len(subs) \in Nat
      /\ \A m \in 1..Len(subs) : subs'[m] = subs[m]
      /\ subs'[Len(subs) + 1].items = items
  BY MadeKeeps
<1>2. req'[q].wrote = TRUE /\ Alone(q)
  <2>1. x \in ActiveRequest
    BY AtFits DEF At
  <2>2. req'[q] = WithSub(x, Len(subs) + 1, pc) /\ Alone(q)
    BY DEF MakeSubscription, WithSub, Alone, BillingInv, RequestsFit
  <2> HIDE DEF pc
  <2> QED BY <2>1, <2>2 DEF WithSub, ActiveRequest
<1>3. ~Making(req[q]) /\ (\A k \in Paid : ~Inserts(req[q], k)) /\ Making(req[q])'
  BY <1>1 DEF Making, Inserts
<1>4. Keeping
  <2>1. Len(subs) + 1 \in Nat
    BY <1>1
  <2> QED BY <1>1, <2>1 DEF Keeping, Usable
<1>5. /\ req'[q].sub > Len(subs) /\ req'[q].sub # account'.sub
      /\ \A m \in 1..Len(subs)' : m > Len(subs) => m = req'[q].sub
  <2>1. account.sub \in Nat /\ account.sub <= Len(subs)
    BY DEF BillingInv, TablesFit, Account
  <2> QED BY <1>1, <2>1
<1>6. \A k \in Paid : items[k].qty <= Due(k) => items[k].qty <= Due(k)'
  <2>1. \A k \in Paid : items[k].qty \in Nat
    BY DEF Item, Paid
  <2>2. DueStays
    BY <1>2, <1>3, DueKept
  <2> QED BY <2>1, <2>2 DEF DueStays
<1>7. Shares(req[q])'
  <2>1. subs'[req'[q].sub].items = items
    BY <1>1
  <2> QED BY <1>1, <1>2, <1>5, <1>6, <2>1 DEF Shares, Making, Bounded, Same
<1>8. ~account'.open => account'.sub = 0
  BY DEF Even
<1> QED BY <1>2, <1>3, <1>4, <1>5, <1>7, <1>8, EvenStand

LEMMA ManyEven ==
  ASSUME BillingInv, Growing, Even, NEW q \in Requests, clean',
         Subscribe(q) \/ BulkSubscribe(q) \/ PricesUnreadable(q) \/ SubscribeCounted(q)
  PROVE  Even'
<1> DEFINE x == req[q]
<1>1. PICK pc \in {"subscribe", "bulk", "payment"} : At(q, pc)
  BY DEF Subscribe, BulkSubscribe, PricesUnreadable, SubscribeCounted
<1>2. /\ x.pc = pc /\ Fits(x, Len(subs)) /\ Stage(x.op, pc) /\ x.items \in [Skus -> Item] /\ Shares(x)
      /\ x.op \in {"info", "customer", "create", "subscription", "cancel"}
  BY <1>1, GrowingAt DEF At, Even
<1>3. /\ pc = "bulk" => x.op = "customer"
      /\ pc = "payment" => x.op = "subscription" /\ \A k \in Paid : x.items[k].qty <= Due(k)
      /\ pc = "subscribe" => x.op = "create" /\ x.sku \in Skus
  BY <1>2 DEF Stage, Shares, Bounded, Fits
<1>4. UNCHANGED <<row, account>> /\ (~account'.open => account'.sub = 0)
  BY DEF Subscribe, BulkSubscribe, PricesUnreadable, SubscribeCounted, Even
<1>5. CASE MakeSubscription(q, NoItems) /\ x.pc = "bulk"
  <2>1. \A k \in Paid : NoItems[k].qty = 0
    BY DEF NoItems, Paid
  <2> QED BY <1>2, <1>3, <1>4, <1>5, <2>1, NoItemsFit, MadeEven
<1>6. CASE MakeSubscription(q, x.items) /\ x.pc = "payment"
  BY <1>2, <1>3, <1>4, <1>6, MadeEven
<1>7. CASE MakeSubscription(q, Only(x.sku)) /\ x.pc = "subscribe"
  <2>1. \A k \in Paid : Only(x.sku)[k].qty <= IF k = x.sku THEN 1 ELSE 0
    BY <1>2, <1>3, <1>7 DEF Only, NoItems, Paid
  <2>2. Only(x.sku) \in [Skus -> Item]
    BY <1>2, <1>3, <1>7, OnlyFits
  <2> QED BY <1>2, <1>3, <1>4, <1>7, <2>1, <2>2, MadeEven
<1>8. CASE Fail(q) /\ UNCHANGED subs
  BY <1>4, <1>8, EvenOver
<1> QED BY <1>5, <1>6, <1>7, <1>8 DEF Subscribe, BulkSubscribe, PricesUnreadable, SubscribeCounted, At

LEMMA ScheduleEven ==
  ASSUME BillingInv, Growing, Even, NEW q \in Requests, CancelAtPeriodEnd(q), clean'
  PROVE  Even'
<1> DEFINE x == req[q]
<1>1. /\ Fits(x, Len(subs)) /\ x.pc = "schedule" /\ x.sub \in Nat /\ x.sub <= Len(subs)
  BY GrowingAt DEF CancelAtPeriodEnd, At
<1>2. x.sub # 0 /\ x.sub \in 1..Len(subs)
  BY <1>1, OwnSubscription DEF Fits
<1>3. UNCHANGED <<row, account>> /\ (~account'.open => account'.sub = 0)
  BY DEF CancelAtPeriodEnd, Even
<1>4. CASE Usable(x.sub) /\ Wrote(q, "touch") /\ subs' = [subs EXCEPT ![x.sub].status = "ending"]
  <2>1. Keeping /\ \A m \in 1..Len(subs)' : ~(m > Len(subs))
    BY <1>2, <1>4, StatusKeeps
  <2>2. req'[q].pc = "touch"
    BY <1>1, <1>4, GoKeeps DEF Pcs
  <2>3. Alone(q)
    BY <1>4 DEF Wrote, Alone, BillingInv, RequestsFit
  <2>4. Shares(req[q])' /\ ~Making(req[q])' /\ ~Making(req[q]) /\ \A k \in Paid : ~Inserts(req[q], k)
    BY <1>1, <2>2 DEF Shares, Making, Inserts
  <2> QED BY <1>3, <2>1, <2>3, <2>4, EvenStand
<1>5. CASE Fail(q) /\ UNCHANGED subs
  BY <1>3, <1>5, EvenOver
<1> QED BY <1>4, <1>5 DEF CancelAtPeriodEnd

LEMMA CallFailsEven ==
  ASSUME BillingInv, Growing, Even, NEW q \in Requests, CallFails(q), clean'
  PROVE  Even'
<1> DEFINE x == req[q]
<1>1. /\ x.pc # "idle" /\ Shares(x)
      /\ x.op \in {"info", "customer", "create", "subscription", "cancel"}
  BY GrowingAt DEF CallFails, Even
<1>2. UNCHANGED <<row, account, subs>> /\ (~account'.open => account'.sub = 0)
  BY DEF CallFails, Even
<1>3. CASE (At(q, "count") \/ At(q, "bulk")) /\ x.op = "customer" /\ Goto(q, "link")
  <2>1. x.sub = 0 /\ req'[q].pc = "link" /\ req'[q].sub = x.sub
    BY <1>1, <1>3, GoKeeps DEF Pcs, At, Shares
  <2>2. Alone(q)
    BY <1>3 DEF Goto, Alone, BillingInv, RequestsFit
  <2>3. Shares(req[q])' /\ ~Making(req[q]) /\ \A k \in Paid : ~Inserts(req[q], k)
    BY <1>3, <2>1 DEF Shares, Making, Inserts, At
  <2> QED BY <1>2, <2>1, <2>2, <2>3, SubsKept, EvenStand
<1>4. CASE Fail(q)
  BY <1>2, <1>4, EvenOver
<1> QED BY <1>1, <1>3, <1>4 DEF CallFails, Tolerant
-----------------------------------------------------------------------------
(* Steps of no request, and of all.                                          *)
LEMMA SameEven ==
  ASSUME BillingInv, Growing, Even, NEW q \in Requests, UNCHANGED <<row, account, req>>, Keeping,
         \A m \in 1..Len(subs)' : ~(m > Len(subs))
  PROVE  Even'
<1>1. Alone(q) /\ req'[q] = req[q] /\ Handed(q) /\ (~account'.open => account'.sub = 0)
  BY DEF Alone, Handed, Even
<1>2. DueStays
  BY <1>1, DueKept
<1> QED BY <1>1, <1>2, KeepingHolds, OwnBoundedStays, EvenStep

\* A crash leaves no charge behind when no request had written.
LEMMA CrashEven ==
  ASSUME BillingInv, Growing, Even, Crash, clean'
  PROVE  Even'
<1>1. /\ UNCHANGED <<row, account, subs>> /\ \A q \in Requests : req'[q] = IdleRequest
      /\ \A q \in Requests : req[q].pc # "idle" => req[q].wrote # TRUE
  BY DEF Crash
<1>2. \A q \in Requests : req'[q].pc = "idle"
  BY <1>1 DEF IdleRequest
<1>3. \A q \in Requests : Making(req[q]) => req[q].sub = 0
  BY <1>1 DEF Even, Shares, Making
<1>4. DueStays
  <2> SUFFICES ASSUME NEW k \in Paid PROVE Due(k) \in Nat /\ Due(k)' \in Nat /\ Due(k) <= Due(k)'
    BY DEF DueStays
  <2>1. Placing(k) = {} /\ Placing(k)' = {}
    BY <1>1, <1>2 DEF Placing, Inserts, Even, Shares, Paid
  <2>2. Rows(k) \in Nat /\ Rows(k)' = Rows(k)
    BY <1>1, RowsCount, RowsSame
  <2>3. Cardinality(Placing(k)) = 0 /\ Cardinality(Placing(k)') = 0
    BY <2>1, FS_EmptySet
  <2>4. Due(k) = Rows(k) + Cardinality(Placing(k)) /\ Due(k)' = Rows(k)' + Cardinality(Placing(k)')
    BY DEF Due
  <2> QED BY <2>2, <2>3, <2>4
<1>5. OwnBounded'
  BY <1>1, <1>4, SubsKept, OwnBoundedStays
<1>6. (\A q \in Requests : Shares(req[q])') /\ MadeApart'
  BY <1>2 DEF Shares, Making, MadeApart
<1>7. NoneElse'
  <2> SUFFICES ASSUME NEW n \in 1..Len(subs), Usable(n), n # account.sub
               PROVE  \A k \in Paid : subs[n].items[k].qty = 0
    BY <1>1 DEF NoneElse, Usable
  <2>1. \A q \in Requests : Making(req[q]) => n # req[q].sub
    BY <1>3
  <2> QED BY <2>1 DEF Even, NoneElse
<1> QED BY <1>1, <1>5, <1>6, <1>7 DEF Even

LEMMA GrowingSteps ==
  ASSUME BillingInv, Growing, NEW q \in Requests
  PROVE  /\ ~ReadRow(q) /\ ~SaveResource(q) /\ ~ClearSubscription(q) /\ ~EraseResource(q)
         /\ ~CloseAccount(q) /\ ~DropProject(q) /\ ~Discharge(q) /\ ~CancelNow(q)
<1>1. req[q].pc \notin {"read", "save", "clear", "erase", "close", "drop", "discharge", "cancel"}
  BY GrowingAt DEF Stage
<1> QED BY <1>1 DEF At, ReadRow, SaveResource, ClearSubscription, EraseResource, CloseAccount,
           DropProject, Discharge, CancelNow

LEMMA NextJoint ==
  ASSUME BillingInv, Joint, [Next]_vars
  PROVE  Joint'
<1> SUFFICES ASSUME Growing, clean', NEW p \in Requests PROVE Even'
  BY DEF Joint, Growing
<1>1. Even
  BY CleanBefore DEF Joint
<1>2. ASSUME NEW q \in Requests, Begin(q) PROVE Even'
  BY <1>1, <1>2, BeginEven
<1>3. ASSUME NEW q \in Requests, DbStep(q) PROVE Even'
  BY <1>1, <1>3, GrowingSteps, AccountsEven, RecordEven, InsertEven, CountEven, LinkEven, TouchEven
     DEF DbStep
<1>4. ASSUME NEW q \in Requests, StripeStep(q) PROVE Even'
  BY <1>1, <1>4, GrowingSteps, FetchEven, ChargeEven, NewCustomerEven, ManyEven, ScheduleEven
     DEF StripeStep
<1>5. ASSUME NEW q \in Requests, CallFails(q) PROVE Even'
  BY <1>1, <1>5, CallFailsEven
<1>6. ASSUME NEW n \in 1..Len(subs), SubscriptionEnds(n) PROVE Even'
  <2>1. Keeping /\ \A m \in 1..Len(subs)' : ~(m > Len(subs))
    BY <1>6, StatusKeeps DEF SubscriptionEnds
  <2>2. UNCHANGED <<row, account, req>>
    BY <1>6 DEF SubscriptionEnds
  <2> QED BY <1>1, <2>1, <2>2, SameEven
<1>7. CASE Crash
  BY <1>1, <1>7, CrashEven
<1>8. CASE UNCHANGED vars
  <2>1. UNCHANGED <<row, account, subs, req>>
    BY <1>8 DEF vars
  <2> QED BY <1>1, <2>1, SubsKept, SameEven
<1> QED BY <1>2, <1>3, <1>4, <1>5, <1>6, <1>7, <1>8 DEF Next

LEMMA InitJoint == Init => Joint
<1> SUFFICES ASSUME Init PROVE Even
  BY DEF Joint
<1>1. account.sub = 0 /\ subs = <<>> /\ \A q \in Requests : req[q].pc = "idle"
  BY DEF Init, IdleRequest, NoAccount
<1> QED BY <1>1 DEF Even, OwnBounded, MadeApart, NoneElse, Shares, Making

\* A project never pays for more resources of a tier than it has, unless a
\* request has gone wrong after a Stripe call, an update has named the tier its
\* resource already had, a second subscription has been asked for, or a request
\* has written between the calls of another.  Where requests take nothing off
\* the bill they may interleave as they like: of two charges computed from one
\* reading the later overwrites the other, so that the bill falls behind the rows
\* and never runs ahead of them (resource_service.go, billing_service.go).
THEOREM BilledForNoMore == Spec => []NotOvercharged
<1>1. BillingInv /\ Ledger /\ Joint /\ Unserved => NotOvercharged
  <2> SUFFICES ASSUME BillingInv, Ledger, Joint, Unserved, Quiet, clean, apart \/ Growing, NEW k \in Paid
               PROVE  Billed(k) <= Rows(k)
    BY DEF NotOvercharged
  <2>1. Rows(k) \in Nat
    BY RowsCount
  <2>2. /\ account.sub # 0 /\ Usable(account.sub) => subs[account.sub].items[k].qty <= Rows(k)
        /\ \A n \in 1..Len(subs) : Usable(n) /\ n # account.sub => subs[n].items[k].qty = 0
    <3>1. CASE Requests = {}
      BY <3>1 DEF Unserved, NoAccount
    <3>2. ASSUME NEW q \in Requests, apart
          PROVE  /\ account.sub # 0 /\ Usable(account.sub) => subs[account.sub].items[k].qty <= Rows(k)
                 /\ \A n \in 1..Len(subs) : Usable(n) /\ n # account.sub => subs[n].items[k].qty = 0
      BY <3>2, QuietLevel
    <3>3. CASE Requests # {} /\ Growing
      <4>1. Placing(k) = {} /\ \A q \in Requests : ~Making(req[q])
        BY DEF Quiet, Placing, Inserts, Making
      <4>2. Due(k) = Rows(k)
        BY <2>1, <4>1, FS_EmptySet DEF Due
      <4> QED BY <3>3, <4>1, <4>2 DEF Joint, Even, OwnBounded, Bounded, NoneElse
    <3> QED BY <3>1, <3>2, <3>3
  <2>3. Billed(k) = IF account.sub # 0 /\ Usable(account.sub) THEN subs[account.sub].items[k].qty ELSE 0
    BY <2>2, BilledOwn
  <2> QED BY <2>1, <2>2, <2>3
<1>2. BillingInv /\ Joint /\ [Next]_vars => Joint'
  BY NextJoint
<1> QED BY <1>1, <1>2, InitJoint, LedgerAlways, UnservedAlways, PTL DEF Spec
=============================================================================
