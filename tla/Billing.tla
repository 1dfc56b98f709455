------------------------------- MODULE Billing -------------------------------
(***************************************************************************)
(* The bill of one project: the rows of resources and billing_accounts in  *)
(* PostgreSQL against the subscriptions in Stripe, which no transaction    *)
(* joins.  A request reads the account, reads the subscription, writes     *)
(* Stripe and then writes the database, one call at a time, with values it *)
(* read earlier; any call may fail and any request may stop half way.      *)
(*                                                                         *)
(* A step is one SQL statement or one call of the Stripe API.  Stripe is   *)
(* external and modelled from how internal/service uses it: a subscription *)
(* has at most one item for a price, items are updated and deleted by item *)
(* id, and a cancelled subscription refuses every change.  Every tier but  *)
(* Free has a price; prices and tiers correspond one to one.               *)
(***************************************************************************)
EXTENDS Integers, Sequences, FiniteSets

CONSTANTS
  Resources,     \* resource ids
  Skus,          \* tiers
  Free,          \* the tier "free"
  Gone,          \* marks a resource id that has no row
  Null,          \* SQL NULL, and a field that a request leaves out
  Requests,      \* requests served at the same time (bound)
  Ops,           \* the operations that clients ask for
  MaxRequests,   \* bound on requests
  MaxFaults      \* bound on failed calls, crashes and lapsed subscriptions

ASSUME SkusAssumption == Free \in Skus /\ Null \notin Skus

ASSUME ResourcesAssumption == IsFiniteSet(Resources)

ASSUME RequestsAssumption == IsFiniteSet(Requests)

ASSUME BoundsAssumption ==
  /\ MaxRequests \in Nat /\ MaxFaults \in Nat
  /\ Ops \subseteq {"create", "update", "delete", "deleteProject",
                    "info", "customer", "subscription", "cancel"}

VARIABLES
  project,    \* the row of projects is there
  row,        \* row[r]: sku and stripe_price_id of the resource, or Gone
  account,    \* the row of billing_accounts; 0 stands for NULL
  priced,     \* the tiers config.Stripe.Products has a price for
  subs,       \* the subscriptions made in Stripe so far
  req,        \* the requests being served
  customers,  \* Stripe customers made so far
  started,    \* requests so far
  faults,     \* faults so far
  clean,      \* nothing has happened so far that may leave a charge behind
  apart       \* no call that writes has fallen between those of another request

vars == <<project, row, account, priced, subs, req, customers, started, faults, clean, apart>>

Paid == Skus \ {Free}

\* gen tells an item from one for the same price that was there before it.
Item    == [gen : Nat, qty : Nat]
NoItems == [k \in Skus |-> [gen |-> 0, qty |-> 0]]
Only(k) == [NoItems EXCEPT ![k].qty = 1]

Row          == [sku : Skus, price : Skus \cup {Null}]
Account      == [open : BOOLEAN, customer : Nat, sub : Nat]
NoAccount    == [open |-> FALSE, customer |-> 0, sub |-> 0]
Subscription == [customer : Nat, status : {"active", "ending", "canceled"},
                 items : [Skus -> Item]]

ASSUME GoneAssumption == Gone \notin Row

Pcs == {"read", "account", "open", "fetch", "subscribe", "record", "discharge", "charge", "insert",
        "save", "cancel", "clear", "erase", "close", "drop", "customer", "count", "bulk", "link",
        "payment", "schedule", "touch"}

IdleRequest == [pc |-> "idle"]

ActiveRequest ==
  [pc : Pcs, op : Ops, res : Resources \cup {Null}, sku : Skus \cup {Null},
   row : Row \cup {Null}, customer : Nat, sub : Nat, items : [Skus -> Item], wrote : BOOLEAN]

TypeOK ==
  /\ project \in BOOLEAN
  /\ row \in [Resources -> Row \cup {Gone}]
  /\ account \in Account
  /\ priced \in SUBSET Skus
  /\ subs \in Seq(Subscription)
  /\ req \in [Requests -> {IdleRequest} \cup ActiveRequest]
  /\ customers \in Nat /\ started \in 0..MaxRequests /\ faults \in 0..MaxFaults
  /\ clean \in BOOLEAN /\ apart \in BOOLEAN

\* A new project: no billing account is made for it, and whether the free
\* tier is a Stripe product is up to the configuration.
Init ==
  /\ project = TRUE
  /\ row = [r \in Resources |-> Gone]
  /\ account = NoAccount
  /\ priced \in {Paid, Skus}
  /\ subs = <<>>
  /\ req = [q \in Requests |-> IdleRequest]
  /\ customers = 0 /\ started = 0 /\ faults = 0
  /\ clean = TRUE /\ apart = TRUE

Here(r)   == row[r] # Gone
Usable(n) == subs[n].status # "canceled"
Current   == account.sub # 0 /\ Usable(account.sub)   \* a subscription to lose sight of

-----------------------------------------------------------------------------
(* Requests.                                                               *)

Request(op, r, k, pc) ==
  [pc |-> pc, op |-> op, res |-> r, sku |-> k, row |-> Null,
   customer |-> 0, sub |-> 0, items |-> NoItems, wrote |-> FALSE]

Start(q, rec) ==
  /\ req[q].pc = "idle"
  /\ started < MaxRequests
  /\ started' = started + 1
  /\ req' = [req EXCEPT ![q] = rec]
  /\ UNCHANGED <<project, row, account, priced, subs, customers, faults, clean>>

\* CreateResource: a free resource is inserted at once.
StartCreate(q, r, k) ==
  "create" \in Ops /\ Start(q, Request("create", r, k, IF k = Free THEN "insert" ELSE "account"))

\* UpdateResource; k is Null when the request names no tier.
StartUpdate(q, r, k) == "update" \in Ops /\ Start(q, Request("update", r, k, "read"))

StartDelete(q, r) == "delete" \in Ops /\ Start(q, Request("delete", r, Null, "read"))

\* DeleteProject, CreateStripeCustomer, CreateStripeSubscription,
\* CancelSubscription, and GetBillingInfo for all that do no more than open the
\* account (the portal and the set-up intent among them).
StartOther(q, op) ==
  /\ op \in Ops \ {"create", "update", "delete"}
  /\ Start(q, Request(op, Null, Null, IF op = "customer" THEN "customer" ELSE "account"))

At(q, pc)   == req[q].pc = pc
Goto(q, pc) == req' = [req EXCEPT ![q].pc = pc]
Wrote(q, pc) == req' = [req EXCEPT ![q].pc = pc, ![q].wrote = TRUE]
Leave(q)    == req' = [req EXCEPT ![q] = IdleRequest]

\* An error is returned, whatever the request has already done in Stripe.
Fail(q) == Leave(q) /\ clean' = (clean /\ ~req[q].wrote)

\* DeleteResource and DeleteProject log a failed call and go on.
Tolerant(q) == req[q].op \in {"delete", "deleteProject"}
SkipTo(q)   == IF req[q].op = "delete" THEN "erase" ELSE "drop"

\* The calls that write a row, the account or a subscription.
Writes(q) ==
  req[q].pc \in {"open", "subscribe", "record", "discharge", "charge", "insert", "save", "cancel",
                 "clear", "erase", "close", "drop", "bulk", "link", "payment", "schedule"}

\* The request has read nothing yet of what others may write.
Unread(q) ==
  \/ req[q].pc \in {"idle", "read", "customer"}
  \/ At(q, "account") /\ ~(req[q].op \in {"update", "delete"})
  \/ At(q, "count") /\ req[q].op = "customer"
  \/ At(q, "insert") /\ req[q].sku = Free

\* Whether a call of q falls between those of another, for the properties.
Separate(q) == apart' = (apart /\ (Writes(q) => \A o \in Requests \ {q} : Unread(o)))

db     == <<project, row, account>>
stripe == <<subs, customers>>
rest   == <<priced, started>>

-----------------------------------------------------------------------------
(* The database.                                                           *)

\* GetResourceByID, for the values an update or a delete goes on with.
ReadRow(q) ==
  /\ At(q, "read")
  /\ LET r == row[req[q].res]
         k == req[q].sku
     IN  \/ /\ r = Gone
            /\ Fail(q)
         \/ /\ r # Gone /\ req[q].op = "update"
            /\ req' = [req EXCEPT ![q].row = r,
                                  ![q].pc = IF k \in {Null, r.sku} THEN "save" ELSE "account"]
            /\ UNCHANGED clean
         \/ /\ r # Gone /\ req[q].op = "delete"
            /\ req' = [req EXCEPT ![q].row = r,
                                  ![q].pc = IF r.sku # Free /\ r.price # Null
                                            THEN "account" ELSE "erase"]
            /\ UNCHANGED clean
  /\ UNCHANGED <<db, stripe, rest, faults>>

\* Where a request goes once it has the account.
AfterAccount(q, a) ==
  CASE req[q].op = "create" ->
         IF a.customer = 0 \/ req[q].sku \notin priced THEN "fail"
         ELSE IF a.sub = 0 THEN "subscribe" ELSE "fetch"
    [] req[q].op = "update" ->
         IF a.customer = 0 \/ a.sub = 0 \/ req[q].sku \notin priced THEN "fail" ELSE "fetch"
    [] req[q].op = "delete"        -> IF a.sub = 0 THEN "erase" ELSE "fetch"
    [] req[q].op = "deleteProject" -> IF a.sub = 0 THEN "close" ELSE "cancel"
    [] req[q].op = "subscription"  -> IF a.customer = 0 THEN "fail" ELSE "count"
    [] req[q].op = "cancel"        -> IF a.sub = 0 THEN "fail" ELSE "schedule"
    [] req[q].op = "info"          -> "fail"   \* answered; nothing else changes

TakeAccount(q, a) ==
  IF AfterAccount(q, a) = "fail" THEN Fail(q)
  ELSE /\ req' = [req EXCEPT ![q].customer = a.customer, ![q].sub = a.sub,
                             ![q].pc = AfterAccount(q, a)]
       /\ UNCHANGED clean

\* GetBillingAccount: SELECT, and INSERT when there is no row.
GetAccount(q) ==
  /\ At(q, "account")
  /\ IF account.open THEN TakeAccount(q, account) ELSE Goto(q, "open") /\ UNCHANGED clean
  /\ UNCHANGED <<db, stripe, rest, faults>>

\* The INSERT runs into the unique key when another request was faster.
OpenAccount(q) ==
  /\ At(q, "open")
  /\ \/ /\ account.open
        /\ IF Tolerant(q) THEN Goto(q, SkipTo(q)) /\ UNCHANGED clean ELSE Fail(q)
        /\ UNCHANGED account
     \/ /\ ~account.open
        /\ account' = [NoAccount EXCEPT !.open = TRUE]
        /\ TakeAccount(q, account')
  /\ UNCHANGED <<project, row, stripe, rest, faults>>

\* Mutant: the subscription's first item is charged once more.
RecordAndCharge(q) ==
  /\ At(q, "record")
  /\ account.open
  /\ account' = [account EXCEPT !.sub = req[q].sub]
  /\ IF req[q].op = "create" THEN Goto(q, "fetch") ELSE Leave(q)
  /\ clean' = (clean /\ ~Current)
  /\ UNCHANGED <<project, row, stripe, rest, faults>>

\* UPDATE billing_accounts SET stripe_subscription_id to the one just made.
RecordSubscription(q) ==
  /\ At(q, "record")
  /\ \/ /\ ~account.open
        /\ Fail(q)
        /\ UNCHANGED account
     \/ /\ account.open
        /\ account' = [account EXCEPT !.sub = req[q].sub]
        /\ IF req[q].op = "create" THEN Goto(q, "insert") ELSE Leave(q)
        /\ clean' = (clean /\ ~Current)
  /\ UNCHANGED <<project, row, stripe, rest, faults>>

\* INSERT the resource: its id must be free and its project there.
InsertResource(q) ==
  /\ At(q, "insert")
  /\ \/ /\ project /\ ~Here(req[q].res)
        /\ row' = [row EXCEPT ![req[q].res] =
                     [sku |-> req[q].sku, price |-> IF req[q].sku = Free THEN Null ELSE req[q].sku]]
        /\ Leave(q)
        /\ UNCHANGED clean
     \/ /\ ~project \/ Here(req[q].res)
        /\ Fail(q)
        /\ UNCHANGED row
  /\ UNCHANGED <<project, account, stripe, rest, faults>>

\* The price an update writes: the row's own when no tier is named, else that
\* of the new tier, which stays NULL when the tier named is the row's own.
NewPrice(q) == IF req[q].sku = Null THEN req[q].row.price
               ELSE IF req[q].sku = req[q].row.sku THEN Null ELSE req[q].sku

\* Mutant: the tier is written although the request names none.
SaveGivenSku(q) ==
  /\ At(q, "save") /\ Here(req[q].res)
  /\ row' = [row EXCEPT ![req[q].res] = [sku |-> req[q].sku, price |-> NewPrice(q)]]
  /\ Leave(q)
  /\ UNCHANGED <<project, account, stripe, rest, faults, clean>>

\* UPDATE resources.  A row that has gone meanwhile is not an error of the
\* statement, but the read that follows finds nothing.
SaveResource(q) ==
  /\ At(q, "save")
  /\ \/ /\ Here(req[q].res)
        /\ row' = [row EXCEPT ![req[q].res] =
                     [sku |-> IF req[q].sku = Null THEN req[q].row.sku ELSE req[q].sku,
                      price |-> NewPrice(q)]]
        /\ clean' = (clean /\ (NewPrice(q) = Null => req[q].row.price = Null))
        /\ Leave(q)
     \/ /\ ~Here(req[q].res)
        /\ Fail(q)
        /\ UNCHANGED row
  /\ UNCHANGED <<project, account, stripe, rest, faults>>

\* UPDATE billing_accounts SET stripe_subscription_id = NULL.
ClearSubscription(q) ==
  /\ At(q, "clear")
  /\ account' = [account EXCEPT !.sub = 0]
  /\ Goto(q, "erase")
  /\ UNCHANGED <<project, row, stripe, rest, faults, clean>>

\* DELETE FROM resources.
EraseResource(q) ==
  /\ At(q, "erase")
  /\ row' = [row EXCEPT ![req[q].res] = Gone]
  /\ Leave(q)
  /\ UNCHANGED <<project, account, stripe, rest, faults, clean>>

\* DELETE FROM billing_accounts, by DeleteProject.
CloseAccount(q) ==
  /\ At(q, "close")
  /\ account' = NoAccount
  /\ Goto(q, "drop")
  /\ UNCHANGED <<project, row, stripe, rest, faults, clean>>

\* DELETE FROM projects; the resources cascade.
DropProject(q) ==
  /\ At(q, "drop")
  /\ project' = FALSE
  /\ row' = [r \in Resources |-> Gone]
  /\ Leave(q)
  /\ UNCHANGED <<account, stripe, rest, faults, clean>>

\* getResourceCounts: rows of each tier.
Rows(k)  == Cardinality({r \in Resources : Here(r) /\ row[r].sku = k})
Counts   == [k \in Skus |-> [gen |-> 0, qty |-> Rows(k)]]
Tiers(items) == {k \in Skus : items[k].qty > 0}

\* CreateStripeSubscription refuses a tier without a price, and no items.
CountResources(q) ==
  /\ At(q, "count")
  /\ \/ /\ req[q].op = "customer"
        /\ req' = [req EXCEPT ![q].items = Counts,
                              ![q].pc = IF Tiers(Counts) = {} THEN "link" ELSE "bulk"]
        /\ UNCHANGED clean
     \/ /\ req[q].op = "subscription"
        /\ IF Tiers(Counts) # {} /\ Tiers(Counts) \subseteq priced
           THEN /\ req' = [req EXCEPT ![q].items = Counts, ![q].pc = "payment"]
                /\ UNCHANGED clean
           ELSE Fail(q)
  /\ UNCHANGED <<db, stripe, rest, faults>>

\* Mutant: without a new subscription the old one stays.
LinkKeepingSubscription(q) ==
  /\ At(q, "link") /\ account.open
  /\ account' = [account EXCEPT !.customer = req[q].customer,
                                !.sub = IF req[q].sub = 0 THEN @ ELSE req[q].sub]
  /\ Leave(q)
  /\ UNCHANGED <<project, row, stripe, rest, faults, clean>>

\* UPDATE billing_accounts with the new customer and its subscription, or NULL.
LinkCustomer(q) ==
  /\ At(q, "link")
  /\ \/ /\ account.open
        /\ account' = [account EXCEPT !.customer = req[q].customer, !.sub = req[q].sub]
        /\ Leave(q)
        /\ clean' = (clean /\ ~Current)
     \/ /\ ~account.open
        /\ Fail(q)
        /\ UNCHANGED account
  /\ UNCHANGED <<project, row, stripe, rest, faults>>

\* CancelSubscription ends with an UPDATE of updated_at.
TouchAccount(q) ==
  /\ At(q, "touch")
  /\ IF account.open THEN Leave(q) /\ UNCHANGED clean ELSE Fail(q)
  /\ UNCHANGED <<db, stripe, rest, faults>>

-----------------------------------------------------------------------------
(* Stripe.                                                                 *)

MakeSubscription(q, items) ==
  /\ subs' = Append(subs, [customer |-> req[q].customer, status |-> "active", items |-> items])
  /\ req' = [req EXCEPT ![q].sub = Len(subs) + 1, ![q].wrote = TRUE,
                        ![q].pc = IF req[q].op = "customer" THEN "link" ELSE "record"]

\* subscription.Get.  CreateResource makes a new subscription when this one is
\* no longer usable; UpdateResource does not look at the status; DeleteResource
\* takes a subscription with a single item to be the resource's own.
FetchSubscription(q) ==
  /\ At(q, "fetch")
  /\ LET items == subs[req[q].sub].items
     IN  req' = [req EXCEPT
                   ![q].items = items,
                   ![q].pc = CASE req[q].op = "create" ->
                                    IF Usable(req[q].sub) THEN "charge" ELSE "subscribe"
                               [] req[q].op = "update" -> "discharge"
                               [] req[q].op = "delete" ->
                                    IF Cardinality(Tiers(items)) = 1 THEN "cancel" ELSE "discharge"]
  /\ UNCHANGED <<db, stripe, rest, faults, clean>>

\* subscription.New with the resource as its first item.
Subscribe(q) ==
  /\ At(q, "subscribe")
  /\ MakeSubscription(q, Only(req[q].sku))
  /\ UNCHANGED <<db, customers, rest, faults, clean>>

\* An item is written by the id that was read, with the quantity computed from
\* the one that was read; one that was not there is added.
Read(q, k) == req[q].items[k]
Now(q, k)  == subs[req[q].sub].items[k]
Accepted(q, k) ==
  /\ Usable(req[q].sub)
  /\ IF Read(q, k).qty = 0 THEN Now(q, k).qty = 0
     ELSE Now(q, k).gen = Read(q, k).gen /\ Now(q, k).qty > 0

WriteItem(q, k, qty) ==
  subs' = [subs EXCEPT ![req[q].sub].items[k] =
             [gen |-> IF Read(q, k).qty = 0 THEN @.gen + 1 ELSE @.gen, qty |-> qty]]

\* Mutant: the item of the last resource of a tier is left on the subscription.
DischargeAboveOne(q) ==
  /\ At(q, "discharge")
  /\ LET k == req[q].row.price
     IN  IF req[q].row.sku # Free /\ k # Null /\ Read(q, k).qty > 1 /\ Accepted(q, k)
         THEN WriteItem(q, k, Read(q, k).qty - 1) ELSE UNCHANGED subs
  /\ Goto(q, IF req[q].op = "delete" THEN "erase"
             ELSE IF req[q].sku = Free THEN "save" ELSE "charge")
  /\ UNCHANGED <<db, customers, rest, faults, clean>>

\* Take one off the tier the row had, removing the item of the last one; a
\* tier that is not on the subscription is passed over.
Discharge(q) ==
  /\ At(q, "discharge")
  /\ LET k     == req[q].row.price
         on    == req[q].row.sku # Free /\ k # Null
         next  == IF req[q].op = "delete" THEN "erase"
                  ELSE IF req[q].sku = Free THEN "save" ELSE "charge"
     IN  \/ /\ on => Read(q, k).qty = 0
            /\ Goto(q, next)
            /\ UNCHANGED <<subs, clean>>
         \/ /\ on /\ Read(q, k).qty > 0 /\ Accepted(q, k)
            /\ WriteItem(q, k, Read(q, k).qty - 1)
            /\ Wrote(q, next)
            /\ UNCHANGED clean
         \/ /\ on /\ Read(q, k).qty > 0 /\ ~Accepted(q, k)
            /\ IF Tolerant(q) THEN Goto(q, next) /\ UNCHANGED clean ELSE Fail(q)
            /\ UNCHANGED subs
  /\ UNCHANGED <<db, customers, rest, faults>>

\* Mutant: the quantity is set to one.
ChargeOne(q) ==
  /\ At(q, "charge") /\ Accepted(q, req[q].sku)
  /\ WriteItem(q, req[q].sku, 1)
  /\ Wrote(q, IF req[q].op = "create" THEN "insert" ELSE "save")
  /\ UNCHANGED <<db, customers, rest, faults, clean>>

\* Mutant: a refused charge is logged and passed over.
ChargeTolerant(q) ==
  /\ At(q, "charge")
  /\ IF Accepted(q, req[q].sku) THEN WriteItem(q, req[q].sku, Read(q, req[q].sku).qty + 1)
     ELSE UNCHANGED subs
  /\ Wrote(q, IF req[q].op = "create" THEN "insert" ELSE "save")
  /\ UNCHANGED <<db, customers, rest, faults, clean>>

\* Put one on the tier asked for.
Charge(q) ==
  /\ At(q, "charge")
  /\ LET k == req[q].sku
     IN  \/ /\ Accepted(q, k)
            /\ WriteItem(q, k, Read(q, k).qty + 1)
            /\ Wrote(q, IF req[q].op = "create" THEN "insert" ELSE "save")
            /\ UNCHANGED clean
         \/ /\ ~Accepted(q, k)
            /\ Fail(q)
            /\ UNCHANGED subs
  /\ UNCHANGED <<db, customers, rest, faults>>

\* subscription.Cancel; one that is cancelled already is an error, logged.
CancelNow(q) ==
  /\ At(q, "cancel")
  /\ subs' = [subs EXCEPT ![req[q].sub].status = "canceled"]
  /\ Wrote(q, IF req[q].op = "delete" THEN "clear" ELSE "close")
  /\ UNCHANGED <<db, customers, rest, faults, clean>>

\* customer.New.
NewCustomer(q) ==
  /\ At(q, "customer")
  /\ customers' = customers + 1
  /\ req' = [req EXCEPT ![q].customer = customers + 1, ![q].pc = "count"]
  /\ UNCHANGED <<db, subs, rest, faults, clean>>

\* createSubscriptionWithResources.  Without a tier that has a price it makes
\* an empty subscription; with one it indexes the payment methods of the
\* customer just made, who has none, and panics.
BulkSubscribe(q) ==
  /\ At(q, "bulk")
  /\ \/ /\ Tiers(req[q].items) \cap priced = {}
        /\ MakeSubscription(q, NoItems)
        /\ UNCHANGED clean
     \/ /\ Tiers(req[q].items) \cap priced # {}
        /\ Fail(q)
        /\ UNCHANGED subs
  /\ UNCHANGED <<db, customers, rest, faults>>

\* No price of a counted tier can be read: every tier is passed over.
PricesUnreadable(q) ==
  /\ At(q, "bulk")
  /\ faults < MaxFaults
  /\ faults' = faults + 1
  /\ MakeSubscription(q, NoItems)
  /\ UNCHANGED <<db, customers, rest, clean>>

\* CreateStripeSubscription: subscription.New with an item for every tier
\* counted, or a panic when the customer has no payment method.
SubscribeCounted(q) ==
  /\ At(q, "payment")
  /\ \/ /\ MakeSubscription(q, req[q].items)
        /\ UNCHANGED clean
     \/ /\ Fail(q)
        /\ UNCHANGED subs
  /\ UNCHANGED <<db, customers, rest, faults>>

\* CancelSubscription: cancel_at_period_end.
CancelAtPeriodEnd(q) ==
  /\ At(q, "schedule")
  /\ \/ /\ Usable(req[q].sub)
        /\ subs' = [subs EXCEPT ![req[q].sub].status = "ending"]
        /\ Wrote(q, "touch")
        /\ UNCHANGED clean
     \/ /\ ~Usable(req[q].sub)
        /\ Fail(q)
        /\ UNCHANGED subs
  /\ UNCHANGED <<db, customers, rest, faults>>

\* Stripe ends a subscription: its last period is over, or it was never paid
\* (incomplete_expired, unpaid).
SubscriptionEnds(n) ==
  /\ Usable(n)
  /\ \/ subs[n].status = "ending" /\ UNCHANGED faults
     \/ subs[n].status = "active" /\ faults < MaxFaults /\ faults' = faults + 1
  /\ subs' = [subs EXCEPT ![n].status = "canceled"]
  /\ UNCHANGED <<db, rest, customers, req, clean>>

-----------------------------------------------------------------------------
(* Faults.                                                                 *)

\* Where a failed call that is only logged leads.
AfterFailure(q) ==
  CASE At(q, "cancel") /\ req[q].op = "delete"    -> "clear"
    [] At(q, "cancel") /\ req[q].op # "delete"    -> "close"
    [] At(q, "close")                             -> "drop"
    [] OTHER                                      -> SkipTo(q)

\* A call fails.  DeleteResource goes on whenever the subscription is out of
\* reach, DeleteProject whatever fails before the project's own DELETE, and
\* CreateStripeCustomer without counts or without a subscription.
CallFails(q) ==
  /\ req[q].pc # "idle"
  /\ faults < MaxFaults
  /\ faults' = faults + 1
  /\ \/ /\ Tolerant(q) /\ ~At(q, "read") /\ ~At(q, "erase") /\ ~At(q, "drop")
        /\ Goto(q, AfterFailure(q))
        /\ clean' = FALSE
     \/ /\ At(q, "count") \/ At(q, "bulk")
        /\ req[q].op = "customer"
        /\ Goto(q, "link")
        /\ UNCHANGED clean
     \/ /\ ~(Tolerant(q) /\ ~At(q, "read") /\ ~At(q, "erase") /\ ~At(q, "drop"))
        /\ ~(req[q].op = "customer" /\ (At(q, "count") \/ At(q, "bulk")))
        /\ Fail(q)
  /\ UNCHANGED <<db, stripe, rest>>

\* The process stops: every request it serves ends where it is.
Crash ==
  /\ \E q \in Requests : req[q].pc # "idle"
  /\ faults < MaxFaults
  /\ faults' = faults + 1
  /\ req' = [q \in Requests |-> IdleRequest]
  /\ clean' = (clean /\ \A q \in Requests : req[q].pc # "idle" => ~req[q].wrote)
  /\ UNCHANGED <<db, stripe, rest>>

-----------------------------------------------------------------------------

DbStep(q) ==
  \/ ReadRow(q) \/ GetAccount(q) \/ OpenAccount(q) \/ RecordSubscription(q) \/ InsertResource(q)
  \/ SaveResource(q) \/ ClearSubscription(q) \/ EraseResource(q) \/ CloseAccount(q)
  \/ DropProject(q) \/ CountResources(q) \/ LinkCustomer(q) \/ TouchAccount(q)

StripeStep(q) ==
  \/ FetchSubscription(q) \/ Subscribe(q) \/ Discharge(q) \/ Charge(q) \/ CancelNow(q)
  \/ NewCustomer(q) \/ BulkSubscribe(q) \/ PricesUnreadable(q) \/ SubscribeCounted(q)
  \/ CancelAtPeriodEnd(q)

Begin(q) ==
  \/ \E r \in Resources, k \in Skus : StartCreate(q, r, k)
  \/ \E r \in Resources, k \in Skus \cup {Null} : StartUpdate(q, r, k)
  \/ \E r \in Resources : StartDelete(q, r)
  \/ \E op \in Ops : StartOther(q, op)

Next ==
  \/ \E q \in Requests : Separate(q) /\ (Begin(q) \/ DbStep(q) \/ StripeStep(q) \/ CallFails(q))
  \/ UNCHANGED apart /\ (Crash \/ \E n \in 1..Len(subs) : SubscriptionEnds(n))

Spec == Init /\ [][Next]_vars

-----------------------------------------------------------------------------
(* Properties.                                                             *)

Quiet == \A q \in Requests : req[q].pc = "idle"

\* What Stripe charges for tier k: a charge is a subscription not cancelled and
\* one of the quantity of its item.
Charges(k) == UNION {{n} \X (1..subs[n].items[k].qty) : n \in {m \in 1..Len(subs) : Usable(m)}}
Billed(k)  == Cardinality(Charges(k))

\* Nothing is asked for that takes anything off the bill of a resource.
Growing == Ops \subseteq {"info", "customer", "create", "subscription", "cancel"}

\* No project pays for more resources of a tier than it has, as long as no
\* request has gone wrong after a Stripe call, no update has named the tier its
\* resource already had, no second subscription has been asked for, and no call
\* that writes has fallen between those of another request, which creations and
\* all that Growing names may do freely: whatever is created, moved between
\* tiers, deleted or cancelled, and in whatever order.
NotOvercharged == Quiet /\ clean /\ (apart \/ Growing) => \A k \in Paid : Billed(k) <= Rows(k)

\* Under the same conditions, and until a first subscription ends, the
\* account's subscription charges for exactly the resources there are.
BillExact ==
  Quiet /\ clean /\ apart /\ (\A n \in 1..Len(subs) : Usable(n)) =>
    \A k \in Paid : Rows(k) = IF account.sub = 0 THEN 0 ELSE subs[account.sub].items[k].qty

\* The subscription of an account is one of the account's own customer,
\* whatever request replaced either of them and however it failed, as long as
\* no call that writes fell between those of another request.
SubscriptionOfCustomer ==
  apart /\ account.sub # 0 => /\ account.sub <= Len(subs)
                              /\ subs[account.sub].customer = account.customer

\* Up to the first call that falls between those of another request, that call
\* included, no resource comes to a paid tier, by CreateResource or
\* UpdateResource, that is not on the account's subscription by then, even when
\* calls fail.
ChargedFirst ==
  [][\A r \in Resources :
       apart /\ row'[r] # row[r] /\ row'[r] # Gone /\ row'[r].sku \in Paid
       /\ (Here(r) => row'[r].sku # row[r].sku)
       => account.sub # 0 /\ subs[account.sub].items[row'[r].sku].qty > 0]_vars

\* "Billing stops when the resource is fully terminated": by the time the last
\* resource of a tier is erased, the tier is not charged for.
BillingStops ==
  \A q \in Requests : \A k \in Paid :
    At(q, "erase") /\ Here(req[q].res) /\ row[req[q].res].sku = k /\ Rows(k) = 1 => Billed(k) = 0

\* "Base tier cost: Monthly subscription for the selected tier": every paid
\* resource is charged for.
EveryResourceBilled == Quiet => \A k \in Paid : Rows(k) <= Billed(k)
=============================================================================
