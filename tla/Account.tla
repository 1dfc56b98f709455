------------------------------- MODULE Account -------------------------------
(* BillingPage: what the server knows of the customer, the card and the       *)
(* subscription of a scope, shown as it was when it was last fetched; three   *)
(* operations behind one flag; and a subscription made without a click once   *)
(* billing has been set up.                                                   *)
EXTENDS Integers

CONSTANTS
  NoInfo,      \* billing information has not arrived
  Operations   \* places for operations under way (bound)

VARIABLES
  billingPage, \* "away" or "open"
  money,       \* the server: customer, card and subscription
  billingInfo, \* useBilling's data
  billingFetch, \* its request under way: who waits for the answer
  showSetupModal,
  pendingSubscriptionCheck,
  operations,  \* the operations under way, by place
  updating,
  alert        \* error is set

accountVars == <<billingPage, money, billingInfo, billingFetch, showSetupModal,
                 pendingSubscriptionCheck, operations, updating, alert>>
-----------------------------------------------------------------------------
\* A subscription of a customer with paid resources has items; it is made with
\* the customer, and incomplete until there is a card to charge.
Subscriptions == {"none", "incomplete", "active", "canceling"}
Money  == {m \in [customer : BOOLEAN, card : BOOLEAN, paid : BOOLEAN, subscription : Subscriptions] :
             (m.card => m.customer) /\ (m.subscription # "none" => m.customer /\ m.paid)}
NoMoney == [customer |-> FALSE, card |-> FALSE, paid |-> FALSE, subscription |-> "none"]
Idle   == [kind |-> "none", stage |-> "none"]
NoWait == [on |-> FALSE, waits |-> {}, setup |-> FALSE]

AccountInit ==
  /\ billingPage = "away" /\ money = NoMoney /\ billingInfo = NoInfo /\ billingFetch = NoWait
  /\ showSetupModal = FALSE /\ pendingSubscriptionCheck = FALSE
  /\ operations = [o \in Operations |-> Idle] /\ updating = FALSE /\ alert = FALSE

OpenBilling ==
  /\ billingPage = "away" /\ billingPage' = "open" /\ money' \in Money
  /\ billingFetch' = [NoWait EXCEPT !.on = TRUE]
  /\ UNCHANGED <<billingInfo, showSetupModal, pendingSubscriptionCheck, operations, updating, alert>>

LeaveBilling ==
  /\ billingPage # "away" /\ billingPage' = "away" /\ money' = NoMoney
  /\ billingInfo' = NoInfo /\ billingFetch' = NoWait
  /\ showSetupModal' = FALSE /\ pendingSubscriptionCheck' = FALSE
  /\ operations' = [o \in Operations |-> Idle] /\ updating' = FALSE /\ alert' = FALSE

OnBilling == billingPage = "open" /\ UNCHANGED billingPage
Ready     == billingInfo # NoInfo
IsSetUp   == Ready /\ billingInfo.customer /\ billingInfo.card

\* An operation begins in a free place and sets the flag.
Begin(kind) ==
  \E o \in Operations :
    /\ operations[o] = Idle
    /\ operations' = [operations EXCEPT ![o] = [kind |-> kind, stage |-> "request"]]
    /\ updating' = TRUE

\* Whether the effect makes a subscription, with billing just set up.
AutoCreate(info) ==
  info # NoInfo /\ info.customer /\ info.subscription = "incomplete"

\* Who waited for a fetch goes on, with what is known then: operations end and
\* clear the flag, which is everybody's; handleBillingSetupComplete asks for the
\* check, and the effect makes it as soon as there is information.
Resume(fetch, info, ops) ==
  LET check == fetch.setup \/ pendingSubscriptionCheck
      left  == [o \in Operations |-> IF o \in fetch.waits THEN Idle ELSE ops[o]]
  IN /\ pendingSubscriptionCheck' = (check /\ info = NoInfo)
     /\ IF check /\ AutoCreate(info)
        THEN \E o \in Operations :
               /\ left[o] = Idle
               /\ operations' = [left EXCEPT ![o] = [kind |-> "create", stage |-> "request"]]
               /\ updating' = TRUE
        ELSE /\ operations' = left
             /\ updating' = (updating /\ fetch.waits = {})

\* A refetch takes the place of one under way, if there is information already,
\* and who waited for that one goes on; else it joins it.
RefetchBilling(who, setup, ops) ==
  IF Ready THEN /\ billingFetch' = [on |-> TRUE, waits |-> who, setup |-> setup]
                /\ Resume(billingFetch, billingInfo, ops)
           ELSE /\ billingFetch' = [on |-> TRUE, waits |-> billingFetch.waits \cup who,
                                    setup |-> billingFetch.setup \/ setup]
                /\ operations' = ops /\ UNCHANGED <<updating, pendingSubscriptionCheck>>

BillingArrives ==
  /\ OnBilling /\ billingFetch.on /\ billingFetch' = NoWait /\ billingInfo' = money
  /\ Resume(billingFetch, money, operations)
  /\ UNCHANGED <<money, showSetupModal, alert>>

\* A refetch that fails does not throw: everything goes on with what was known.
BillingFails ==
  /\ OnBilling /\ billingFetch.on /\ billingFetch' = NoWait
  /\ Resume(billingFetch, billingInfo, operations)
  /\ UNCHANGED <<money, billingInfo, showSetupModal, alert>>

FocusBilling ==
  /\ OnBilling /\ ~billingFetch.on /\ billingFetch' = [NoWait EXCEPT !.on = TRUE]
  /\ UNCHANGED <<money, billingInfo, showSetupModal, pendingSubscriptionCheck, operations, updating, alert>>
-----------------------------------------------------------------------------
(* The set-up modal, seen from this page.                                    *)
OpenSetup ==
  /\ OnBilling /\ Ready /\ ~IsSetUp /\ ~showSetupModal /\ showSetupModal' = TRUE
  /\ UNCHANGED <<money, billingInfo, billingFetch, pendingSubscriptionCheck, operations, updating, alert>>

\* The modal's requests: another customer, with a subscription for what is paid
\* for, which Stripe may leave incomplete; then the card.
SetupWrites ==
  /\ OnBilling /\ showSetupModal
  /\ \/ money' \in {[money EXCEPT !.customer = TRUE, !.card = FALSE, !.subscription = s] :
                      s \in IF money.paid THEN {"none", "incomplete"} ELSE {"none"}}
     \/ money.customer /\ money' = [money EXCEPT !.card = TRUE]
  /\ UNCHANGED <<billingInfo, billingFetch, showSetupModal, pendingSubscriptionCheck,
                 operations, updating, alert>>

\* Closed without completion: nothing is fetched.
CloseSetup ==
  /\ OnBilling /\ showSetupModal /\ showSetupModal' = FALSE
  /\ UNCHANGED <<money, billingInfo, billingFetch, pendingSubscriptionCheck, operations, updating, alert>>

HandleBillingSetupComplete ==
  /\ OnBilling /\ showSetupModal /\ money.customer
  /\ showSetupModal' = FALSE /\ RefetchBilling({}, TRUE, operations)
  /\ UNCHANGED <<money, billingInfo, alert>>
-----------------------------------------------------------------------------
(* The operations.                                                           *)
Free == OnBilling /\ ~showSetupModal /\ ~updating
            /\ UNCHANGED <<money, billingInfo, billingFetch, showSetupModal,
                           pendingSubscriptionCheck, alert>>

OpenCustomerPortal == IsSetUp /\ Free /\ Begin("portal")
CreateSubscription == IsSetUp /\ billingInfo.subscription = "none" /\ Free /\ Begin("create")
CancelSubscription ==
  IsSetUp /\ billingInfo.subscription \in {"incomplete", "active"} /\ Free /\ Begin("cancel")

\* Mutant: an operation ends without its finally block.
EndBusy(o) == operations' = [operations EXCEPT ![o] = Idle] /\ UNCHANGED updating

\* An operation is over.
End(o) == operations' = [operations EXCEPT ![o] = Idle] /\ updating' = FALSE

\* What Stripe makes of a request: a subscription needs paid resources, and may
\* stay incomplete; one that was asked to be cancelled ends later.
Outcomes(kind) ==
  CASE kind = "create" -> IF money.customer /\ money.paid THEN {"active", "incomplete"} ELSE {}
    [] kind = "cancel" -> IF money.subscription = "none" THEN {} ELSE {"canceling"}
    [] kind = "portal" -> {money.subscription}

\* A request that succeeds is followed by a refetch that the operation waits
\* for; the portal leaves the page.
OperationSucceeds(o) ==
  /\ OnBilling /\ operations[o].stage = "request"
  /\ \E s \in Outcomes(operations[o].kind) : money' = [money EXCEPT !.subscription = s]
  /\ IF operations[o].kind = "portal"
     THEN End(o) /\ UNCHANGED <<billingFetch, pendingSubscriptionCheck>>
     ELSE RefetchBilling({o}, FALSE, [operations EXCEPT ![o].stage = "refetch"])
  /\ UNCHANGED <<billingInfo, showSetupModal, alert>>

\* Mutant: the flag is cleared after a success alone.
OperationFailsBusy(o) ==
  /\ OnBilling /\ operations[o].stage = "request" /\ alert' = TRUE
  /\ operations' = [operations EXCEPT ![o] = Idle]
  /\ UNCHANGED <<updating, money, billingInfo, billingFetch, showSetupModal, pendingSubscriptionCheck>>

\* The error is never taken away.
OperationFails(o) ==
  /\ OnBilling /\ operations[o].stage = "request" /\ End(o) /\ alert' = TRUE
  /\ UNCHANGED <<money, billingInfo, billingFetch, showSetupModal, pendingSubscriptionCheck>>

OperationAnswered == \E o \in Operations : OperationSucceeds(o) \/ OperationFails(o)
BillingAnswered   == BillingArrives \/ BillingFails

AccountNext ==
  \/ OpenBilling \/ LeaveBilling \/ BillingAnswered \/ FocusBilling
  \/ OpenSetup \/ SetupWrites \/ CloseSetup \/ HandleBillingSetupComplete
  \/ OpenCustomerPortal \/ CreateSubscription \/ CancelSubscription \/ OperationAnswered

\* Requests are answered or time out.
AccountFairness == WF_accountVars(OperationAnswered) /\ WF_accountVars(BillingAnswered)
AccountSpec == AccountInit /\ [][AccountNext]_accountVars /\ AccountFairness
-----------------------------------------------------------------------------
(* Properties.                                                               *)

\* Types; the flag is set only while something is under way that will clear it;
\* who waits for an answer waits for one that was asked for.
AccountTypeOK ==
  /\ billingPage \in {"away", "open"} /\ money \in Money
  /\ billingInfo \in Money \cup {NoInfo}
  /\ updating => \E o \in Operations : operations[o] # Idle
  /\ \A o \in Operations : operations[o].stage = "refetch" => o \in billingFetch.waits
  /\ billingFetch.waits # {} \/ billingFetch.setup => billingFetch.on

\* The buttons come back: whatever fails, and whichever of the operations ends
\* first, the flag is cleared (the finally blocks of BillingPage).
UpdatingEnds == updating ~> ~updating
=============================================================================
