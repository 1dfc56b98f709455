------------------------------- MODULE Wizard -------------------------------
(* The resource creation wizard of the web application: CreateResourcePage  *)
(* with its hook useResourceCreationFlow, the billing set-up modal, and the *)
(* requests they make.  The list of steps is computed anew on every render  *)
(* from the form and from the billing status of the selected project, while *)
(* the place in it is an index of its own; answers arrive at any time.      *)
(*                                                                          *)
(* One render and the effects it triggers are one step of the model: every  *)
(* action ends with Settle, which is what the effects do.  A continuation   *)
(* that closes over an earlier render (goNext after a refetch or after a    *)
(* project was made) carries what that render knew.                         *)
EXTENDS Integers, Sequences, FiniteSetsExt

CONSTANTS
  Projects,    \* ids of projects
  First,       \* the one that exists before the user makes others in the wizard
  UrlTypes,    \* values of ?resourceType= to consider
  UrlSkus,     \* values of ?sku= to consider
  NoProject,   \* no project is selected
  None,        \* nothing: no data, no request
  MaxRequests  \* requests under way that the user began, of every kind but the create

ASSUME WizardBounds == MaxRequests \in Nat /\ First \in Projects /\ NoProject \notin Projects

ASSUME NoneAssumption == None \notin {"next", "nothing"} /\ \A s \in SUBSET Projects : s # None

VARIABLES
  site,        \* "closed", "open", "left" or "created": the page
  url,         \* project and type of the address
  form,        \* useResourceCreationFlow's state
  step,        \* currentStepIndex, counted from 1
  project,     \* selectedProjectId
  projects,    \* useProjects(): None while it loads
  making,      \* the project being created: None, or what goNext will do then
  account,     \* the server: customer, card, subscription of the selected project
  status,      \* useBillingStatus of the selected project: None before it arrives
  asking,      \* its request under way
  modal,       \* UnifiedBillingSetupModal and its payment form
  setups,      \* its handleSetup calls under way: how many of each kind
  shown,       \* what the settings form on the screen holds
  creating,    \* the create request under way, or "content", a Secret's second one
  sameId,      \* the form's id is that of the last create request
  row          \* the server has a row under that id, and not all of the resource

flowVars   == <<url, form, project, projects>>
queryVars  == <<account, status, asking>>
modalVars  == <<modal, setups>>
createVars == <<creating, sameId, row>>
wizardVars == <<site, flowVars, step, making, queryVars, modalVars, shown, createVars>>
-----------------------------------------------------------------------------
Graph  == "Konnektr.Graph"
Secret == "Konnektr.Secret"
Catalog == {Graph, Secret}
SkusOf == [t \in Catalog |-> IF t = Graph THEN <<"standard", "free">> ELSE <<>>]
IsSku(t, s) == \E i \in 1..Len(SkusOf[t]) : SkusOf[t][i] = s

IsSkuValidForType(t, s) == t \in Catalog /\ (SkusOf[t] = <<>> \/ IsSku(t, s))
IsPaidResource(s) == s # "free"

\* What a render knows of billing; a project whose status has not arrived, or
\* could not be fetched, counts as one where nothing is set up.
NothingSetUp == [customer |-> FALSE, card |-> FALSE, active |-> FALSE]
Known == IF status = None THEN NothingSetUp ELSE status
Loading == status = None /\ asking # None
Complete(b) == b.customer /\ b.card /\ b.active
CardKnown == Known.customer /\ Known.card

NeedsBilling == /\ IsPaidResource(form.sku) /\ form.type # Secret
                /\ ~Loading /\ ~Complete(Known)

\* The steps.  "project" and "access" exist in the code and are never listed:
\* nothing adds the first, nothing sets skipAccess to false.
If(s, p) == IF p THEN <<s>> ELSE <<>>
Steps == If("resourceType", url.type = "") \o <<"tier">>
           \o If("billing", NeedsBilling) \o If("settings", form.type \in Catalog)
CurrentStep == Steps[step]
IsLastStep  == step = Len(Steps)

CanGoNext ==
  CASE CurrentStep = "resourceType" -> form.type # ""
    [] CurrentStep = "tier"     -> form.named /\ IsSkuValidForType(form.type, form.sku)
    [] CurrentStep = "billing"  -> CardKnown
    [] CurrentStep = "settings" -> form.type = Graph \/ form.settings # ""
GoesOn == IF CanGoNext /\ ~IsLastStep THEN "next" ELSE "nothing"   \* what goNext will do

\* Mutant: no effect brings the index back.
SettleUnclamped(i) ==
  /\ step' = i
  /\ shown' = IF i <= Len(Steps') /\ CurrentStep = "settings" /\ CurrentStep' = "settings"
              THEN shown ELSE ""

\* The effects after a render: an index past the end comes back to the last
\* step.  A settings form lives as long as its step is shown.
Settle(i) ==
  /\ step' = IF i > Len(Steps') THEN Len(Steps') ELSE i
  /\ shown' = IF CurrentStep = "settings" /\ CurrentStep' = "settings" THEN shown ELSE ""

\* A sku that the type does not have becomes the type's first.
Normal(f) == IF f.type \in Catalog /\ ~IsSkuValidForType(f.type, f.sku)
             THEN [f EXCEPT !.sku = SkusOf[f.type][1]] ELSE f
-----------------------------------------------------------------------------
(* The page and its queries.  A request for the status answers with the      *)
(* server's state of then; "next" is one that goNext waits for.              *)
BillingStates == {NothingSetUp,
                  [customer |-> TRUE, card |-> TRUE, active |-> FALSE],
                  [customer |-> TRUE, card |-> TRUE, active |-> TRUE]}

\* A handleSetup under way: the project it is for, and whether its customer is made.
Attempts == [customer : BOOLEAN, of : Projects]

NewForm == [type |-> "", sku |-> "", named |-> FALSE, settings |-> ""]
NoModal == [open |-> FALSE, step |-> "creating", secret |-> "none", paying |-> None]

\* The state of a page that is not mounted.
Blank ==
  [url |-> [project |-> NoProject, type |-> ""], form |-> NewForm, project |-> NoProject,
   projects |-> None, account |-> NothingSetUp, setups |-> [a \in Attempts |-> 0]]

WizardInit ==
  /\ site = "closed" /\ url = Blank.url /\ form = NewForm /\ step = 1
  /\ project = NoProject /\ projects = None /\ making = None
  /\ account = NothingSetUp /\ status = None /\ asking = None
  /\ modal = NoModal /\ setups = Blank.setups /\ shown = "" /\ creating = None
  /\ sameId = FALSE /\ row = FALSE

\* The page is gone, and its state with it; a create request under way is not.
Unmount ==
  /\ url' = Blank.url /\ form' = NewForm /\ step' = 1 /\ project' = NoProject
  /\ projects' = None /\ making' = None
  /\ account' = NothingSetUp /\ status' = None /\ asking' = None
  /\ modal' = NoModal /\ setups' = Blank.setups /\ shown' = ""

\* Another project: its account is in any state, nothing of it is known.
Select(p, b) ==
  /\ project' = p /\ account' = b /\ status' = None
  /\ asking' = IF p = NoProject THEN None ELSE "nothing"
  /\ p = NoProject => b = NothingSetUp

\* The page opens under /projects/:projectId or under /resources/create, in
\* whatever state of billing the project is.
OpenWizard ==
  /\ site = "closed" /\ site' = "open"
  /\ \E p \in {First, NoProject}, t \in UrlTypes, s \in UrlSkus, b \in BillingStates :
       /\ url' = [project |-> p, type |-> t]
       /\ form' = Normal([form EXCEPT !.type = t, !.sku = s])
       /\ Select(p, b)
       /\ projects' = IF p = NoProject THEN None ELSE {p}
  /\ UNCHANGED <<step, making, modalVars, shown, createVars>>

\* useProjects answers; an effect selects the first project.
ProjectsArrive ==
  /\ site = "open" /\ projects = None
  /\ \E ps \in SUBSET {First}, b \in BillingStates :
       /\ projects' = ps
       /\ Select(IF ps = {} THEN NoProject ELSE First, b)
  /\ UNCHANGED <<site, url, form, making, modalVars, createVars>>
  /\ Settle(step)

\* Mutant: every answer goes on, as if goNext had waited for it.
StatusAnsweredOn(s) ==
  /\ site = "open" /\ asking # None /\ asking' = None
  /\ status' = s
  /\ UNCHANGED <<site, flowVars, making, account, modalVars, createVars>>
  /\ Settle(step + 1)

\* An answer, and the goNext that waited for it: the index moves by one when
\* the render it closes over could go on.
StatusAnswered(s) ==
  /\ site = "open" /\ asking # None /\ asking' = None
  /\ status' = s
  /\ UNCHANGED <<site, flowVars, making, account, modalVars, createVars>>
  /\ Settle(IF asking = "next" THEN step + 1 ELSE step)

StatusArrives == StatusAnswered(account)
StatusFails   == StatusAnswered(status)

\* The window regains the focus while the status is stale.
Focus ==
  /\ site = "open" /\ project # NoProject /\ asking = None
  /\ asking' = "nothing"
  /\ UNCHANGED <<site, flowVars, making, account, status, modalVars, createVars>>
  /\ Settle(step)
-----------------------------------------------------------------------------
(* The form.  An open dialog keeps the user from the page below it.  The id  *)
(* of the resource follows the name: another name, another id.               *)
AtPage == site = "open" /\ ~modal.open

Edit(f) ==
  /\ form' = f
  /\ UNCHANGED <<site, url, project, projects, making, queryVars, modalVars, creating>>

OtherId == sameId' = FALSE /\ row' = (row /\ creating # None)

OffersTypes == AtPage /\ CurrentStep = "resourceType"
SelectType(t) ==
  /\ OffersTypes
  /\ Edit([form EXCEPT !.type = t, !.sku = IF SkusOf[t] = <<>> THEN @ ELSE SkusOf[t][1]])
  /\ UNCHANGED <<sameId, row>>
  /\ Settle(step)

\* Bound: a name is changed, not emptied again.
EditName ==
  /\ AtPage /\ CurrentStep = "tier"
  /\ Edit([form EXCEPT !.named = TRUE])
  /\ OtherId \/ UNCHANGED <<sameId, row>>
  /\ Settle(step)

OffersSku(s) == /\ AtPage /\ CurrentStep = "tier" /\ form.type \in Catalog
                /\ IsSku(form.type, s) /\ form.sku # s
SelectSku(s) ==
  /\ OffersSku(s)
  /\ Edit([form EXCEPT !.sku = s])
  /\ UNCHANGED <<sameId, row>>
  /\ Settle(step)

ChoosesProject == /\ AtPage /\ CurrentStep = "tier"
                  /\ url.project = NoProject /\ projects # None

SelectProject(p) ==
  /\ ChoosesProject /\ p \in projects \ {project}
  /\ \E b \in BillingStates : Select(p, b)
  /\ OtherId
  /\ UNCHANGED <<site, url, form, projects, making, modalVars, creating>>
  /\ Settle(step)

\* The bound on what the user has under way: a create request goes alone.
Count(p) == IF p THEN 1 ELSE 0
UnderWay == Count(making # None) + Count(modal.paying # None)
              + MapThenSumSet(LAMBDA a : setups[a], Attempts)
MayBegin == creating = None /\ UnderWay < MaxRequests

\* handleCreateProject of the step: the callback it will call belongs to this
\* render, and Next stays enabled while the request is under way.
SubmitProject ==
  /\ ChoosesProject /\ making = None /\ projects # Projects /\ MayBegin
  /\ making' = GoesOn
  /\ UNCHANGED <<site, flowVars, step, queryVars, modalVars, shown, createVars>>

\* handleSetup begins: see below.
HandleSetup(p) == setups' = [setups EXCEPT ![[customer |-> FALSE, of |-> p]] = @ + 1]

\* A modal that is open begins again for the new project.
ProjectCreated ==
  /\ site = "open" /\ making # None /\ making' = None
  /\ \E p \in Projects \ projects :
       /\ Select(p, NothingSetUp) /\ projects' = projects \cup {p}
       /\ IF modal.open THEN /\ HandleSetup(p)
                             /\ modal' = [NoModal EXCEPT !.open = TRUE, !.paying = modal.paying]
                        ELSE UNCHANGED modalVars
  /\ OtherId
  /\ UNCHANGED <<site, url, form, creating>>
  /\ Settle(IF making = "next" THEN step + 1 ELSE step)

ProjectRefused ==
  /\ site = "open" /\ making # None /\ making' = None
  /\ UNCHANGED <<site, flowVars, step, queryVars, modalVars, shown, createVars>>

\* The settings form: a Secret's reports every change to the wizard, a Graph's
\* keeps its values to itself; neither is given what the wizard already has.
EditSettings ==
  /\ AtPage /\ CurrentStep = "settings" /\ creating = None
  /\ form.sku # "free" \/ form.type = Secret
  /\ shown' = form.type
  /\ Edit(IF form.type = Secret THEN [form EXCEPT !.settings = Secret] ELSE form)
  /\ UNCHANGED <<step, sameId, row>>
-----------------------------------------------------------------------------
(* Moving through the steps.                                                 *)
\* Mutant: the configuration is left without a project.
NextOfferedAnyway == AtPage /\ CanGoNext /\ creating = None

NextOffered == /\ AtPage /\ CanGoNext /\ creating = None
               /\ CurrentStep = "tier" => project # NoProject

Move(i) ==
  /\ UNCHANGED <<site, flowVars, making, queryVars, modalVars, createVars>>
  /\ Settle(i)

\* Next: both branches of handleNext's "tier" case go on, since every type of
\* the catalog has settings.
GoNext == NextOffered /\ ~IsLastStep /\ Move(step + 1)

HandleBack == AtPage /\ step > 1 /\ Move(step - 1)

\* Back on the first step, or Cancel, which the settings step does not have
\* and a create request under way disables; Back it does not.
LeaveWizard ==
  /\ AtPage /\ (step = 1 \/ (CurrentStep # "settings" /\ creating = None))
  /\ site' = "left" /\ Unmount
  /\ UNCHANGED createVars

\* handleCreateResource from the last step, the settings.  A sku the type does
\* not have is sent as "free".  The server will refuse an id that is taken and
\* a paid resource of an account without a customer.
SubmittedSku == IF IsSku(form.type, form.sku) THEN form.sku ELSE "free"
CreateResource ==
  /\ NextOffered /\ IsLastStep /\ UnderWay = 0 /\ project # NoProject
  /\ LET taken == sameId /\ row
     IN  /\ creating' = IF taken \/ (IsPaidResource(SubmittedSku) /\ ~account.customer)
                        THEN "refused" ELSE form.type
         /\ row' = taken
  /\ sameId' = TRUE
  /\ UNCHANGED <<site, flowVars, step, making, queryVars, modalVars, shown>>

\* useCreateResource: the row first, then a Secret's content.  The page moves
\* on to the new resource from wherever the user is by then.
Pending == site \in {"open", "left"} /\ creating # None
RowStored ==
  /\ Pending /\ creating = Secret
  /\ row' = TRUE /\ creating' = "content"
  /\ UNCHANGED <<site, flowVars, step, making, queryVars, modalVars, shown, sameId>>

CreateSucceeds ==
  /\ Pending /\ creating \in {Graph, "content"}
  /\ creating' = None /\ site' = "created"
  /\ Unmount /\ row' = FALSE /\ sameId' = FALSE

\* Either request fails: the page says so and the button is enabled again.
CreateFails ==
  /\ Pending /\ creating' = None
  /\ sameId' = (sameId /\ row) /\ row' = (sameId /\ row)
  /\ UNCHANGED <<site, flowVars, step, making, queryVars, modalVars, shown>>
-----------------------------------------------------------------------------
(* The billing modal.  handleSetup makes a customer, then a set-up intent    *)
(* whose secret belongs to the customer the account then has ("new"; "old"   *)
(* once that customer was replaced).  Closing the dialog does not stop a     *)
(* handleSetup or a confirmation under way.                                  *)
InModal == UNCHANGED <<site, flowVars, step, making, status, asking, shown, createVars>>

OffersSetup == AtPage /\ CurrentStep = "billing" /\ ~CardKnown /\ ~Loading /\ project # NoProject
OpenModal ==
  /\ OffersSetup /\ MayBegin
  /\ modal' = [modal EXCEPT !.open = TRUE, !.step = "creating", !.secret = "none"]
  /\ HandleSetup(project)
  /\ UNCHANGED account /\ InModal

RetrySetup ==
  /\ MayBegin /\ site = "open" /\ modal.open /\ modal.step = "error"
  /\ modal' = [modal EXCEPT !.step = "creating"]
  /\ HandleSetup(project)
  /\ UNCHANGED account /\ InModal

\* The server makes a new customer each time and drops the subscription.
Old(s) == IF s = "new" THEN "old" ELSE s
OldCard(c) == IF c = None THEN None ELSE [c EXCEPT !.secret = Old(@)]
CustomerMade(a) ==
  /\ site = "open" /\ setups[a] > 0 /\ ~a.customer
  /\ setups' = [setups EXCEPT ![a] = @ - 1, ![[a EXCEPT !.customer = TRUE]] = @ + 1]
  /\ IF a.of # project THEN UNCHANGED <<account, modal>>
     ELSE /\ account' = [customer |-> TRUE, card |-> FALSE, active |-> FALSE]
          /\ modal' = [modal EXCEPT !.secret = Old(@), !.paying = OldCard(@)]
  /\ InModal

\* A dialog that is closed by then starts afresh when it opens.
Tell(a, m) ==
  /\ site = "open" /\ setups[a] > 0
  /\ setups' = [setups EXCEPT ![a] = @ - 1]
  /\ modal' = IF modal.open THEN m ELSE modal
  /\ UNCHANGED account /\ InModal

IntentMade(a) ==
  /\ a.customer
  /\ Tell(a, [modal EXCEPT !.step = "payment",
                            !.secret = IF a.of = project THEN "new" ELSE "other"])

\* Mutant: the error is logged and not shown.
SetupFailsQuietly(a) == Tell(a, modal)

SetupFails(a) == Tell(a, [modal EXCEPT !.step = "error"])

\* stripe.confirmSetup; the callback it will call is this render's.
SubmitCard ==
  /\ MayBegin /\ site = "open" /\ modal.open /\ modal.step = "payment" /\ modal.paying = None
  /\ modal' = [modal EXCEPT !.paying = [secret |-> modal.secret, of |-> project, then |-> GoesOn]]
  /\ UNCHANGED <<account, setups>> /\ InModal

\* onComplete: the dialog closes, the status of the project selected by now is
\* fetched again (a fetch under way is given up, or joined if it is the first),
\* then the flow goes on.
OnComplete(then) ==
  /\ modal' = NoModal /\ asking' = then
  /\ UNCHANGED <<site, flowVars, making, status, setups, createVars>>
  /\ Settle(step)

CardConfirmed ==
  /\ site = "open" /\ modal.paying # None
  /\ account' = IF modal.paying.of = project /\ modal.paying.secret = "new"
                 THEN [account EXCEPT !.card = account.customer] ELSE account
  /\ OnComplete(modal.paying.then)

CardRefused ==
  /\ site = "open" /\ modal.paying # None
  /\ modal' = [modal EXCEPT !.paying = None]
  /\ UNCHANGED <<account, setups>> /\ InModal

SkipPayment ==
  /\ site = "open" /\ modal.open /\ modal.step = "payment" /\ modal.paying = None
  /\ UNCHANGED account /\ OnComplete(GoesOn)

CloseModal ==
  /\ site = "open" /\ modal.open
  /\ modal' = [NoModal EXCEPT !.paying = modal.paying]
  /\ UNCHANGED <<account, setups>> /\ InModal
-----------------------------------------------------------------------------
User ==
  \/ \E t \in Catalog : SelectType(t)
  \/ \E s \in {"standard", "free"} : SelectSku(s)
  \/ \E p \in Projects : SelectProject(p)
  \/ EditName \/ SubmitProject \/ EditSettings \/ GoNext \/ HandleBack \/ LeaveWizard \/ CreateResource
  \/ OpenModal \/ RetrySetup \/ SubmitCard \/ SkipPayment \/ CloseModal \/ Focus

Answers ==
  \/ ProjectsArrive \/ ProjectCreated \/ ProjectRefused
  \/ StatusArrives \/ StatusFails
  \/ RowStored \/ CreateSucceeds \/ CreateFails
  \/ \E a \in Attempts : CustomerMade(a) \/ IntentMade(a) \/ SetupFails(a)
  \/ CardConfirmed \/ CardRefused

WizardNext == OpenWizard \/ User \/ Answers

WizardSpec == WizardInit /\ [][WizardNext]_wizardVars
-----------------------------------------------------------------------------
(* Properties.                                                               *)

WizardTypeOK ==
  /\ site \in {"closed", "open", "left", "created"}
  /\ step \in 1..Len(Steps)
  /\ project \in Projects \cup {NoProject}
  /\ shown \in Catalog \cup {""} /\ form.settings \in {"", Secret}
  /\ modal.step \in {"creating", "payment", "done", "error"}

\* The button that creates is offered only when what it sends is complete: a
\* project, so that handleCreateResource never turns the user down for want of
\* one, and a type and a sku that go together, which it never has to mend.  The
\* step that asks for them may have been passed by an index that moved under a
\* list that changed.
SentComplete ==
  NextOffered /\ IsLastStep => project \in Projects /\ IsSkuValidForType(form.type, form.sku)

\* An answer moves the user between steps only where the list itself changes,
\* from the billing step to the settings or back: never off the type or the
\* configuration the user is busy with.
AnswersKeepPlace ==
  [][asking = "nothing" /\ asking' = None /\ site' = "open" /\ project' = project
       => CurrentStep' = CurrentStep \/ {CurrentStep, CurrentStep'} = {"billing", "settings"}
    ]_wizardVars

\* The dialog shows its spinner only while a set-up attempt is under way that
\* will end it, whichever attempt was begun for which project.
SpinnerEnds ==
  modal.open /\ modal.step = "creating" => \E a \in Attempts : setups[a] > 0
=============================================================================
