# KtrlPlane in TLA+

KtrlPlane is a control plane: a Go HTTP server over PostgreSQL, with Stripe for
billing and an identity provider for log-in, and a React application in front of it.
Users own organizations and projects, create resources in projects, pay for the
resources of paid tiers, and give each other roles at any of these scopes.

This directory holds TLA+ modules of the parts of the server and of the web application
where order, failure and concurrency matter, the TLC configurations that check them,
and proofs for TLAPS. Paths below are relative to the root of the repository.

## The system

| Part | State | Operations | Talks to |
|---|---|---|---|
| Identity (`internal/auth/auth.go`, `internal/db/user_queries.go`) | table `users`; in each process the cache `processedUsers` and one mutex per user (`userLocks`) | `ensureUserExists` on every authenticated request | identity provider (tokens), role assignments |
| Role assignments (`internal/service/rbac_service.go`, `internal/db/rbac_queries.go`) | tables `role_assignments`, `roles`, `permissions` | `AssignRole`, `AssignRoleInTx`, `CheckPermission`, `DeleteRoleAssignment`, lists | called by every other service |
| Organizations, projects (`organization_service.go`, `project_service.go`) | tables `organizations`, `projects` | create, read, update, delete, with SQL cascades | role assignments, Stripe |
| Resources (`resource_service.go`) | table `resources` with tier and Stripe price | create, read, update (change of tier), delete, list | role assignments, billing, Stripe |
| Billing (`billing_service.go`) | table `billing_accounts`; customers and subscriptions in Stripe | open an account, make a customer, make a subscription, cancel, portal, status | Stripe |
| Secrets (`secret_service.go`) | Kubernetes secrets | one API call each | Kubernetes |
| Observability (`proxy.go`) | none | forwards to Loki and Mimir | role assignments |
| Migrator (`cmd/migrate/main.go`) | table `schema_migrations` | executes each file, then records it | PostgreSQL |
| Resource wizard (`CreateResourcePage.tsx`, `useResourceCreationFlow.ts`, `BillingSetupModal.tsx`) | form, list of steps and place in it; the modal's own steps | choose, set up billing, create | resources, billing, Stripe's form |
| Resource pages (`ResourceDetailPage.tsx`, `ResourceSettingsPage.tsx`, `GraphForm.tsx` and its tabs) | a cached copy of the resource, forms, an interval | rename, change tier, delete, edit sinks and routes | resources |
| Secrets' pages (`SecretResourceDetails.tsx`, `SecretForm.tsx`, `SecretSelector.tsx`, `SecretsPage.tsx`) | drafts, dialogs, what was last fetched | write values, make a secret from a sink, delete | resources, secrets |
| Access pages (`AccessControl.tsx`, `CreateRoleAssignmentPage.tsx`) | a cached list, dialogs, a store both pages write | grant, remove | role assignments |
| Logs and metrics (`ResourceLogsPage.tsx`, `ResourceMonitoringPage.tsx`, `useObservability.ts`) | polled queries with retries | choose, pause, refetch | observability |
| Billing page (`BillingPage.tsx`) | billing information as last fetched, one busy flag | set up, subscribe, cancel, portal | billing |
| Frame (`App.tsx`, `ProtectedRoute`, project pages and dialogs) | session, address, the list of projects | log in and come back, redirect, create, rename and delete a project | identity provider, projects |
| Configuration, validation, deployment | environment variables | read at start | |

The parts of the server meet in three places. A **log-in** merges the placeholder that
an earlier **grant** left for an e-mail address. **Every operation** asks the permission
query first and runs its own statement later, while the database cascades deletions that
the table of assignments does not take part in. And **resources** keep Stripe's
subscription in step with the database, call by call, with nothing to bind the two. The
pages of the web application meet the server through a **query cache**: what a page
shows was true when it was fetched, its requests are answered in any order, and a page
may be gone, or be another, by the time its request is answered.

### What is hard

* *Identity.* Grants and log-ins interleave statement by statement, over several
  server processes; the cache outlives what it was filled from; any statement may
  fail; a mutex is held across statements that wait for row locks. Correct means: the
  keys of the tables hold, the cache vouches only for users who have a row, a grant
  that was acknowledged stays with the user it was for, requests are answered, and a
  user who keeps trying gets in.
* *Access.* Check-then-act everywhere; the walk from a scope up to its organization is
  spelt out in three separate queries, with different joins; cascades reach some
  tables and not others. Correct means: no row outlives its parent, the three queries
  agree, and what a user may do changes only when an assignment does.
* *Billing.* Read-modify-write of quantities in another company's system, with no
  transaction, no idempotency key and no compensation; a process that stops in the
  middle of it; subscriptions that end on their own. Correct means: nobody pays for
  what is not there, everybody pays for what is, and the account never names a
  subscription of somebody else's.
* *Web application.* Callbacks that close over an earlier render; an index into a list
  that is computed anew; a first fetch that an invalidation joins instead of repeating;
  a mutation whose page has been left; an interval, a poll and a retry on one query;
  two requests that make one secret. Correct means: lists settle on what the server
  has, an answer disturbs nothing but what it answers, what was typed stays, values
  that nobody looked at are not replaced, a failure is told, and whatever disables a
  page gives it back.

## The modules

| Module | Models | Instances | Proofs |
|---|---|---|---|
| `Identity` | log-ins against grants | `MCIdentity` | `IdentityProofs` |
| `Access` | scopes, assignments and the queries on them | `MCAccess` | `AccessProofs` |
| `Billing` | the bill of one project | `MCBilling` | `BillingProofs`, `BillProofs` |
| `Wizard` | the creation of a resource, step by step, with the billing modal | `MCWeb` | `WizardProofs` |
| `Editor` | a resource's own pages, their forms and the poll of its status | `MCWeb` | `PagesProofs` |
| `SecretStore` | what the application promises of secrets' values | | |
| `Secrets` | the pages that write secrets; implements `SecretStore` | `MCWeb` | `ListsProofs` |
| `Grants` | the list of a scope's assignments and the page that grants | `MCWeb` | `ListsProofs` |
| `Watch` | the polled queries of logs and metrics | `MCWeb` | `PagesProofs` |
| `Account` | the billing page | `MCWeb` | `PagesProofs` |
| `Portal` | the log-in, the redirect and the list of projects | `MCWeb` | `ListsProofs` |
| `Web` | the seven parts in one tab | `MCWeb` | `WebProofs` |

The server's modules are at the grain of a statement or a call. The web application's
are at the grain of an event of the browser: a click, an answer, a timer, and the
render with its effects that follows. A request is applied by the server in a step of
its own, between being sent and being answered, wherever the order matters.

### Identity

One step is one SQL statement under READ COMMITTED. `users` maps every id to the
e-mail column of its row; a placeholder is a row whose id is its own address.
`owner[g]` is the `user_id` of the assignment that grant `g` made. A request goes
through `ensureUserExists` by its `pc`: wait for the mutex and look for a placeholder
(`FindPlaceholder`), then either merge (`CreateRealUser`, `TransferRoles`,
`DeletePlaceholder`) or upsert (`GetUser`, `CreateUser`, `UpdateEmail`). What an open
transaction has written stays in the request (`moved`, `made`) until it commits; the
guards `PendingUser`, `PendingPlaceholder`, `LockedUser` and `LockedAssignment` are the
waits for each other's uncommitted keys and rows. The last statement of a transaction
and its COMMIT are one step: nothing reads in between that would not wait.

Neither query of `ensureUserExists` asks its rows for their error (`auth.go:217-273`,
`279-293`): a connection that breaks off while one runs reads as "no such row".
`MissPlaceholder` and `MissUser` are that; a failure the code does see is `LoginFails`.

A grant (`RequestGrant`, `CheckUser`, `CreatePlaceholder`, `InsertAssignment`,
`CommitGrant`) reaches `AssignRole` through a handler, which searches for the user
first, or straight from code (`Routes`). `MissPlaceholder`, `MissUser`, `LoginFails`,
`GrantFails` and `Restart` are the faults. Tokens of one subject may carry different
addresses (`Claims`), and two subjects may share one, since migration 017 took the
unique key off `email`.

### Access

`orgs`, `projects` and `resources` are the tables with their parent columns,
`assigned` the rows of `role_assignments`. Granting and creating a project are one
transaction each. Deleting and creating a resource, deleting a project or an
organization and removing an assignment are two or three steps: the permission check
(`Check...`), for a resource's deletion the second check of `GetResourceByID`, and
the statement. `InForce`, `AccessList` and `ListedResources` are the three queries,
written branch by branch as the SQL is. `Parents` and `Lineage`, the reference they are
compared with, are defined from the tree alone.

Not there: `CreateOrganization`, because it assigns the role id `"Owner"`, which no
migration inserts, so that its transaction always rolls back; organizations exist
from the start, each with an owner. Nothing sets `expires_at`, so nothing expires.

### Billing

`row`, `account` and `project` are the database's side, `subs` and `customers`
Stripe's. A request (`req[q]`) carries what it has read: the row, the account's
customer and subscription, and the items of the subscription. Each step is one SQL
statement or one API call, in the order of the code, and works on the values read
earlier: `Charge` writes *quantity read + 1*, `Discharge` *quantity read - 1* or deletes
the item. `gen` tells an item from the one it replaced, so that a write by an item id
that has gone is refused, as Stripe does (`Accepted`). Stripe is external: it accepts
what the code counts on, also an update that leaves a subscription with no item.

`CallFails` lets any call fail, with what the code makes of it: creation and change of
tier return the error, deletion logs it and goes on. `Crash` ends every request where
it is. `SubscriptionEnds` is Stripe's own doing, once the period of a cancelled
subscription is over or when it is never paid.

`clean` is a history variable: it is false once something has happened that may leave a
charge without a resource: an error after a Stripe call (`Fail`), a stop after one
(`Crash`), a failed call that a deletion passes over (`CallFails`), an update that
clears the price (`SaveResource`), and a second customer or subscription written over
one in use (`LinkCustomer`, `RecordSubscription`). `apart` is another: it is false once
a call that writes has fallen between the calls of another request (`Separate`; a
request that has read nothing yet which others write, `Unread`, has not begun to
matter). Without it `BillExact`, `SubscriptionOfCustomer` and `ChargedFirst` fail with
two requests: a customer made while a subscription is being made leaves the account with
the old customer's, and a deletion of the project can close the account between a charge
and its insert. `NotOvercharged` says that a project pays for nothing that is not there
as long as neither of the two histories has come to an end, and that where nothing but
what `Growing` names is asked for, `apart` is not needed. It does not say that the exits
are closed: what a failure after a charge leaves behind (`resource_service.go:182`,
`:334`, `project_service.go:182`) stays charged, in the model as in the code.

### Wizard

`form`, `step`, `project` and `projects` are the state of `useResourceCreationFlow`.
`Steps` is the list the hook computes from the form and from what it knows of billing;
`Settle` is what the effects of a render do, and ends every action that renders: an
index past the end comes back, and a settings form goes with its step. `status` is the
billing query, `account` what the server would answer, `asking` the request under way
with what waits for it: `goNext` after a refetch belongs to the render that called it,
so `OnComplete` carries `GoesOn` as it was then. `making` is a project being created,
`creating` a resource: a Secret takes two requests, and a retry after the first meets
its own row. `setups` counts the modal's `handleSetup` calls under way, for which
project and how far; closing the modal stops none of them.

### Editor

`resource` is the row, `copy` the cached one both pages read, `updates` the PUT requests
under way. `Render` is the effect of a changed copy: which form is mounted (`FormWith`),
and whether the interval is set (`polling`). Every update sends the settings, empty
when the caller changes a name or a tier (`UpdateSucceeds`). The operator on the
cluster is external: it moves the status (`OperatorReports`). `fetching` is the request
for the copy: a try that fails is tried again after a while (`TryFails`, `RetryFetch`),
and a tick of the interval cancels the request under way with its retries and begins
afresh (`PollTick`), as `refetch()` does.

### Secrets and SecretStore

A secret is a row (`rows`) and values in the project's namespace (`contents`), written
by two requests. The places of the application that touch them are `place`. The
form's `draft` is remounted by rules that differ between initializing and editing
(`PageRenders`); the request to save creates or updates by what was last fetched
(`CanWrite` is the server's answer to that). `SelectorRow`, `SelectorValues` and
`SelectorCreated` are the steps of a secret made from a sink. Requests outlive their
pages: `saves`, `addings` and `removals` are sets, `Leave` and `LeaveSelector` only take
away the callbacks that belong to the page (`live`, `page`), and the server applies what
is left whenever it comes to it. A reading of values goes on too (`read`, by id) and is
joined by the next visit.

`SecretStore` is the abstract specification, of three variables: the values, the secrets
whose values are on the screen, and those whose values somebody has asked to replace. One
can ask only for what is on the screen; a write fills what is empty or replaces what was
asked for. The refinement maps `seen` to the values shown by the page of a secret
(`OnScreen`) and `asked` to the updates that the server has still to apply (`Updating`).

`SecretSelector`'s own reading of the keys of the secret it refers to changes nothing but
a drop-down, and is left out.

### Grants

`assigned` is the server's table by scope, `cached` the queries and `fetch` their
requests, one for each scope, with what they have read; `context` is the store that both
pages write and only one reads. A list's request goes on when its page is left: who
comes back joins it as long as the list has no data, and begins anew when it has
(`ListAgain`). `removal` and `grant` go on too; `live` says whether their callbacks still
find their page. `overtaken` and `behind` are history: a change was applied to a scope
whose first request had read it already, and so the list on the screen came from before
it; a request failed; or a page was left while its grant was under way. Then nothing
refetches.

### Watch, Account

`Watch` has one query with `attempt` and `failures`, the default retry of `main.tsx` and
the poll of its observers, which joins what is under way. The requests of
`observabilityService.ts` carry no token, so every one is refused: there is no action
that brings data. `Account` has the page's flag `updating`, the operations that may be
under way at once, and the refetches they wait for; `money` is the server, in any state
when the page opens.

### Portal

`session` and `at` are the guard and the address, `returnTo` what the log-in carries.
`listing`, `stale` and `listingFetch` are the query `["projects"]`, which every page
observes; `Mount`, `InvalidateProjects` and `ProjectsArrived` are its rules, with the
redirect from the root that the list triggers. A deletion, a creation and a change of
name are requests that the server applies before they are answered. `overtaken` is a
history variable: a change was applied after the first request had read, or its answer
was lost. `PageStays` is React's reuse of the project page from one project to another.

### Web

`App.tsx` mounts one page at a time and its state goes with it, so that a tab visits
one part (`visited`) while the others stand still. `Visits` chooses the parts of an
instance.

## The runs

| Run | Checks | Shows |
|---|---|---|
| `identity_invite` | `TypeOK KeysHold CacheSound GrantsHonoured` | every interleaving of two requests and two grants on two processes, with one fault, keeps keys, cache and acknowledged grants |
| `identity_login` | `OneAtATime LoginAnswered AdmittedUnlessLockedOut` | the mutex excludes, the locks never form a cycle, and an invited and an uninvited user who share an address are both let in, with two faults, unless one is locked out by a placeholder beside the row |
| `identity_window` | `InvitationKept` fails | a grant inside a merge is acknowledged and lost |
| `identity_lockout` | `EventuallyAdmitted` fails | a grant by address to a user who has a row locks that user out |
| `access` | `TypeOK TreeHolds ChecksFollowTree AccessListExplains ListMatchesCheck AccessMovesWithGrants` | the tables' keys, the agreement of the queries, and that access moves with assignments alone |
| `access_cascade` | `DeletesCascade` fails | assignments outlive their scope |
| `billing_apart` | `TypeOK NotOvercharged BillExact SubscriptionOfCustomer ChargedFirst` | every operation, two requests at a time of which none writes between the calls of the other, one fault |
| `billing_creates` | `NotOvercharged` | creations, customer set-ups, subscriptions and cancellations two at a time |
| `billing_stops` | `BillingStops` fails | an update that names the tier a resource already has leaves its charge behind |
| `billing_last_item` | `EveryResourceBilled` fails | deleting one of two resources of one tier ends the subscription of both |
| `web` | `WizardTypeOK SpinnerEnds SentComplete AnswersKeepPlace`; `SecretsTypeOK ValuesKept CreatedRefResolves`; `GrantsTypeOK ListsOwnChanges AnswerFindsNoDialog GrantsWhereItSays`; `ListsOwnProjects LoginReturns` | a tab in the wizard, the secrets' pages, the access pages or the frame, every order of clicks, answers, failures and departures |
| `web_live` | `EditorTypeOK EditsKept PollsWhileTransient TransientRefreshed`; `WatchTypeOK FailureTold`; `AccountTypeOK UpdatingEnds` | a tab on a resource's pages, logs and metrics or the billing page, with fair requests and timers |

What the properties of the last two say, beyond types:

* `SentComplete`: where the wizard offers to create, there is a project, a type and a tier
  of that type, however the index moved under the list of steps: nobody is turned down by
  `handleCreateResource` at the end. `AnswersKeepPlace`: an answer of the
  billing query moves the user only between the billing step and the settings.
  `SpinnerEnds`: the modal shows its spinner only while an attempt is under way that
  ends it.
* `ValuesKept`: the refinement of `SecretStore`. `CreatedRefResolves`: the reference
  that a sink gets from a secret it made names values that are there.
* `ListsOwnChanges`, `ListsOwnProjects`: once nothing is under way, the list on the screen
  is the server's. Both except the cases `behind` and `overtaken` name.
  `AnswerFindsNoDialog`: no answer to a removal closes the confirmation of another.
  `GrantsWhereItSays`: a grant goes to the scope of the page. `LoginReturns`: a log-in
  comes back to the page that asked for it.
* `EditsKept`: no newer copy, answer or tab replaces what was typed into sinks and routes.
  `PollsWhileTransient`, `TransientRefreshed`: the interval lives exactly as long as its
  reason, and a transient status is compared with the server's again.
  `FailureTold`: polls do not put an error off for good. `UpdatingEnds`: the flag that
  disables the billing page is cleared.

`CHECK_DEADLOCK FALSE` is in every configuration: requests, grants and faults are
bounded, so that every instance comes to rest; a tab whose resource was created is at
the end of its visit.

### Bounds

* *Identity*: two subjects, one address, two processes, two requests, two grants of
  one role at one scope, one fault. Two of each is what a race takes; one role
  suffices because keys, locks and merges tell roles apart only by equality, and two
  grants of the same role are the case in which the unique key is at stake. The
  liveness run starts with one invitation made, makes no others and has two faults, so
  that a query that breaks off unnoticed can meet another failure.
* *Access*: two users, two requests between check and statement, one organization, one
  project (in it or in none), one resource, the roles Owner and Data Owner,
  `MaxGrants = 3` assignments. Creating the project takes two of them; a third is what
  another user gains or loses in between. The proofs lift all of these bounds.
* *Billing*: `billing_apart` has two resources, three tiers (free and two paid), six
  requests, two at a time, and one fault; making an account, a customer and two
  resources takes four, and leaves two for the change of tier, deletion, cancellation
  and second subscription that follow. Its `CONSTRAINT Separated` stops where a call has
  fallen between those of another request: four of the five properties say nothing of
  the states after that, and the fifth, `TypeOK`, is proved of them. `billing_creates`
  has three resources, two tiers, six requests, two at a time, one fault: two creations
  that meet and one before or after them, so that a charge is overwritten while another
  row is there.
* *Web*: two projects in the wizard, one of which it makes; `MaxRequests = 2` requests
  of the user's under way at once, a create request going alone; a link that names no
  type or a graph, and a tier that does not exist. A name that was entered is changed
  and not emptied. One id of a secret and two names that make it; `MaxLeft = 1` request is left
  under way by a page, which is what it takes for the next page to meet it;
  no other name is typed while a creation, which has taken
  its own, is under way. Two scopes and one member, since lists of assignments are
  told apart by scope and a second member acts like the first. Two projects in the
  frame, one deletion, one creation and one change of name at a time, the last not
  beside the others. A graph with one sink and one route and one update under way; two queries
  and the three retries of `main.tsx`; the status of a resource changes by itself only under
  the detail page, which alone shows it; two places for operations on the billing page.
  Two requests are what it takes for an answer to find the page of another; the
  proofs lift the bounds of the parts they are about.

### Fairness

`Identity!FairSpec` is what the runtime gives: a request the server has accepted runs
its statements to the end, Go's mutex does not starve a waiter (it hands over after a
millisecond), PostgreSQL queues the waiters for a lock. Hence strong fairness of a
request's next step, which waits are switched on and off, and weak fairness of a
grant's. Nothing makes users send requests: `AdmittedUnlessLockedOut` assumes of a subject
that there is a request of theirs again and again, and faults are bounded, as every
failure is followed by a time without one.

`Web!WebFairSpec` has weak fairness of what the browser does by itself: a request is
answered or times out, the interval that is set ticks, the timer of a retry fires. No
click is fair. Success is not the code's to give and is assumed in one place alone:
`EditorFairness` has strong fairness of `FetchArrives`, an assumption about the network
and the server. Each tick of the five-second interval cancels the request under way
together with its retries, so that a fetch slower than that never arrives, however often
it is begun, and one whose tries fail, unless it is refused, does not come to its error.
`TransientRefreshed` says that, with the interval alive, it is enough that not every
fetch begun is overtaken or fails; without that assumption the code shows a transient
status for ever. `FailureTold` and `UpdatingEnds` need no success: `UpdatingEnds` holds
since a failure clears the flag too.

## What the runs found

1. **A grant inside a merge is lost** (`identity_window`). `auth.go` moves the
   placeholder's assignments (line 247) and deletes the placeholder (line 253) in one
   transaction, but a grant to the same address that commits in between is not moved,
   and the delete cascades to it. `GrantsHonoured` shows that this is the only way.
2. **A grant by address can lock a user out** (`identity_lockout`). The handler finds
   the user by e-mail (`handlers.go:698`) and passes the e-mail on, not the id;
   `AssignRole` makes a placeholder beside the user's row, and every later log-in in a
   process without the user in its cache fails on the primary key (`auth.go:241`).
   There is a second way there, by one fault and no grant: the placeholder's query breaks
   off, reads as "no placeholder", and the row is made beside it (`MissPlaceholder`).
   `AdmittedUnlessLockedOut` shows that nothing but a placeholder beside the row keeps
   anybody out for good.
3. **Assignments outlive their scope** (`access_cascade`), against the comments
   at `organization_service.go:152` and `project_service.go:197`.
4. **An update can leave a charge behind** (`billing_stops`): naming the tier a
   resource has sets its price to NULL, and the deletion then skips Stripe.
5. **The last item is not the last resource** (`billing_last_item`): an item has a
   quantity, and `resource_service.go:424` counts items.

The web application's modules show more, which no text of the repository contradicts
and which is therefore not a run; each is an action of the module named.

6. A change of name or tier sends `settings_json: {}` (`useResourceApi.ts:149`) and the
   server stores it: a graph's sinks and routes are gone (`Editor!UpdateSucceeds`).
7. A name begun for one project is saved to the one the page turned to
   (`ProjectDetailPage.tsx:96`, `Portal!SaveProjectName`).
8. A grant invalidates a key under which nothing is cached (`useAccessApi.ts:157`); the
   list is right only because it is fetched again when it mounts (`Grants!MountList`), and
   not even then if the first request of an earlier visit is still under way and has read
   the table before the grant: the mount joins it, and the list lacks the new user
   until something fetches it again (`overtaken`, `Grants!ListAgain`).
9. Logs and metrics are asked for without a token, so that they never arrive
   (`Watch!Refused`); pausing does not stop the polls (`ToggleLive`), and the summary shows
   no error.
10. A graph's settings typed in the wizard are not sent (`Wizard!EditSettings`), and a
    card confirmed after another attempt replaced the customer is on the old one
    (`CardConfirmed`).
11. A Secret whose values could not be stored cannot be created by trying again: its
    row is there (`Wizard!CreateFails`). A sink refers to a secret by the name typed, which
    need not be the id made of it (`SecretSelector.tsx:109`; hence the condition of
    `CreatedRefResolves`). The list of secrets closes whichever dialog is open when a
    deletion is answered (`SecretsPage.tsx:71`).
12. A project deleted while the list is fetched for the first time stays listed
    (`overtaken`), and a deletion that fails leaves the name typed in its dialog.
13. An error on the billing page is never taken away (`Account!OperationFails`).

`EveryResourceBilled` also fails for two creations at once, which read the same quantity
and write the same sum; that is not a run of its own, the property being refuted by a
single client already.

## The proofs

Every proof module proves an inductive invariant and derives the properties from it; the
last step of each theorem is `PTL` over `Init => IInv`, `IInv /\ [Next]_vars => IInv'` and
`IInv => property`. They assume what the modules' named `ASSUME`s say of the constants,
such as that addresses and subject ids are distinct, and nothing of their size but that
resources and requests are finite where they are counted. The
assumptions about `Gone`, `None` and the like say that what stands for "nothing there" is
no value of the code's (`Secrets!GoneIsNoId`, `Billing!GoneAssumption`,
`Wizard!NoneAssumption`); TLC evaluates them in the runs.

**`IdentityProofs`** proves `TypeOK`, `KeysHold`, `CacheSound`, `GrantsHonoured` and
`OneAtATime` for any number of subjects, addresses, processes, requests, grants and
faults. `OneAtATime` is inductive together with `TypeOK`: one action enters the lock,
and only where nobody is inside. The three before it are not. `KeysHold` after a merge's
commit depends on what the transaction did before it: `MergeCreates` (an open merge has
no rival for its user's row), `MergeMoves` (the rows it has moved are still the
placeholder's) and `CommitReady` (a grant about to commit has its foreign key and no
equal row) say that. `RowsAreGranted` ties rows to acknowledged grants,
`ClaimsOfRequests` ties the address of a request to the claims of its subject, which is
why a moved row still belongs to the user it was for, and `UpdateFindsRow` is what the
cache's soundness rests on: users are never deleted, only placeholders are.

**`AccessProofs`** proves all six properties of the run `access`. The invariant is
`TypeOK /\ TreeHolds /\ IdsUsed`: assignment ids in use are not above the counter, so that a new
one is new. The equivalence of the queries needs the foreign keys, since the Access
page's query joins tables that the permission query does not; `InForceIsLineage` reduces
each branch to a step up the tree. `AccessMovesWithGrants` rests on `LineageStays`: the
lineage of a scope that is there before and after a step is the same, as no operation
moves a project or a resource to another parent.

**`ListsProofs`** is about the three parts of the web application whose lists are read
while they are changed.

* *Secrets*: `SecretsTypeOK`, the refinement `ValuesKept` and `CreatedRefResolves`. The
  invariant is the type invariant and `Backed`: a form to edit has a draft, and what a page
  knows or a reading has read of a secret is there. So an update that a page asked for
  replaces what was on the screen, however much later it is applied, and a creation is
  refused where there are values. `StepStores` maps every action to a `Look`, an `Ask`, a
  `Write`, a `Fail` or a stutter. `AddedStored` adds that a
  creation both of whose requests are answered has left its values in the cluster; nothing
  takes them away before the selector refers to them.
* *Grants*: all four properties of the access pages. The invariant is `StoreFilled`, the
  store has the scope of the page that grants; `ListKept`: what the fetch of the list on the
  screen has read is the server's, or it will be asked again, since a change that is applied
  later has an answer to come that refetches; and `FirstReads`: a first request that no
  change has overtaken has read what the server has, whichever page is there, so that
  whoever comes to join it can rely on it.
* *Portal*: `ListsOwnProjects` and `LoginReturns`. `ReturnKnown` says that who is at the
  log-in of a page carries its address; `ListFollows` and `ReadFollows` say of the list
  and of what its request has read what `ListKept` says above; `FetchesStale` that a list
  which is there is fetched again only when it is stale, so that an invalidation begins
  the request anew.

**`WizardProofs`** proves all four properties of the wizard: `WizardTypeOK`, `SpinnerEnds`,
`SentComplete` and `AnswersKeepPlace`. The list of steps is a concatenation that depends on
the address, the form and what is known of billing; `ListedShape` and `StepsShape` say once
how long it is and what stands where, before a step as after it, and everything else
compares the index to `TierIndex`, the place of the configuration, which only the address
moves. None of the properties but `SpinnerEnds` is inductive. `WizardInv` adds `PastFits`:
whoever is past the configuration, or has the dialog open or a card submitted, has a
project and a type of the catalogue, and so has every request whose answer will go on by a
step (`asking` and `making`, the continuations that close over an earlier render). Hence
the last step is reached with both, wherever the index was carried meanwhile. `SkuFits`
says that a type has a sku of its own, `ProjectFits` that nothing is asked or made before
there is a list of projects, `Closed` that a page which is not mounted has no state.
Every action is one of three kinds: it ends with the effects of a render (`OpenFits`),
it leaves the list and the place (`StayFits`), or it touches nothing of the page
(`SameFits`); the lemma of each action gives what the kind asks for. `AnswersKeepPlace`
needs that an answer nothing waits for comes from `StatusAnswered` alone
(`OnlyAnswersEnd`), and that up to the configuration the list does not depend on billing.

**`PagesProofs`** proves `EditsKept`, `PollsWhileTransient` and `EditorTypeOK` of `Editor`,
`WatchTypeOK` and `AccountTypeOK`, from the initial states and steps alone (`EditorSteps`
and the like): no fairness is needed. `PollsWhileTransient` is inductive because every step
that changes what a render looks at ends with one (`StepsRender`). `EditsKept` needs
`EditorInv`: a form is on the screen only with a graph's copy shown (`FormShown`), the
server's row keeps the type of the copy (`OfResource`), so that the copy that arrives is a
graph's too and the form is not taken down, and the documents are sequences within their
bounds (`EditorFits`). `AccountInv` adds to the type invariant that an operation under way is
one of the three and that nobody waits for the fetch of a page that is gone; `ResumeStep`
says of a fetch that ends that all who waited for it are gone, including where the
effect makes a subscription at the same moment.

**`WebProofs`** shows that the composition implements the specification of each part
(`WebOfParts`): a step of one part leaves the variables of the others, and is a
stutter of theirs, and the starting states of `Web` are starting states of theirs. The
theorems of the seven parts then hold of `Web`.

**`BillingProofs`** proves `TypeOK` for any resources, tiers and requests at the same
time, and of `SubscriptionOfCustomer` and `ChargedFirst` what they say of any number of
them: both hold up to the first call that writes between those of another request, and
say so by `apart`, a history of the model, not by an assumption on the constants. The
first invariant, `BillingInv`, says at which calls an operation can be (`Stage`) and
what its request carries there (`Fits`): a subscription that has been made wherever one
is read or written, a row from the read on, and a positive quantity before one is
subtracted. The second, `SerialInv`, says that what every request has read is still so
while `apart` lasts (`Tied`): the customer and the subscription of the account, the row,
and, once it is past Stripe, the tier on the account's subscription. A call that writes
keeps it since every other request is `Unread` then and has nothing to be tied to. A
subscription that ends meanwhile changes its status, not its items or its customer, and
so disturbs none of it.

**`BillProofs`** proves `NotOvercharged` and `BillExact`, again for any number of
requests. The bill is a cardinality, of the pairs of a subscription in use and a unit of
its item (`Charges`), so that the facts about finite sets apply to it. Neither property
is inductive: between a charge and its row the two differ by one. While `apart` and
`clean` last, at most one request is `Pending`: its call to Stripe is made and its own
write to the database is not. `Ledger` says that the `Books` of every request beside
which no other is pending are right. `Books` says by how much bill and rows differ at
every call of an operation. `OwnExact` is the balance: the account's subscription
charges for the rows and for what the request is `Ahead` of them, one more once it has
`Put` a charge that no row has yet, one less once it has `Taken` one off whose row is
still there, and no more than that after some subscription has ended. `OthersFree` and
`Made` say what other subscriptions charge for: nothing, but for the one that a request
has made and not yet given to the account. `Carries` says that what the request has read
is still so, so that the quantity it writes, one more or less than what it read, is the
one the balance wants. When a request has written what followed from its call, its books
are the others' too, who have read nothing yet (`SharedBooks`). A fault after a call to
Stripe ends `clean` and with it what `Ledger` says, as it ends what the properties say.
`NextLedger` has one case per call; `BilledOwn` turns the balance of the one
subscription into the bill.

When calls of requests fall between each other nothing that was read need still be so,
and `Ledger` says nothing. The other half of `BilledForNoMore` rests on a bound instead
(`Joint`). `Due` counts the rows of a tier and the requests that have charged for one
and are about to insert it; `Bounded` says that items charge for no more than is due.
Under `Growing`, where no operation is an update or a deletion, what is due never falls
while `clean` lasts, so that what was bounded when a request read it is bounded when it
writes: one more than it read is no more than is due once it is about to insert. `Even`
says so of the account's subscription (`OwnBounded`) and of what every request carries
(`Shares`), that no two requests hold the same new subscription (`MadeApart`) and that
any other charges for nothing (`NoneElse`). `EvenStep` is the one place where the other
requests are looked at: it asks of a step that nothing due is lost, that only the
account's own subscription changes its items, and that the account moves only to a
subscription handed to it while it had none to lose. `Growing` cannot be dropped: with a
deletion among the requests TLC finds one that read a free resource and erases the paid
one which a second deletion and a creation have meanwhile put under its id.

**Model-checked only**: every liveness property (`LoginAnswered`, `AdmittedUnlessLockedOut`,
`TransientRefreshed`, `FailureTold`, `UpdatingEnds`), as liveness under fairness is out of the
prover's reach. Every other property of a passing run is a theorem.

## Not modelled

* *Server*: tokens and their validation, service accounts (they skip
  `ensureUserExists`), expiry; the listing operations other than the list of a user's
  resources; the organization's billing account and amounts of money (the portal and
  set-up intents do to the account what `GetBillingInfo` does, the request `info`);
  configuration, validation and deployment. The proxies and the secrets service keep no
  state: they are met as what the pages' requests are answered with.
* `GET` of a single resource checks the project's permission, not the resource's: a user
  with a role on the resource alone sees it in the list (`ListMatchesCheck` speaks of
  the check at the resource's own scope) but cannot open it.
* *Migrator*: its loop executes a file and records it. What happens when it stops in
  between, or runs twice, depends on whether each file's SQL can run twice, which
  a model would have to assume.
* *Access with Billing*: what the cascade of an organization's deletion leaves in Stripe.
  Both state spaces are at the limit of what a run can take; the cascade reaches no
  table that names a subscription, which can be read in the schema.
* *Web*: the pages of organizations (a list, and a name edited as a project's is), layout,
  charts and downloads, the consent to cookies, and two tabs of one user at once: the
  other tab is there only as other changes of the server's state where a part allows
  them.

## Plan

Done: the server's modules, the web application's, their composition, the refinement of
`SecretStore` and the proofs above. What is left:

1. An abstract ledger of invitations (a grant is pending, held or revoked) that `Identity`
   implements outside the merge window.
2. An abstract bill (one charge per resource) that `Billing` implements for serial requests
   without faults.
