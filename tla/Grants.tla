-------------------------------- MODULE Grants --------------------------------
(* Access to a scope in the web application: AccessControl, the list of a     *)
(* scope's role assignments with its removal dialog, and                      *)
(* CreateRoleAssignmentPage, which grants.  The list is a cached query, one   *)
(* for each scope, that is read by one request and changed by others,         *)
(* answered in any order; a request goes on when its page is left, and one    *)
(* for a list without data is joined by whoever asks again.  The page that    *)
(* grants takes the scope of its request from a store which both pages write. *)
(* One user changes the assignments.                                          *)
EXTENDS FiniteSets

CONSTANTS
  Scopes,      \* organizations, projects and resources
  Members,     \* users, as an id or as text entered to invite one
  Nobody       \* no user, no scope, no request, no data

\* A request to change: where, whose role, whether its page is still there, and
\* whether the server has applied it.
AllChanges == [scope : Scopes, user : Members, live : BOOLEAN, done : BOOLEAN]

ASSUME GrantBounds ==
  /\ Nobody \notin Members \cup Scopes \cup AllChanges
  /\ \A users \in SUBSET Members : users # Nobody

VARIABLES
  assigned,    \* the server: who has a role, by scope
  desk,        \* "away", "list" or "grant": the page
  scope,       \* the scope of the route
  context,     \* the access store's scope
  cached,      \* the lists' queries, by scope: Nobody without data
  fetch,       \* their requests: what one has read, and whether a change overtook it
  behind,      \* history: what the list on the screen may lack has no request to come
  allowed,     \* the page knows of manage_access
  asked,       \* removeConfirmation
  removal,     \* useRemoveUser's request; live while its page is there
  hits,        \* UserSelector: Nobody while it searches, or the users found
  user,        \* selectedUser
  role,        \* a role is selected
  grant        \* useInviteUser's request; live while its page is there

grantPageVars == <<hits, user, role>>
accessListVars == <<cached, fetch, behind, allowed, asked>>
grantsVars == <<assigned, desk, scope, context, accessListVars, removal, grantPageVars, grant>>
-----------------------------------------------------------------------------
NoFetch   == [stage |-> "none", value |-> {}, overtaken |-> FALSE]
Refetched == [stage |-> "asked", value |-> {}, overtaken |-> FALSE]
ListShown(s) == desk = "list" /\ scope = s
Shown(s) == IF cached[s] = Nobody THEN {} ELSE cached[s]
Change(s, u) == [scope |-> s, user |-> u, live |-> TRUE, done |-> FALSE]
Orphan(c) == IF c = Nobody THEN c ELSE [c EXCEPT !.live = FALSE]
IsPending(c) == c # Nobody /\ c.live

GrantsInit ==
  /\ assigned \in [Scopes -> SUBSET Members]
  /\ desk = "away" /\ scope = Nobody /\ context = Nobody
  /\ cached = [s \in Scopes |-> Nobody] /\ fetch = [s \in Scopes |-> NoFetch] /\ behind = FALSE
  /\ allowed = FALSE /\ asked = Nobody /\ removal = Nobody
  /\ hits = {} /\ user = Nobody /\ role = FALSE /\ grant = Nobody

\* A list is fetched again in place of a request under way, if it has data; a
\* first request is joined.
ListAgain(s) == fetch' = IF cached[s] = Nobody /\ fetch[s].stage # "none" THEN fetch
                       ELSE [fetch EXCEPT ![s] = Refetched]

\* History: the server changes a scope whose first request has read it already.
OvertakesList(s) ==
  fetch' = [fetch EXCEPT ![s].overtaken = @ \/ (cached[s] = Nobody /\ fetch[s].stage = "read")]

\* Mutant: a removal under way is taken for the next page's.
PageGoesLive ==
  /\ allowed' = FALSE /\ asked' = Nobody /\ hits' = {} /\ user' = Nobody /\ role' = FALSE
  /\ UNCHANGED removal

\* A page goes with its state and the callbacks of its requests; the requests
\* go on, those of the lists too.
PageGoes ==
  /\ allowed' = FALSE /\ asked' = Nobody /\ hits' = {} /\ user' = Nobody /\ role' = FALSE
  /\ removal' = Orphan(removal)

\* AccessControl mounts: the effect fills the store and fetches, whatever the
\* cache holds; a first request of an earlier visit is joined.
MountList(s) ==
  /\ desk' = "list" /\ scope' = s /\ context' = s
  /\ ListAgain(s) /\ behind' = FALSE
  /\ UNCHANGED <<assigned, cached>>

\* Mutant: the store keeps the scope that the last page gave it.
MountGrantElsewhere(s) ==
  /\ desk' = "grant" /\ scope' = s /\ behind' = FALSE
  /\ UNCHANGED <<assigned, cached, fetch, context>>

\* CreateRoleAssignmentPage mounts: the effect fills the store from the route.
MountGrant(s) ==
  /\ desk' = "grant" /\ scope' = s /\ context' = s /\ behind' = FALSE
  /\ UNCHANGED <<assigned, cached, fetch>>

OpenAccess(s) == desk = "away" /\ MountList(s) /\ PageGoes /\ UNCHANGED grant
OpenGrant(s)  == desk = "away" /\ MountGrant(s) /\ PageGoes /\ UNCHANGED grant

\* "Grant Access", and "Cancel", which goes back.
GrantAccess == desk = "list" /\ allowed /\ MountGrant(scope) /\ PageGoes /\ UNCHANGED grant
CancelGrant == desk = "grant" /\ MountList(scope) /\ PageGoes /\ grant' = Orphan(grant)

LeaveAccess ==
  /\ desk # "away" /\ desk' = "away" /\ scope' = Nobody /\ behind' = FALSE
  /\ PageGoes /\ grant' = Orphan(grant) /\ UNCHANGED <<assigned, context, cached, fetch>>
-----------------------------------------------------------------------------
(* The list.                                                                 *)
OnList == desk = "list" /\ UNCHANGED <<desk, scope, context, grantPageVars, grant>>

\* The requests of a list, on the screen or left.
Lists == UNCHANGED <<assigned, desk, scope, context, allowed, asked, removal, grantPageVars, grant>>

ServerLists(s) ==
  /\ Lists /\ fetch[s].stage = "asked"
  /\ fetch' = [fetch EXCEPT ![s] = [stage |-> "read", value |-> assigned[s], overtaken |-> FALSE]]
  /\ UNCHANGED <<cached, behind>>

ListShows(s) ==
  /\ Lists /\ fetch[s].stage = "read"
  /\ cached' = [cached EXCEPT ![s] = fetch[s].value] /\ fetch' = [fetch EXCEPT ![s] = NoFetch]
  /\ behind' = IF ListShown(s) THEN (behind \/ fetch[s].overtaken) /\ fetch[s].value # assigned[s]
               ELSE behind

\* After its retries, or, when it is left, at once: the page shows what it had,
\* and no error.
ListingFails(s) ==
  /\ Lists /\ fetch[s].stage # "none" /\ fetch' = [fetch EXCEPT ![s] = NoFetch]
  /\ behind' = (behind \/ ListShown(s)) /\ UNCHANGED cached

\* Ten minutes without a page: the data go.
Collected(s) ==
  /\ Lists /\ ~ListShown(s) /\ fetch[s].stage = "none" /\ cached[s] # Nobody
  /\ cached' = [cached EXCEPT ![s] = Nobody] /\ UNCHANGED <<fetch, behind>>

\* The window comes to the front and the data are old.
Refocus ==
  /\ OnList /\ fetch[scope].stage = "none" /\ ListAgain(scope)
  /\ UNCHANGED <<assigned, cached, behind, allowed, asked, removal>>

MayManage ==
  /\ OnList /\ ~allowed /\ allowed' = TRUE
  /\ UNCHANGED <<assigned, cached, fetch, behind, asked, removal>>

\* Mutant: the menu is enabled while a removal is under way.
AskRemoveAnyway(u) ==
  /\ OnList /\ asked = Nobody /\ u \in Shown(scope) /\ allowed
  /\ asked' = u /\ UNCHANGED <<assigned, cached, fetch, behind, allowed, removal>>

\* The menu of a row; the dialog keeps the row even if the list loses it.
AskRemove(u) ==
  /\ OnList /\ asked = Nobody /\ u \in Shown(scope) /\ allowed /\ ~IsPending(removal)
  /\ asked' = u /\ UNCHANGED <<assigned, cached, fetch, behind, allowed, removal>>

CancelRemove ==
  /\ OnList /\ asked # Nobody /\ asked' = Nobody
  /\ UNCHANGED <<assigned, cached, fetch, behind, allowed, removal>>

\* The dialog's action sends the request and closes the dialog.  Bound: a
\* removal left under way by an earlier visit is answered first.
HandleRemoveUser ==
  /\ OnList /\ asked # Nobody /\ removal = Nobody
  /\ removal' = Change(scope, asked) /\ asked' = Nobody
  /\ UNCHANGED <<assigned, cached, fetch, behind, allowed>>

ServerRemoves ==
  /\ removal # Nobody /\ ~removal.done /\ removal.user \in assigned[removal.scope]
  /\ assigned' = [assigned EXCEPT ![removal.scope] = @ \ {removal.user}]
  /\ removal' = [removal EXCEPT !.done = TRUE] /\ OvertakesList(removal.scope)
  /\ UNCHANGED <<desk, scope, context, cached, behind, allowed, asked, grantPageVars, grant>>

\* Mutant: the list is not fetched again.
RemovalSucceedsQuietly ==
  /\ removal # Nobody /\ removal.done /\ removal' = Nobody
  /\ asked' = IF removal.live THEN Nobody ELSE asked
  /\ UNCHANGED <<assigned, desk, scope, context, cached, fetch, behind, allowed, grantPageVars, grant>>

\* The hook fetches the list again if it is on the screen; the page's own
\* callback closes the dialog.
RemovalSucceeds ==
  /\ removal # Nobody /\ removal.done /\ removal' = Nobody
  /\ IF ListShown(removal.scope) THEN ListAgain(removal.scope) ELSE UNCHANGED fetch
  /\ asked' = IF removal.live THEN Nobody ELSE asked
  /\ UNCHANGED <<assigned, desk, scope, context, cached, behind, allowed, grantPageVars, grant>>

\* Refused, or the answer is lost.
RemovalFails ==
  /\ removal # Nobody /\ removal' = Nobody /\ behind' = TRUE
  /\ UNCHANGED <<assigned, desk, scope, context, cached, fetch, allowed, asked, grantPageVars, grant>>
-----------------------------------------------------------------------------
(* The page that grants.                                                     *)
OnGrant == desk = "grant" /\ UNCHANGED <<assigned, desk, scope, context, accessListVars, removal>>

\* A text of five characters or more is searched for.  One of four finds
\* nobody without a request, and nobody is what a failed search finds.
SearchUsers ==
  /\ OnGrant /\ hits' \in {Nobody, {}} /\ UNCHANGED <<user, role, grant>>
SearchArrives ==
  /\ OnGrant /\ hits = Nobody /\ hits' \in SUBSET Members /\ UNCHANGED <<user, role, grant>>

\* A user found, or, where nobody was, whoever the text invites.
SelectUser(u) ==
  /\ OnGrant /\ hits # Nobody /\ u \in (IF hits = {} THEN Members ELSE hits)
  /\ user' = u /\ UNCHANGED <<hits, role, grant>>
SelectRole ==
  /\ OnGrant /\ ~role /\ role' = TRUE /\ UNCHANGED <<hits, user, grant>>

\* Bound: a grant left under way by an earlier visit is answered first.
HandleSubmit ==
  /\ OnGrant /\ user # Nobody /\ role /\ grant = Nobody
  /\ grant' = Change(context, user) /\ UNCHANGED grantPageVars

\* The server adds an assignment that is not there yet.
ServerGrants ==
  /\ grant # Nobody /\ ~grant.done /\ grant.user \notin assigned[grant.scope]
  /\ assigned' = [assigned EXCEPT ![grant.scope] = @ \cup {grant.user}]
  /\ grant' = [grant EXCEPT !.done = TRUE]
  /\ behind' = (behind \/ ListShown(grant.scope)) /\ OvertakesList(grant.scope)
  /\ UNCHANGED <<desk, scope, context, cached, allowed, asked, removal, grantPageVars>>

\* The page goes to the list of its scope.  The hook invalidates the list under
\* the name that the page made up for the scope, which no list is cached under.
GrantSucceeds ==
  /\ grant # Nobody /\ grant.done /\ grant' = Nobody
  /\ IF grant.live THEN MountList(scope) /\ PageGoes
     ELSE UNCHANGED <<assigned, desk, scope, context, accessListVars, removal, grantPageVars>>

GrantFails ==
  /\ grant # Nobody /\ grant' = Nobody
  /\ UNCHANGED <<assigned, desk, scope, context, accessListVars, removal, grantPageVars>>
-----------------------------------------------------------------------------
AccessControl ==
  \/ \E s \in Scopes : ServerLists(s) \/ ListShows(s) \/ ListingFails(s) \/ Collected(s)
  \/ Refocus \/ MayManage
  \/ \E u \in Members : AskRemove(u)
  \/ CancelRemove \/ HandleRemoveUser \/ ServerRemoves \/ RemovalSucceeds \/ RemovalFails

CreateRoleAssignment ==
  \/ SearchUsers \/ SearchArrives \/ SelectRole \/ HandleSubmit
  \/ \E u \in Members : SelectUser(u)
  \/ ServerGrants \/ GrantSucceeds \/ GrantFails

GrantsNext ==
  \/ \E s \in Scopes : OpenAccess(s) \/ OpenGrant(s)
  \/ GrantAccess \/ CancelGrant \/ LeaveAccess
  \/ AccessControl \/ CreateRoleAssignment

GrantsSpec == GrantsInit /\ [][GrantsNext]_grantsVars
-----------------------------------------------------------------------------
(* Properties.                                                               *)

\* Types; a page has a scope; a request that is live has its page.
GrantsTypeOK ==
  /\ assigned \in [Scopes -> SUBSET Members] /\ cached \in [Scopes -> (SUBSET Members) \cup {Nobody}]
  /\ desk \in {"away", "list", "grant"} /\ (desk # "away" => scope \in Scopes)
  /\ fetch \in [Scopes -> [stage : {"none", "asked", "read"}, value : SUBSET Members, overtaken : BOOLEAN]]
  /\ removal \in AllChanges \cup {Nobody} /\ grant \in AllChanges \cup {Nobody}
  /\ IsPending(removal) => desk = "list"
  /\ IsPending(grant) => desk = "grant"
  /\ asked \in Members \cup {Nobody} /\ user \in Members \cup {Nobody}

\* The list settles on what the server has: whatever order requests to read
\* and to change were answered in, no removed user stays listed and no granted
\* one is missing once nothing is under way (AccessControl's effect and
\* useRemoveUser's invalidation).  Apart from a request that failed, a list may
\* be behind where a change overtook its first request, which is joined when
\* the page comes back, and where a grant was left by its page.
ListsOwnChanges ==
  /\ desk = "list" /\ fetch[scope].stage = "none" /\ ~behind
  /\ removal = Nobody \/ ~removal.done
  /\ grant = Nobody \/ ~grant.done
  => cached[scope] = assigned[scope]

\* The answer to one removal finds no dialog of another to close
\* (handleRemoveUser's onSuccess).
AnswerFindsNoDialog == asked # Nobody => ~IsPending(removal)

\* The request goes to the scope whose page the user sees, whichever page
\* filled the store last (CreateRoleAssignmentPage, useInviteUser(context)).
GrantsWhereItSays ==
  [][grant' # Nobody /\ grant = Nobody => grant'.scope = scope]_grantsVars
=============================================================================
