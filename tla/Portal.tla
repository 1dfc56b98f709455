-------------------------------- MODULE Portal --------------------------------
(* The frame of the web application: the guard of its routes and the way      *)
(* through the log-in and back, the redirect from the root to a project, and  *)
(* the list of projects, one query that every page observes and that creating *)
(* and deleting a project invalidate.  One user changes the projects.         *)
EXTENDS FiniteSets

CONSTANTS
  ProjectIds,  \* ids of projects, each its project's name as well
  Nothing      \* no list yet, no request, no address

\* Requests: what they are about, and whether the server has applied them; a
\* deletion's page may be gone.
Deletions == [project : ProjectIds, live : BOOLEAN, done : BOOLEAN]
Creations == [project : ProjectIds, done : BOOLEAN]

Addresses == {"root", "list"} \cup ProjectIds

ASSUME PortalBounds == Nothing \notin Addresses \cup Deletions \cup Creations

VARIABLES
  session,     \* "closed", "loading", "in", and at the log-in: "login",
               \* "callback"; "relogin", "recallback" when a session expired
  at,          \* the address: "root", "list" or a project
  returnTo,    \* appState of the log-in
  existing,    \* the server's projects
  listing,     \* useProjects' data
  stale,       \* they were invalidated
  listingFetch, \* the request for them, and what it has read
  overtaken,   \* history: a change overtook the first request, or its answer was lost
  lastProjectId, \* the project store, which a reload keeps
  loaded,      \* useProject has the project of the page
  dialogOpen,  \* isDeleteDialogOpen
  confirmText, \* DeleteProjectDialog's
  deleting,    \* useDeleteProject's request; live while the page is there
  newProject,  \* useCreateProject's request
  naming,      \* isEditingName: the project whose name was taken to edit
  renaming     \* useUpdateProject's request: its project

pageState  == <<loaded, dialogOpen, confirmText, naming>>
queryState == <<listing, stale, listingFetch, overtaken>>
requests   == <<deleting, newProject, renaming>>
portalVars == <<session, at, returnTo, existing, lastProjectId, queryState, pageState, requests>>
-----------------------------------------------------------------------------
NoList  == [stage |-> "none", value |-> {}]
AskList == [stage |-> "asked", value |-> {}]
OnProject == at \in ProjectIds

PortalInit ==
  /\ session = "closed" /\ at = "root" /\ returnTo = Nothing
  /\ existing \in SUBSET ProjectIds /\ lastProjectId \in ProjectIds \cup {Nothing}
  /\ listing = Nothing /\ stale = FALSE /\ listingFetch = NoList /\ overtaken = FALSE
  /\ loaded = FALSE /\ dialogOpen = FALSE /\ confirmText = Nothing
  /\ deleting = Nothing /\ newProject = Nothing /\ naming = Nothing /\ renaming = Nothing

\* The application goes; addresses and the project store stay.
Unload ==
  /\ listing' = Nothing /\ stale' = FALSE /\ listingFetch' = NoList /\ overtaken' = FALSE
  /\ loaded' = FALSE /\ dialogOpen' = FALSE /\ confirmText' = Nothing
  /\ deleting' = Nothing /\ newProject' = Nothing /\ naming' = Nothing /\ renaming' = Nothing
  /\ UNCHANGED <<existing, lastProjectId>>

\* ProjectAutoRedirect at the root: the last project if the list has it, else
\* the first; none, and the list is shown.
Redirect(loc, list) ==
  IF loc # "root" \/ list = Nothing \/ list = {} THEN {loc}
  ELSE IF lastProjectId \in list THEN {lastProjectId} ELSE list

\* A page mounts: it fetches the list if there is none or it was invalidated.
Mount(loc) ==
  /\ at' \in Redirect(loc, listing)
  /\ listingFetch' = IF listingFetch.stage = "none" /\ (listing = Nothing \/ stale)
                     THEN AskList ELSE listingFetch
  /\ UNCHANGED <<listing, stale, overtaken>>

\* The project page is the same component for every project: its state goes
\* only when it is left for another page, and the answer to a change of the
\* name is no longer followed; the dialog needs the project's data.
PageStays(there) ==
  /\ loaded' \in (IF there THEN BOOLEAN ELSE {FALSE})
  /\ dialogOpen' = (there /\ dialogOpen)
  /\ confirmText' = IF loaded' THEN confirmText ELSE Nothing
  /\ naming' = IF there THEN naming ELSE Nothing
  /\ renaming' = IF there THEN renaming ELSE Nothing
  /\ deleting' = IF there \/ deleting = Nothing THEN deleting ELSE [deleting EXCEPT !.live = FALSE]
-----------------------------------------------------------------------------
(* The guard and the log-in.                                                 *)
VisitPortal(loc) ==
  /\ session = "closed" /\ session' = "loading" /\ at' = loc
  /\ Unload /\ UNCHANGED returnTo

\* ProtectedRoute with a session.
Admitted ==
  /\ session = "loading" /\ session' = "in" /\ Mount(at)
  /\ UNCHANGED <<returnTo, existing, lastProjectId, pageState, requests>>

\* Mutant: without the address.
SentToLoginBare ==
  /\ session = "loading" /\ session' = "login" /\ returnTo' = Nothing
  /\ Unload /\ UNCHANGED at

\* ProtectedRoute without one: to the log-in, with the address to come back to.
SentToLogin ==
  /\ session = "loading" /\ session' = "login" /\ returnTo' = at
  /\ Unload /\ UNCHANGED at

\* handleApiError: a request finds that the session is over.
SessionExpires ==
  /\ session = "in"
  /\ listingFetch.stage # "none" \/ deleting # Nothing \/ newProject # Nothing \/ renaming # Nothing
  /\ session' = "relogin" /\ returnTo' = Nothing
  /\ Unload /\ UNCHANGED at

\* Auth0 comes back to /callback.
LoggedIn ==
  /\ session \in {"login", "relogin"}
  /\ session' = IF session = "login" THEN "callback" ELSE "recallback"
  /\ UNCHANGED <<at, returnTo, existing, lastProjectId, queryState, pageState, requests>>

LoginFails ==
  /\ session \in {"login", "relogin"} /\ session' = "closed" /\ at' = "root" /\ returnTo' = Nothing
  /\ Unload

OnRedirectCallback ==
  /\ session \in {"callback", "recallback"} /\ session' = "loading"
  /\ at' = IF returnTo # Nothing THEN returnTo ELSE "list"
  /\ returnTo' = Nothing /\ Unload

CloseTab == session = "in" /\ session' = "closed" /\ at' = "root" /\ UNCHANGED returnTo /\ Unload
-----------------------------------------------------------------------------
(* The pages.                                                                *)
In == session = "in" /\ UNCHANGED <<session, returnTo>>

\* A link, the sidebar's selector or the browser's history.
Navigate(loc) ==
  /\ In /\ loc # at /\ Mount(loc)
  /\ PageStays(OnProject /\ loc \in ProjectIds)
  /\ UNCHANGED <<existing, lastProjectId, newProject>>

ServerListsProjects ==
  /\ In /\ listingFetch.stage = "asked"
  /\ listingFetch' = [stage |-> "read", value |-> existing]
  /\ UNCHANGED <<at, existing, lastProjectId, listing, stale, overtaken, pageState, requests>>

ProjectsArrived ==
  /\ In /\ listingFetch.stage = "read"
  /\ listing' = listingFetch.value /\ stale' = FALSE /\ listingFetch' = NoList
  /\ overtaken' = (overtaken /\ listing' # existing)
  /\ at' \in Redirect(at, listing')
  /\ UNCHANGED <<existing, lastProjectId, pageState, requests>>

ProjectsFailed ==
  /\ In /\ listingFetch.stage # "none" /\ listingFetch' = NoList
  /\ UNCHANGED <<at, existing, lastProjectId, listing, stale, overtaken, pageState, requests>>

\* ProjectLayout remembers a project whose data have come.
ProjectLoads ==
  /\ In /\ at \in existing /\ (~loaded \/ lastProjectId # at)
  /\ loaded' = TRUE /\ lastProjectId' = at
  /\ UNCHANGED <<at, existing, queryState, dialogOpen, confirmText, naming, requests>>

\* Mutant: the list is left as it is.
LeaveProjects == UNCHANGED <<stale, listingFetch, listing>>

\* invalidateQueries: a request under way is begun again, unless it is the
\* first, which it joins.
InvalidateProjects ==
  /\ stale' = TRUE
  /\ listingFetch' = IF listing = Nothing /\ listingFetch.stage # "none" THEN listingFetch ELSE AskList
  /\ UNCHANGED listing

\* A change that the first request has not read and will not be asked about.
Overtakes == overtaken' = (overtaken \/ (listing = Nothing /\ listingFetch.stage = "read"))
-----------------------------------------------------------------------------
(* Creating and deleting.                                                    *)
CreateProjectHere(p) ==
  /\ In /\ at \in {"root", "list"} /\ listing # Nothing /\ newProject = Nothing /\ p \notin existing
  /\ newProject' = [project |-> p, done |-> FALSE]
  /\ UNCHANGED <<at, existing, lastProjectId, queryState, pageState, deleting, renaming>>

ServerCreatesProject ==
  /\ In /\ newProject # Nothing /\ ~newProject.done
  /\ existing' = existing \cup {newProject.project} /\ newProject' = [newProject EXCEPT !.done = TRUE]
  /\ Overtakes
  /\ UNCHANGED <<at, lastProjectId, listing, stale, listingFetch, pageState, deleting, renaming>>

CreateProjectSucceeds ==
  /\ In /\ newProject # Nothing /\ newProject.done /\ newProject' = Nothing
  /\ InvalidateProjects
  /\ UNCHANGED <<at, existing, lastProjectId, overtaken, pageState, deleting, renaming>>

\* Refused, or the answer is lost.
CreateProjectFails ==
  /\ In /\ newProject # Nothing /\ newProject' = Nothing /\ overtaken' = (overtaken \/ newProject.done)
  /\ UNCHANGED <<at, existing, lastProjectId, listing, stale, listingFetch, pageState, deleting, renaming>>

Dialog == In /\ OnProject /\ UNCHANGED <<at, existing, lastProjectId, queryState, loaded, newProject, naming, renaming>>

OpenDeleteProject ==
  /\ Dialog /\ ~dialogOpen /\ loaded /\ dialogOpen' = TRUE /\ UNCHANGED <<confirmText, deleting>>

EnterProjectName ==
  /\ Dialog /\ dialogOpen /\ loaded /\ deleting = Nothing
  /\ confirmText' = at /\ UNCHANGED <<dialogOpen, deleting>>

CancelDeleteProject ==
  /\ Dialog /\ dialogOpen /\ loaded /\ deleting = Nothing
  /\ dialogOpen' = FALSE /\ confirmText' = Nothing /\ UNCHANGED deleting

\* Bound: a deletion left under way by an earlier visit, and a change of the
\* name, are answered first.
HandleDeleteProject ==
  /\ Dialog /\ dialogOpen /\ loaded /\ confirmText = at /\ deleting = Nothing
  /\ renaming = Nothing
  /\ deleting' = [project |-> at, live |-> TRUE, done |-> FALSE]
  /\ UNCHANGED <<dialogOpen, confirmText>>

ServerDeletesProject ==
  /\ In /\ deleting # Nothing /\ ~deleting.done /\ deleting.project \in existing
  /\ existing' = existing \ {deleting.project} /\ deleting' = [deleting EXCEPT !.done = TRUE]
  /\ Overtakes
  /\ UNCHANGED <<at, lastProjectId, listing, stale, listingFetch, pageState, newProject, renaming>>

\* The page goes to the list, whichever project it shows by then.
DeleteProjectSucceeds ==
  /\ In /\ deleting # Nothing /\ deleting.done /\ deleting' = Nothing
  /\ InvalidateProjects
  /\ IF deleting.live
     THEN /\ at' = "list" /\ loaded' = FALSE /\ dialogOpen' = FALSE /\ confirmText' = Nothing
          /\ naming' = Nothing /\ renaming' = Nothing
     ELSE UNCHANGED <<at, pageState, renaming>>
  /\ UNCHANGED <<existing, lastProjectId, overtaken, newProject>>

\* The page closes the dialog, past the handler that empties it.
DeleteProjectFails ==
  /\ In /\ deleting # Nothing /\ deleting' = Nothing /\ overtaken' = (overtaken \/ deleting.done)
  /\ dialogOpen' = (dialogOpen /\ ~deleting.live)
  /\ UNCHANGED <<at, existing, lastProjectId, listing, stale, listingFetch, loaded, confirmText, newProject, naming, renaming>>

-----------------------------------------------------------------------------
(* The name of the project, edited in its page's header.  What was entered    *)
(* for one project stays when the page turns to another.                      *)
Header == /\ In /\ OnProject /\ ~(dialogOpen /\ loaded)
          /\ UNCHANGED <<at, existing, lastProjectId, queryState, loaded, dialogOpen, confirmText,
                         deleting, newProject>>

\* Bound: not while projects are created and deleted.
EditProjectName ==
  /\ Header /\ naming = Nothing /\ requests = <<Nothing, Nothing, Nothing>>
  /\ naming' = at /\ UNCHANGED renaming
CancelProjectName == Header /\ naming # Nothing /\ naming' = Nothing /\ UNCHANGED renaming

\* The name the page shows ends the editing; another is sent for the project
\* of the page.  Bound: one request at a time, and no deletion or creation beside
\* it.
SaveProjectName ==
  /\ Header /\ naming # Nothing
  /\ \/ naming' = Nothing /\ UNCHANGED renaming
     \/ requests = <<Nothing, Nothing, Nothing>> /\ renaming' = at /\ UNCHANGED naming

RenameAnswered(editing) ==
  /\ In /\ renaming # Nothing /\ renaming' = Nothing /\ naming' = editing
  /\ UNCHANGED <<at, existing, lastProjectId, overtaken, loaded, dialogOpen, confirmText, deleting, newProject>>

\* The answer ends whichever editing it finds on the page.
RenameSucceeds ==
  /\ renaming \in existing
  /\ RenameAnswered(Nothing) /\ InvalidateProjects

RenameFails == RenameAnswered(naming) /\ UNCHANGED <<listing, stale, listingFetch>>

LoginNext ==
  \/ \E loc \in Addresses : VisitPortal(loc) \/ Navigate(loc)
  \/ Admitted \/ SentToLogin \/ SessionExpires \/ LoggedIn \/ LoginFails
  \/ OnRedirectCallback \/ CloseTab

ProjectsNext ==
  \/ ServerListsProjects \/ ProjectsArrived \/ ProjectsFailed \/ ProjectLoads
  \/ \E p \in ProjectIds : CreateProjectHere(p)
  \/ ServerCreatesProject \/ CreateProjectSucceeds \/ CreateProjectFails
  \/ OpenDeleteProject \/ EnterProjectName \/ CancelDeleteProject \/ HandleDeleteProject
  \/ ServerDeletesProject \/ DeleteProjectSucceeds \/ DeleteProjectFails
  \/ EditProjectName \/ CancelProjectName \/ SaveProjectName \/ RenameSucceeds \/ RenameFails

PortalNext == LoginNext \/ ProjectsNext
PortalSpec == PortalInit /\ [][PortalNext]_portalVars
-----------------------------------------------------------------------------
(* Properties.                                                               *)

\* The list that every page shows settles on the server's: whatever page a
\* request was begun from or answered on, no deleted project stays in it and no
\* new one is missing once nothing is under way (the invalidations of
\* useCreateProject and useDeleteProject).
ListsOwnProjects ==
  /\ session = "in" /\ listing # Nothing /\ listingFetch.stage = "none" /\ ~stale /\ ~overtaken
  /\ deleting = Nothing \/ ~deleting.done
  /\ newProject = Nothing \/ ~newProject.done
  => listing = existing

\* Who is sent to the log-in by a page comes back to that page, whatever log-ins
\* of other kinds came before (ProtectedRoute's returnTo, App's
\* onRedirectCallback).
LoginReturns ==
  [][session = "callback" /\ session' = "loading" => at' = at]_portalVars
=============================================================================
