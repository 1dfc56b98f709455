------------------------------- MODULE Editor -------------------------------
(* A resource's own pages: ResourceDetailPage with its dialogs, and          *)
(* ResourceSettingsPage with the graph's sinks and routes (GraphForm and its *)
(* two tabs).  Both pages read one cached copy of the resource and write it  *)
(* with useUpdateResource; the operator on the cluster moves its status.     *)
(* An update is one step on the server, at any time before its answer.       *)
EXTENDS Integers, Sequences, FiniteSets

CONSTANTS
  Nil,         \* nothing: no copy, no form, no request
  MaxSinks,    \* event sinks of a graph
  MaxRoutes,   \* event routes of a graph
  MaxUpdates   \* updates under way at once

ASSUME EditorBounds == MaxSinks \in Nat \ {0} /\ MaxRoutes \in Nat \ {0} /\ MaxUpdates \in Nat

VARIABLES
  page,        \* "none", "detail" or "settings"
  resource,    \* the server's row: Nil once it is deleted
  copy,        \* useResource: what the cache holds
  fetching,    \* its request: "no", "asked", or "retrying" while it waits after a failed try
  failed,      \* the last one failed: the page shows the error
  canEdit,     \* the permissions have arrived and contain "write"
  detail,      \* ResourceDetailPage's own state and its dialogs'
  polling,     \* the interval of the detail page is set
  graphForm,   \* GraphForm: Nil when it is not mounted
  jsonEdit,    \* the settings of other types: "no", "editing" or "saving"
  updates      \* PUT requests under way, by slot

cacheVars  == <<copy, fetching, failed>>
editorVars == <<page, resource, cacheVars, canEdit, detail, polling, graphForm, jsonEdit, updates>>
-----------------------------------------------------------------------------
(* A graph's settings are the names of its sinks and, of every route, the    *)
(* sink it names; "" is one not filled in.                                   *)
Names       == {"", "kafka"}
EmptyDoc    == [sinks |-> <<>>, routes |-> <<>>]
RoutedDoc   == [sinks |-> <<"kafka">>, routes |-> <<"kafka">>]
Named(doc)  == \E i \in DOMAIN doc.sinks : doc.sinks[i] # ""
Without(s, i) == SubSeq(s, 1, i - 1) \o SubSeq(s, i + 1, Len(s))

\* The statuses of the operator; "Updating" is the server's own, written with
\* every update and in no list of the web application.
TransientStatuses == {"Creating", "Unknown", "Missing", "Progressing", "Degraded", "Terminating"}
OperatorStatuses  == {"Progressing", "Healthy"}

\* A resource, and the form of a graph's settings.
Skus  == {"standard", "free"}
Docs  == [sinks : Seq(Names), routes : Seq(Names)]
Rows  == [type : {"Graph", "Other"}, sku : Skus, doc : Docs,
          status : TransientStatuses \cup {"Healthy", "Updating"}]
Forms == [doc : Docs, tab : {"sinks", "routes"}, open : SUBSET Nat, saving : Nat]
ASSUME NilIsNothing == Nil \notin Rows /\ Nil \notin Forms

NoDetail == [naming |-> FALSE, dialog |-> "none", sku |-> "", tierBusy |-> FALSE,
             typed |-> FALSE, deleting |-> FALSE]
MountedForm(doc) == [doc |-> doc, tab |-> "sinks", open |-> {}, saving |-> 0]

EditorInit ==
  /\ page = "none" /\ resource = Nil /\ copy = Nil /\ fetching = "no" /\ failed = FALSE
  /\ canEdit = FALSE /\ detail = NoDetail /\ polling = FALSE
  /\ graphForm = Nil /\ jsonEdit = "no" /\ updates = [i \in 1..MaxUpdates |-> Nil]

\* The page with its data shown: neither loading nor in error.
Shows(p) == page = p /\ copy # Nil /\ ~failed

\* Mutants of Render: the form outlives its page; the interval is never
\* cleared; a new copy becomes the form's values; the interval is for new
\* resources alone.
RenderOutliving ==
  /\ graphForm' = IF page' = "settings" /\ copy' # Nil /\ copy'.type = "Graph" /\ graphForm = Nil
                  THEN MountedForm(copy'.doc) ELSE graphForm
  /\ polling' = (page' = "detail" /\ copy' # Nil /\ copy'.status \in TransientStatuses)
FormWith(always) ==
  IF page' # "settings" \/ copy' = Nil \/ failed' \/ copy'.type # "Graph" THEN Nil
  ELSE IF graphForm = Nil \/ page # "settings" \/ always THEN MountedForm(copy'.doc)
  ELSE graphForm
RenderPolling ==
  /\ graphForm' = FormWith(FALSE)
  /\ polling' = (polling \/ (page' = "detail" /\ copy' # Nil /\ copy'.status \in TransientStatuses))
RenderResetting ==
  /\ graphForm' = FormWith(copy' # copy)
  /\ polling' = (page' = "detail" /\ copy' # Nil /\ copy'.status \in TransientStatuses)
RenderCreating ==
  /\ graphForm' = FormWith(FALSE)
  /\ polling' = (page' = "detail" /\ copy' # Nil /\ copy'.status = "Creating")

\* The effects after a render.  The graph's form is mounted with the page and
\* takes the copy of then as its values, never a later one; the interval is
\* set while the detail page's copy is transient, error or not.
Render ==
  LET mounted == page' = "settings" /\ copy' # Nil /\ ~failed' /\ copy'.type = "Graph"
  IN  /\ graphForm' = IF ~mounted THEN Nil
                      ELSE IF graphForm = Nil \/ page # "settings" THEN MountedForm(copy'.doc)
                      ELSE graphForm
      /\ polling' = (page' = "detail" /\ copy' # Nil /\ copy'.status \in TransientStatuses)

\* Bound: only under the detail page, which alone shows the status, it changes.
StatusesAt(p) == IF p = "detail" THEN {"Creating", "Healthy"} ELSE {"Healthy"}

\* A visit finds the resource in any state, and no copy of it or one that is
\* at most five minutes old: stale, fetched again at once, or not.
Visit(p) ==
  /\ page = "none" /\ page' = p
  /\ \E t \in {"Graph", "Other"}, s \in Skus, d \in {EmptyDoc, RoutedDoc},
        now \in StatusesAt(p), then \in StatusesAt(p) :
       /\ resource' = [type |-> t, sku |-> s, doc |-> d, status |-> now]
       /\ copy' \in {Nil, resource', [type |-> t, sku |-> s, doc |-> RoutedDoc, status |-> then]}
  /\ fetching' = "asked" \/ (copy' # Nil /\ fetching' = "no")
  /\ canEdit' \in BOOLEAN
  /\ detail' = [NoDetail EXCEPT !.sku = IF copy' = Nil THEN "" ELSE copy'.sku]
  /\ UNCHANGED <<failed, jsonEdit, updates>>
  /\ Render

OpenDetail   == Visit("detail")
OpenSettings == Visit("settings")

\* The page is gone; what is under way no longer matters to it.
LeavePage ==
  /\ page' = "none" /\ resource' = Nil /\ copy' = Nil /\ fetching' = "no" /\ failed' = FALSE
  /\ canEdit' = FALSE /\ detail' = NoDetail /\ jsonEdit' = "no"
  /\ updates' = [i \in DOMAIN updates |-> Nil]
  /\ Render

LeaveResource == page # "none" /\ detail.dialog = "none" /\ LeavePage

PermissionsArrive ==
  /\ page # "none" /\ ~canEdit /\ canEdit' = TRUE
  /\ UNCHANGED <<page, resource, cacheVars, detail, polling, graphForm, jsonEdit, updates>>

\* The operator reports the resource's status, where it is shown.
OperatorReports ==
  /\ page = "detail"
  /\ \E st \in OperatorStatuses \ {resource.status} : resource' = [resource EXCEPT !.status = st]
  /\ UNCHANGED <<page, cacheVars, canEdit, detail, polling, graphForm, jsonEdit, updates>>

\* A fetch begins, in place of one under way; without a copy an error goes.
Refetch ==
  /\ fetching' = "asked" /\ failed' = (failed /\ copy # Nil)
  /\ UNCHANGED <<page, resource, copy, canEdit, detail, polling, graphForm, jsonEdit, updates>>

\* A tick of the interval cancels the fetch under way and its retries; the
\* window regains the focus and the copy is stale, or there is none.
PollTick     == polling /\ Refetch
RefetchStale == page # "none" /\ fetching = "no" /\ Refetch

\* A try fails, and after a second or more the next one begins.
Retrying(from, to) ==
  /\ fetching = from /\ fetching' = to
  /\ UNCHANGED <<page, resource, copy, failed, canEdit, detail, polling, graphForm, jsonEdit, updates>>
TryFails   == Retrying("asked", "retrying")
RetryFetch == Retrying("retrying", "asked")

FetchArrives ==
  /\ fetching = "asked" /\ fetching' = "no" /\ failed' = FALSE /\ copy' = resource
  /\ UNCHANGED <<page, resource, canEdit, jsonEdit, updates>>
  /\ detail' = IF detail.sku = "" THEN [detail EXCEPT !.sku = resource.sku] ELSE detail
  /\ Render

\* The last try, or one refused.  The error view takes the place of the page:
\* what its dialogs held is gone, the page's own state is not.
FetchFails ==
  /\ fetching = "asked" /\ fetching' = "no" /\ failed' = TRUE
  /\ UNCHANGED <<page, resource, copy, canEdit, jsonEdit, updates>>
  /\ detail' = [detail EXCEPT !.sku = "", !.tierBusy = FALSE, !.typed = FALSE]
  /\ Render
-----------------------------------------------------------------------------
(* useUpdateResource.  The body always carries settings_json, {} when the    *)
(* caller gave none, and the server writes what the body carries.            *)
Send(u) ==
  \E i \in DOMAIN updates :
    /\ updates[i] = Nil /\ \A j \in 1..(i - 1) : updates[j] # Nil
    /\ updates' = [updates EXCEPT ![i] = [waits |-> u.waits, sku |-> u.sku,
                                          doc |-> IF u.doc = Nil THEN EmptyDoc ELSE u.doc]]

\* handleNameSave, handleTierChange and the saves of the settings page.
SendName      == Send([waits |-> "name", sku |-> Nil, doc |-> Nil])
SendTier(s)   == Send([waits |-> "tier", sku |-> s,   doc |-> Nil])
SendDoc(w, d) == Send([waits |-> w,      sku |-> Nil, doc |-> d])

\* What the caller does with the answer.  A save of the settings of another
\* type that fails leaves the form disabled: nothing resets saving.
Answer(i, ok) ==
  LET w == updates[i].waits
  IN  /\ updates' = [updates EXCEPT ![i] = Nil]
      /\ detail' = [detail EXCEPT !.naming = @ /\ ~(w = "name" /\ ok),
                                  !.tierBusy = @ /\ w # "tier",
                                  !.dialog = IF w = "tier" /\ ok /\ @ = "tier" THEN "none" ELSE @]
      /\ jsonEdit' = IF w = "json" /\ ok THEN "no" ELSE jsonEdit
      /\ graphForm' = IF w = "item" /\ graphForm # Nil THEN [graphForm EXCEPT !.saving = 0]
                      ELSE graphForm
      /\ UNCHANGED <<page, copy, failed, canEdit, polling>>

\* Its success invalidates the copy, which the page on the screen fetches.
UpdateSucceeds(i) ==
  /\ updates[i] # Nil
  /\ resource' = [resource EXCEPT !.doc = updates[i].doc, !.status = "Updating",
                                  !.sku = IF updates[i].sku = Nil THEN @ ELSE updates[i].sku]
  /\ fetching' = IF page # "none" THEN "asked" ELSE fetching
  /\ Answer(i, TRUE)

UpdateFails(i) ==
  /\ updates[i] # Nil
  /\ UNCHANGED <<resource, fetching>>
  /\ Answer(i, FALSE)
-----------------------------------------------------------------------------
(* ResourceDetailPage.  A dialog keeps the user from the page below it.      *)
OnDetail == /\ Shows("detail")
            /\ UNCHANGED <<page, resource, cacheVars, canEdit, polling, graphForm, jsonEdit>>

HandleNameEdit ==
  /\ OnDetail /\ canEdit /\ detail.dialog = "none" /\ ~detail.naming
  /\ detail' = [detail EXCEPT !.naming = TRUE] /\ UNCHANGED updates

\* Nothing disables the button while a save is under way.
HandleNameSave ==
  /\ OnDetail /\ detail.dialog = "none" /\ detail.naming
  /\ SendName /\ UNCHANGED detail

HandleNameCancel ==
  /\ OnDetail /\ detail.dialog = "none" /\ detail.naming
  /\ detail' = [detail EXCEPT !.naming = FALSE] /\ UNCHANGED updates

\* The billing dialog first, when the status is known and lacks a customer or
\* a card; the tier dialog after it, or after its "Skip".
HandleOpenTierDialog ==
  /\ OnDetail /\ canEdit /\ detail.dialog = "none"
  /\ \E d \in {"tier", "billing"} : detail' = [detail EXCEPT !.dialog = d]
  /\ UNCHANGED updates

HandleBillingComplete ==
  /\ OnDetail /\ detail.dialog = "billing"
  /\ detail' = [detail EXCEPT !.dialog = "tier"] /\ UNCHANGED updates

SelectTier(s) ==
  /\ OnDetail /\ detail.dialog = "tier" /\ detail.sku # s
  /\ detail' = [detail EXCEPT !.sku = s] /\ UNCHANGED updates

HandleConfirmTier ==
  /\ OnDetail /\ detail.dialog = "tier" /\ ~detail.tierBusy /\ detail.sku # copy.sku
  /\ detail' = [detail EXCEPT !.tierBusy = TRUE] /\ SendTier(detail.sku)

\* Closing a dialog by the keyboard is possible while its request is under
\* way.  Only the delete dialog forgets what was entered.
CloseDialog ==
  /\ OnDetail /\ detail.dialog # "none"
  /\ detail' = [detail EXCEPT !.dialog = "none", !.typed = @ /\ detail.dialog # "delete"]
  /\ UNCHANGED updates

OpenDeleteDialog ==
  /\ OnDetail /\ detail.dialog = "none"
  /\ detail' = [detail EXCEPT !.dialog = "delete"] /\ UNCHANGED updates

TypeName ==
  /\ OnDetail /\ detail.dialog = "delete" /\ ~detail.deleting /\ ~detail.typed
  /\ detail' = [detail EXCEPT !.typed = TRUE] /\ UNCHANGED updates

HandleDeleteResource ==
  /\ OnDetail /\ detail.dialog = "delete" /\ detail.typed /\ ~detail.deleting
  /\ detail' = [detail EXCEPT !.deleting = TRUE] /\ UNCHANGED updates

\* The answer: on to the project's resources, or the error below the dialog.
DeleteSucceeds == page = "detail" /\ detail.deleting /\ LeavePage

DeleteFails ==
  /\ page = "detail" /\ detail.deleting
  /\ detail' = [detail EXCEPT !.deleting = FALSE]
  /\ UNCHANGED <<page, resource, cacheVars, canEdit, polling, graphForm, jsonEdit, updates>>
-----------------------------------------------------------------------------
(* ResourceSettingsPage.  The form of a graph keeps its values over its two  *)
(* tabs; a tab keeps which of its rows are open and being saved.             *)
OnSettings == /\ Shows("settings")
              /\ UNCHANGED <<page, resource, cacheVars, canEdit, detail, polling>>
Locked     == ~canEdit \/ copy.sku = "free"

InTab(t) == OnSettings /\ graphForm # Nil /\ graphForm.tab = t /\ UNCHANGED jsonEdit

SwitchTab ==
  /\ \E t \in {"sinks", "routes"} :
       /\ InTab(t)
       /\ graphForm' = [MountedForm(graphForm.doc) EXCEPT
                          !.tab = IF t = "sinks" THEN "routes" ELSE "sinks"]
  /\ updates' = [i \in DOMAIN updates |-> IF updates[i] = Nil THEN Nil
                                          ELSE [updates[i] EXCEPT !.waits = "nobody"]]

ToggleExpanded(i) ==
  /\ \E t \in {"sinks", "routes"} : InTab(t) /\ i \in DOMAIN graphForm.doc[t]
  /\ graphForm' = [graphForm EXCEPT !.open = IF i \in @ THEN @ \ {i} ELSE @ \cup {i}]
  /\ UNCHANGED updates

\* Adding is for paid graphs; permission is not asked.  A new row is open.
AddSink ==
  /\ InTab("sinks") /\ copy.sku # "free" /\ Len(graphForm.doc.sinks) < MaxSinks
  /\ graphForm' = [graphForm EXCEPT !.doc.sinks = Append(@, ""),
                                    !.open = @ \cup {Len(graphForm.doc.sinks) + 1}]
  /\ UNCHANGED updates

AddRoute ==
  /\ InTab("routes") /\ Named(graphForm.doc) /\ copy.sku # "free"
  /\ Len(graphForm.doc.routes) < MaxRoutes
  /\ graphForm' = [graphForm EXCEPT !.doc.routes = Append(@, ""),
                                    !.open = @ \cup {Len(graphForm.doc.routes) + 1}]
  /\ UNCHANGED updates

\* The fields of an open sink, whichever of the four forms it has.
EditSink(i) ==
  /\ InTab("sinks") /\ i \in DOMAIN graphForm.doc.sinks \cap graphForm.open
  /\ \E n \in Names \ {graphForm.doc.sinks[i]} :
       graphForm' = [graphForm EXCEPT !.doc.sinks[i] = n]
  /\ UNCHANGED updates

\* A route may name any sink of the form that has a name.
EditRoute(i) ==
  /\ InTab("routes") /\ Named(graphForm.doc)
  /\ i \in DOMAIN graphForm.doc.routes \cap graphForm.open
  /\ \E k \in DOMAIN graphForm.doc.sinks :
       /\ graphForm.doc.sinks[k] \notin {"", graphForm.doc.routes[i]}
       /\ graphForm' = [graphForm EXCEPT !.doc.routes[i] = graphForm.doc.sinks[k]]
  /\ UNCHANGED updates

\* Removing a row saves the whole form at once, whoever may edit, and asks for
\* neither the tier nor the permission.
Remove(doc, i) ==
  /\ graphForm' = [graphForm EXCEPT !.doc = doc, !.open = @ \ {i}]
  /\ SendDoc("nobody", doc)

RemoveSink(i) ==
  /\ InTab("sinks") /\ i \in DOMAIN graphForm.doc.sinks
  /\ Remove([graphForm.doc EXCEPT !.sinks = Without(@, i)], i)

RemoveRoute(i) ==
  /\ InTab("routes") /\ Named(graphForm.doc) /\ i \in DOMAIN graphForm.doc.routes
  /\ Remove([graphForm.doc EXCEPT !.routes = Without(@, i)], i)

\* handleSaveSink and handleSaveRoute save the whole form too.
SaveRow(i) ==
  /\ \E t \in {"sinks", "routes"} :
       /\ InTab(t) /\ i \in DOMAIN graphForm.doc[t] \cap graphForm.open
       /\ t = "routes" => Named(graphForm.doc)
  /\ ~Locked /\ graphForm.saving # i
  /\ graphForm' = [graphForm EXCEPT !.saving = i]
  /\ SendDoc("item", graphForm.doc)

\* Other types: Edit, then Save; only the raw form has a Cancel.
EditJson ==
  /\ OnSettings /\ copy.type = "Other" /\ jsonEdit = "no" /\ canEdit
  /\ jsonEdit' = "editing" /\ UNCHANGED <<graphForm, updates>>

SaveJson ==
  /\ OnSettings /\ jsonEdit = "editing"
  /\ jsonEdit' = "saving" /\ \E d \in {EmptyDoc, RoutedDoc} : SendDoc("json", d)
  /\ UNCHANGED graphForm

CancelJson ==
  /\ OnSettings /\ jsonEdit = "editing"
  /\ jsonEdit' = "no" /\ UNCHANGED <<graphForm, updates>>
-----------------------------------------------------------------------------
Cluster == FetchArrives \/ FetchFails \/ TryFails \/ RetryFetch \/ PermissionsArrive \/ OperatorReports
           \/ \E i \in 1..MaxUpdates : UpdateSucceeds(i) \/ UpdateFails(i)
           \/ DeleteSucceeds \/ DeleteFails

Editing ==
  \/ OpenDetail \/ OpenSettings \/ LeaveResource \/ RefetchStale
  \/ HandleNameEdit \/ HandleNameSave \/ HandleNameCancel
  \/ HandleOpenTierDialog \/ HandleBillingComplete \/ HandleConfirmTier \/ CloseDialog
  \/ \E s \in Skus : SelectTier(s)
  \/ OpenDeleteDialog \/ TypeName \/ HandleDeleteResource
  \/ SwitchTab \/ AddSink \/ AddRoute \/ EditJson \/ SaveJson \/ CancelJson
  \/ \E i \in 1..MaxSinks : ToggleExpanded(i) \/ EditSink(i) \/ RemoveSink(i) \/ SaveRow(i)
  \/ \E i \in 1..MaxRoutes : EditRoute(i) \/ RemoveRoute(i)

EditorNext == Cluster \/ Editing \/ PollTick

\* An interval that is set ticks.  That a fetch arrives is not the code's to
\* give, which begins it again every five seconds: it is assumed that of the
\* fetches begun over and over not all fail or take longer than that.
EditorFairness == WF_editorVars(PollTick) /\ SF_editorVars(FetchArrives)

EditorSpec == EditorInit /\ [][EditorNext]_editorVars /\ EditorFairness
-----------------------------------------------------------------------------
(* Properties.                                                               *)

EditorTypeOK ==
  /\ page \in {"none", "detail", "settings"}
  /\ copy # Nil => resource # Nil /\ copy.type = resource.type
  /\ graphForm # Nil => /\ Len(graphForm.doc.sinks) <= MaxSinks
                        /\ Len(graphForm.doc.routes) <= MaxRoutes
                        /\ page = "settings"

\* What the user typed into the sinks and routes and did not save is lost only
\* by leaving the page or when fetching the resource again fails, never
\* because a newer copy, an answer or another tab arrives.
EditsKept ==
  [][graphForm # Nil /\ page' = "settings" /\ ~failed'
       => /\ graphForm' # Nil
          /\ graphForm'.doc = graphForm.doc \/ UNCHANGED cacheVars]_editorVars

\* The interval lives exactly while the page shows a transient status: it is
\* set again by no render and left behind by no departure.
PollsWhileTransient ==
  polling <=> page = "detail" /\ copy # Nil /\ copy.status \in TransientStatuses

\* A transient status on the screen does not stay there: it is compared with
\* the server's again, as long as the page stays and not every fetch fails or is
\* overtaken by the next tick, which cancels it.
TransientRefreshed ==
  (Shows("detail") /\ copy.status \in TransientStatuses)
     ~> (~Shows("detail") \/ copy.status = resource.status)
=============================================================================
