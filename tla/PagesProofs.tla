----------------------------- MODULE PagesProofs -----------------------------
(* Proofs about the pages that read one copy of something on the server: a    *)
(* resource's own (Editor), logs and metrics (Watch) and billing (Account).   *)
EXTENDS Editor, Watch, Account, SequenceTheorems, TLAPS

\* The steps of the parts, without the fairness.
EditorSteps  == EditorInit /\ [][EditorNext]_editorVars
WatchSteps   == WatchInit /\ [][WatchNext]_watchVars
AccountSteps == AccountInit /\ [][AccountNext]_accountVars
-----------------------------------------------------------------------------
(* Editor.  The interval: every step ends with a render or leaves alone what  *)
(* a render looks at.                                                         *)
LEMMA StepsRender ==
  EditorNext => Render \/ UNCHANGED <<page, copy, polling>>
<1>1. ASSUME Cluster
      PROVE  Render \/ UNCHANGED <<page, copy, polling>>
  BY <1>1 DEF Cluster, FetchArrives, FetchFails, TryFails, RetryFetch, Retrying, PermissionsArrive,
              OperatorReports, UpdateSucceeds, UpdateFails, Answer, DeleteSucceeds, DeleteFails, LeavePage, cacheVars
<1>2. ASSUME OnDetail \/ OnSettings \/ RefetchStale \/ PollTick
      PROVE  UNCHANGED <<page, copy, polling>>
  BY <1>2 DEF OnDetail, OnSettings, RefetchStale, PollTick, Refetch, cacheVars
<1>3. ASSUME OpenDetail \/ OpenSettings \/ LeaveResource
      PROVE  Render
  BY <1>3 DEF OpenDetail, OpenSettings, Visit, LeaveResource, LeavePage
<1> QED
  BY <1>1, <1>2, <1>3
  DEF EditorNext, Editing, HandleNameEdit, HandleNameSave, HandleNameCancel, HandleOpenTierDialog,
      HandleBillingComplete, HandleConfirmTier, CloseDialog, SelectTier, OpenDeleteDialog, TypeName,
      HandleDeleteResource, SwitchTab, InTab, AddSink, AddRoute, EditJson, SaveJson, CancelJson,
      ToggleExpanded, EditSink, RemoveSink, SaveRow, EditRoute, RemoveRoute

\* The interval of the detail page is set exactly while the copy on it has a
\* transient status (ResourceDetailPage, the polling effect).
THEOREM IntervalWhileTransient == EditorSteps => []PollsWhileTransient
<1>1. EditorInit => PollsWhileTransient
  BY DEF EditorInit, PollsWhileTransient
<1>2. PollsWhileTransient /\ [EditorNext]_editorVars => PollsWhileTransient'
  <2>1. ASSUME Render
        PROVE  PollsWhileTransient'
    BY <2>1 DEF Render, PollsWhileTransient
  <2>2. ASSUME PollsWhileTransient, UNCHANGED <<page, copy, polling>>
        PROVE  PollsWhileTransient'
    BY <2>2 DEF PollsWhileTransient
  <2> QED BY <2>1, <2>2, StepsRender DEF editorVars, cacheVars
<1> QED BY <1>1, <1>2, PTL DEF EditorSteps
-----------------------------------------------------------------------------
(* What the editor holds: documents within the bounds, the form of a graph    *)
(* that is on the screen, requests of a page that is there.                   *)
UpTo(n)  == {s \in Seq(Names) : Len(s) <= n}
FitDocs  == [sinks : UpTo(MaxSinks), routes : UpTo(MaxRoutes)]
FitRows  == [type : {"Graph", "Other"}, sku : Skus, doc : FitDocs,
             status : TransientStatuses \cup {"Healthy", "Updating"}]
FitForms == [doc : FitDocs, tab : {"sinks", "routes"}, open : SUBSET Nat, saving : Nat]
Waits    == {"name", "tier", "json", "item", "nobody"}
Updates  == [waits : Waits, sku : Skus \cup {Nil}, doc : FitDocs]
Details  == [naming : BOOLEAN, dialog : {"none", "tier", "billing", "delete"},
             sku : Skus \cup {""}, tierBusy : BOOLEAN, typed : BOOLEAN, deleting : BOOLEAN]

EditorFits ==
  /\ page \in {"none", "detail", "settings"} /\ failed \in BOOLEAN
  /\ resource \in FitRows \cup {Nil} /\ copy \in FitRows \cup {Nil}
  /\ detail \in Details /\ graphForm \in FitForms \cup {Nil}
  /\ updates \in [1..MaxUpdates -> Updates \cup {Nil}]

\* A page that is there has its resource; a copy is of it; the page shows its
\* tier; and who waits for an answer waits on a page.
OfResource ==
  /\ page # "none" => resource # Nil
  /\ copy # Nil => resource # Nil /\ copy.type = resource.type
  /\ copy # Nil /\ ~failed => detail.sku # ""
  /\ fetching # "no" \/ (\E i \in 1..MaxUpdates : updates[i] # Nil) => page # "none"

FormShown ==
  graphForm # Nil => page = "settings" /\ copy # Nil /\ ~failed /\ copy.type = "Graph"

EditorInv == EditorFits /\ OfResource /\ FormShown

LEMMA DocsFit ==
  /\ EmptyDoc \in FitDocs /\ RoutedDoc \in FitDocs
  /\ FitRows \subseteq Rows /\ FitForms \subseteq Forms
  /\ \A d \in FitDocs : MountedForm(d) \in FitForms
<1>1. <<>> \in Seq(Names) /\ Len(<<>>) = 0 /\ <<"kafka">> \in Seq(Names) /\ Len(<<"kafka">>) = 1
  BY DEF Names
<1>2. EmptyDoc \in FitDocs /\ RoutedDoc \in FitDocs
  BY <1>1, EditorBounds DEF EmptyDoc, RoutedDoc, FitDocs, UpTo
<1>3. FitDocs \subseteq Docs
  BY DEF FitDocs, Docs, UpTo
<1>4. FitRows \subseteq Rows /\ FitForms \subseteq Forms
  BY <1>3 DEF FitRows, Rows, FitForms, Forms
<1>5. \A d \in FitDocs : MountedForm(d) \in FitForms
  BY DEF MountedForm, FitForms
<1> QED BY <1>2, <1>4, <1>5

LEMMA ListsFit ==
  ASSUME NEW n \in Nat, NEW s \in UpTo(n)
  PROVE  /\ \A e \in Names : Len(s) < n => Append(s, e) \in UpTo(n)
         /\ \A i \in DOMAIN s, e \in Names : [s EXCEPT ![i] = e] \in UpTo(n)
         /\ \A i \in DOMAIN s : Without(s, i) \in UpTo(n)
<1>1. s \in Seq(Names) /\ Len(s) <= n /\ Len(s) \in Nat /\ DOMAIN s = 1..Len(s)
  BY DEF UpTo
<1>2. \A e \in Names : Len(s) < n => Append(s, e) \in UpTo(n)
  BY <1>1, AppendProperties DEF UpTo
<1>3. \A i \in DOMAIN s, e \in Names : [s EXCEPT ![i] = e] \in UpTo(n)
  BY <1>1, ExceptSeq DEF UpTo
<1>4. ASSUME NEW i \in DOMAIN s
      PROVE  Without(s, i) \in UpTo(n)
  <2> DEFINE a == SubSeq(s, 1, i - 1)
             b == SubSeq(s, i + 1, Len(s))
  <2>1. i \in 1..Len(s)
    BY <1>1
  <2>2. a \in Seq(Names) /\ Len(a) = i - 1
    <3>1. \A j \in 1..(i - 1) : s[j] \in Names
      BY <1>1, <2>1, ElementOfSeq
    <3> QED BY <2>1, <3>1, SubSeqProperties
  <2>3. b \in Seq(Names) /\ Len(b) = Len(s) - i
    <3>1. \A j \in (i + 1)..Len(s) : s[j] \in Names
      BY <1>1, <2>1, ElementOfSeq
    <3> QED BY <1>1, <2>1, <3>1, SubSeqProperties
  <2>4. a \o b \in Seq(Names) /\ Len(a \o b) = Len(s) - 1
    <3> HIDE DEF a, b
    <3>1. a \o b \in Seq(Names) /\ Len(a \o b) = Len(a) + Len(b)
      BY <2>2, <2>3, ConcatProperties
    <3> QED BY <1>1, <2>1, <2>2, <2>3, <3>1
  <2> QED BY <1>1, <2>4 DEF Without, UpTo
<1> QED BY <1>2, <1>3, <1>4

LEMMA NoDetailFits == NoDetail \in Details
  BY DEF NoDetail, Details

LEMMA SendFits ==
  ASSUME EditorFits, NEW u, Send(u), u.waits \in Waits, u.sku \in Skus \cup {Nil},
         u.doc \in FitDocs \cup {Nil}
  PROVE  updates' \in [1..MaxUpdates -> Updates \cup {Nil}]
<1>1. PICK i \in 1..MaxUpdates :
        updates' = [updates EXCEPT ![i] = [waits |-> u.waits, sku |-> u.sku,
                                           doc |-> IF u.doc = Nil THEN EmptyDoc ELSE u.doc]]
  BY DEF Send, EditorFits
<1>2. [waits |-> u.waits, sku |-> u.sku, doc |-> IF u.doc = Nil THEN EmptyDoc ELSE u.doc] \in Updates
  BY DocsFit DEF Updates
<1> QED BY <1>1, <1>2 DEF EditorFits

\* The form after a render is on the screen or is not there.
LEMMA FormFits ==
  ASSUME EditorFits, Render, copy' \in FitRows \cup {Nil}
  PROVE  graphForm' \in FitForms \cup {Nil} /\ FormShown'
<1>1. CASE page' = "settings" /\ copy' # Nil /\ ~failed' /\ copy'.type = "Graph"
  <2>1. copy'.doc \in FitDocs
    BY <1>1 DEF FitRows
  <2> QED BY <1>1, <2>1, DocsFit DEF Render, FormShown, EditorFits
<1>2. CASE ~(page' = "settings" /\ copy' # Nil /\ ~failed' /\ copy'.type = "Graph")
  BY <1>2 DEF Render, FormShown, EditorFits
<1> QED BY <1>1, <1>2

\* What EditsKept says of a step.
EditsStay ==
  graphForm # Nil /\ page' = "settings" /\ ~failed'
    => /\ graphForm' # Nil
       /\ graphForm'.doc = graphForm.doc \/ UNCHANGED cacheVars

Safe == EditorInv' /\ EditsStay

\* A step on the detail page changes its own state and sends updates.
LEMMA DetailStep ==
  ASSUME EditorInv, OnDetail, detail' \in Details, detail'.sku # "",
         updates' \in [1..MaxUpdates -> Updates \cup {Nil}]
  PROVE  Safe
BY DEF Safe, EditorInv, EditorFits, OfResource, FormShown, EditsStay, OnDetail, Shows, cacheVars

\* A step on the settings page changes the form and sends updates.
LEMMA SettingsStep ==
  ASSUME EditorInv, OnSettings, graphForm = Nil => graphForm' = Nil,
         graphForm # Nil => graphForm' \in FitForms,
         updates' \in [1..MaxUpdates -> Updates \cup {Nil}]
  PROVE  Safe
<1>1. graphForm # Nil => graphForm' # Nil
  BY DocsFit, NilIsNothing
<1> QED BY <1>1 DEF Safe, EditorInv, EditorFits, OfResource, FormShown, EditsStay, OnSettings,
               Shows, cacheVars

LEMMA EditorInitInv == EditorInit => EditorInv
BY NoDetailFits DEF EditorInit, EditorInv, EditorFits, OfResource, FormShown

LEMMA VisitStep ==
  ASSUME EditorInv, NEW p \in {"detail", "settings"}, Visit(p)
  PROVE  Safe
<1>1. PICK t \in {"Graph", "Other"}, s \in Skus, d \in {EmptyDoc, RoutedDoc},
           now \in StatusesAt(p), then \in StatusesAt(p) :
             /\ resource' = [type |-> t, sku |-> s, doc |-> d, status |-> now]
             /\ copy' \in {Nil, resource', [type |-> t, sku |-> s, doc |-> RoutedDoc, status |-> then]}
  BY DEF Visit
<1>9. {now, then} \subseteq {"Creating", "Healthy"}
  BY DEF StatusesAt
<1>2. copy' \in FitRows \cup {Nil} /\ resource' \in FitRows /\ (copy' # Nil => copy'.type = resource'.type)
  BY <1>1, <1>9, DocsFit DEF FitRows, TransientStatuses
<1>3. resource' # Nil
  BY <1>2, DocsFit, NilIsNothing
<1>4. detail' \in Details /\ (copy' # Nil => detail'.sku # "")
  BY <1>2 DEF Visit, NoDetail, Details, FitRows, Skus
<1>5. Render /\ page = "none" /\ page' = p /\ UNCHANGED <<failed, updates>>
  BY DEF Visit
<1>6. graphForm' \in FitForms \cup {Nil} /\ FormShown'
  BY <1>2, <1>5, FormFits DEF EditorInv
<1> QED BY <1>2, <1>3, <1>4, <1>5, <1>6
        DEF Safe, EditorInv, EditorFits, OfResource, FormShown, EditsStay

LEMMA LeaveStep ==
  ASSUME EditorInv, LeavePage
  PROVE  Safe
<1>1. graphForm' \in FitForms \cup {Nil} /\ FormShown'
  BY FormFits DEF EditorInv, LeavePage
<1>2. detail' \in Details
  BY NoDetailFits DEF LeavePage
<1>3. updates' \in [1..MaxUpdates -> {Nil}]
  BY DEF LeavePage, EditorInv, EditorFits
<1> QED BY <1>1, <1>2, <1>3 DEF LeavePage, Safe, EditorInv, EditorFits, OfResource, EditsStay

LEMMA FetchStep ==
  ASSUME EditorInv, FetchArrives \/ FetchFails
  PROVE  Safe
<1>1. page # "none" /\ resource \in FitRows /\ resource # Nil
  BY DEF FetchArrives, FetchFails, EditorInv, EditorFits, OfResource
<1>2. CASE FetchArrives
  <2>1. copy' = resource /\ failed' = FALSE /\ fetching' = "no" /\ UNCHANGED <<page, resource, updates>>
    BY <1>2 DEF FetchArrives
  <2>2. detail' \in Details /\ detail'.sku # ""
    BY <1>1, <1>2 DEF FetchArrives, EditorInv, EditorFits, Details, FitRows, Skus
  <2>3. graphForm' \in FitForms \cup {Nil} /\ FormShown'
    BY <1>1, <1>2, <2>1, FormFits DEF FetchArrives, EditorInv
  <2>4. EditsStay
    BY <1>1, <1>2, <2>1 DEF FetchArrives, Render, EditsStay, EditorInv, OfResource, FormShown
  <2> QED BY <1>1, <2>1, <2>2, <2>3, <2>4 DEF Safe, EditorInv, EditorFits, OfResource
<1>3. CASE FetchFails
  <2>1. failed' = TRUE /\ fetching' = "no" /\ UNCHANGED <<page, resource, copy, updates>>
    BY <1>3 DEF FetchFails
  <2>2. detail' \in Details
    BY <1>3 DEF FetchFails, EditorInv, EditorFits, Details
  <2>3. graphForm' \in FitForms \cup {Nil} /\ FormShown'
    BY <1>3, <2>1, FormFits DEF FetchFails, EditorInv, EditorFits
  <2> QED BY <1>1, <2>1, <2>2, <2>3 DEF Safe, EditorInv, EditorFits, OfResource, EditsStay
<1> QED BY <1>2, <1>3

\* The answer to an update: the caller's state on the page, never the document
\* in the form.
LEMMA AnswerStep ==
  ASSUME EditorInv, NEW i \in 1..MaxUpdates, NEW ok \in BOOLEAN, updates[i] # Nil, Answer(i, ok),
         fetching' # "no" => page # "none",
         \/ UNCHANGED resource
         \/ resource' \in FitRows /\ resource'.type = resource.type
  PROVE  Safe
<1>1. resource # Nil /\ resource \in FitRows /\ page # "none"
  BY DEF EditorInv, EditorFits, OfResource
<1>2. resource' \in FitRows /\ resource' # Nil /\ resource'.type = resource.type
  BY <1>1, DocsFit, NilIsNothing
<1>3. UNCHANGED <<page, copy, failed>>
  BY DEF Answer
<1>4. updates' \in [1..MaxUpdates -> Updates \cup {Nil}]
  BY DEF Answer, EditorInv, EditorFits
<1>5. detail' \in Details /\ detail'.sku = detail.sku
  BY DEF Answer, EditorInv, EditorFits, Details
<1>6. CASE graphForm = Nil
  <2>1. graphForm' = Nil
    BY <1>6 DEF Answer
  <2> QED BY <1>1, <1>2, <1>3, <1>4, <1>5, <1>6, <2>1
        DEF Safe, EditorInv, EditorFits, OfResource, FormShown, EditsStay
<1>7. CASE graphForm # Nil
  <2>1. graphForm' \in FitForms /\ graphForm'.doc = graphForm.doc
    BY <1>7 DEF Answer, EditorInv, EditorFits, FitForms
  <2>2. graphForm' # Nil
    BY <2>1, DocsFit, NilIsNothing
  <2> QED BY <1>1, <1>2, <1>3, <1>4, <1>5, <1>7, <2>1, <2>2
        DEF Safe, EditorInv, EditorFits, OfResource, FormShown, EditsStay
<1> QED BY <1>6, <1>7

LEMMA UpdateStep ==
  ASSUME EditorInv, NEW i \in 1..MaxUpdates, UpdateSucceeds(i) \/ UpdateFails(i)
  PROVE  Safe
<1>1. CASE UpdateSucceeds(i)
  <2>1. updates[i] \in Updates /\ resource \in FitRows /\ page # "none"
    BY <1>1 DEF UpdateSucceeds, EditorInv, EditorFits, OfResource
  <2>2. resource' \in FitRows /\ resource'.type = resource.type
    BY <1>1, <2>1 DEF UpdateSucceeds, FitRows, Updates
  <2> QED BY <1>1, <2>1, <2>2, AnswerStep DEF UpdateSucceeds
<1>2. CASE UpdateFails(i)
  BY <1>2, AnswerStep DEF UpdateFails, EditorInv, OfResource
<1> QED BY <1>1, <1>2

LEMMA DetailPageStep ==
  ASSUME EditorInv,
         \/ HandleNameEdit \/ HandleNameSave \/ HandleNameCancel \/ HandleOpenTierDialog
         \/ HandleBillingComplete \/ HandleConfirmTier \/ CloseDialog
         \/ \E s \in Skus : SelectTier(s)
         \/ OpenDeleteDialog \/ TypeName \/ HandleDeleteResource
  PROVE  Safe
<1>1. OnDetail
  BY DEF HandleNameEdit, HandleNameSave, HandleNameCancel, HandleOpenTierDialog,
         HandleBillingComplete, HandleConfirmTier, CloseDialog, SelectTier, OpenDeleteDialog,
         TypeName, HandleDeleteResource
<1>2. detail \in Details /\ detail.sku \in Skus /\ EditorFits
  BY <1>1 DEF OnDetail, Shows, EditorInv, EditorFits, OfResource, Details
<1>3. detail' \in Details /\ detail'.sku # ""
  BY <1>2 DEF HandleNameEdit, HandleNameSave, HandleNameCancel, HandleOpenTierDialog,
         HandleBillingComplete, HandleConfirmTier, CloseDialog, SelectTier, OpenDeleteDialog,
         TypeName, HandleDeleteResource, Details, Skus
<1>4. updates' \in [1..MaxUpdates -> Updates \cup {Nil}]
  <2>1. CASE HandleNameSave
    BY <1>2, <2>1, SendFits DEF HandleNameSave, SendName, Waits
  <2>2. CASE HandleConfirmTier
    BY <1>2, <2>2, SendFits DEF HandleConfirmTier, SendTier, Waits
  <2>3. CASE UNCHANGED updates
    BY <1>2, <2>3 DEF EditorFits
  <2> QED BY <2>1, <2>2, <2>3
          DEF HandleNameEdit, HandleNameCancel, HandleOpenTierDialog, HandleBillingComplete,
              CloseDialog, SelectTier, OpenDeleteDialog, TypeName, HandleDeleteResource
<1> QED BY <1>1, <1>3, <1>4, DetailStep

\* A tab of the form on the screen.
LEMMA GraphStep ==
  ASSUME EditorInv, NEW t \in {"sinks", "routes"}, InTab(t)
  PROVE  /\ graphForm \in FitForms /\ OnSettings
         /\ \A s \in UpTo(MaxSinks) : [graphForm.doc EXCEPT !.sinks = s] \in FitDocs
         /\ \A s \in UpTo(MaxRoutes) : [graphForm.doc EXCEPT !.routes = s] \in FitDocs
         /\ graphForm.doc.sinks \in UpTo(MaxSinks) /\ graphForm.doc.routes \in UpTo(MaxRoutes)
<1>1. graphForm \in FitForms /\ OnSettings
  BY DEF InTab, EditorInv, EditorFits
<1>2. graphForm.doc \in FitDocs
  BY <1>1 DEF FitForms
<1> QED BY <1>1, <1>2 DEF FitDocs

LEMMA RowsStep ==
  ASSUME EditorInv,
         \/ SwitchTab \/ AddSink \/ AddRoute
         \/ \E i \in 1..MaxSinks : ToggleExpanded(i) \/ EditSink(i) \/ RemoveSink(i) \/ SaveRow(i)
         \/ \E i \in 1..MaxRoutes : EditRoute(i) \/ RemoveRoute(i)
  PROVE  Safe
<1> DEFINE Kept == [1..MaxUpdates -> Updates \cup {Nil}]
<1>0. MaxSinks \in Nat /\ MaxRoutes \in Nat /\ updates \in Kept /\ EditorFits
  BY EditorBounds DEF EditorInv, EditorFits
<1>1. ASSUME NEW t \in {"sinks", "routes"}, InTab(t), graphForm' \in FitForms, updates' \in Kept
      PROVE  Safe
  BY <1>1, SettingsStep DEF InTab
<1>2. CASE SwitchTab
  <2>1. PICK t \in {"sinks", "routes"} :
          /\ InTab(t)
          /\ graphForm' = [MountedForm(graphForm.doc) EXCEPT
                             !.tab = IF t = "sinks" THEN "routes" ELSE "sinks"]
    BY <1>2 DEF SwitchTab
  <2>2. MountedForm(graphForm.doc) \in FitForms
    BY <2>1, GraphStep, DocsFit DEF FitForms
  <2>3. graphForm' \in FitForms
    BY <2>1, <2>2 DEF FitForms
  <2>4. updates' \in Kept
    BY <1>0, <1>2 DEF SwitchTab, Updates, Waits
  <2> QED BY <1>1, <2>1, <2>3, <2>4
<1>3. CASE AddSink
  <2>1. InTab("sinks") /\ Len(graphForm.doc.sinks) < MaxSinks /\ UNCHANGED updates
    BY <1>3 DEF AddSink
  <2>2. graphForm \in FitForms /\ graphForm.doc \in FitDocs /\ graphForm.doc.sinks \in UpTo(MaxSinks)
    BY <2>1, GraphStep DEF FitForms
  <2>3. Append(graphForm.doc.sinks, "") \in UpTo(MaxSinks) /\ Len(graphForm.doc.sinks) + 1 \in Nat
    <3>1. "" \in Names
      BY DEF Names
    <3>2. Append(graphForm.doc.sinks, "") \in UpTo(MaxSinks)
      BY <1>0, <2>1, <2>2, <3>1, ListsFit
    <3>3. Len(graphForm.doc.sinks) + 1 \in Nat
      <4>1. ASSUME NEW q \in UpTo(MaxSinks)
            PROVE  Len(q) + 1 \in Nat
        BY <4>1 DEF UpTo
      <4> QED BY <2>2, <4>1
    <3> QED BY <3>2, <3>3
  <2>4. graphForm' \in FitForms
    BY <1>3, <2>2, <2>3 DEF AddSink, FitForms, FitDocs
  <2> QED BY <1>0, <1>1, <2>1, <2>4
<1>4. CASE AddRoute
  <2>1. InTab("routes") /\ Len(graphForm.doc.routes) < MaxRoutes /\ UNCHANGED updates
    BY <1>4 DEF AddRoute
  <2>2. graphForm \in FitForms /\ graphForm.doc \in FitDocs /\ graphForm.doc.routes \in UpTo(MaxRoutes)
    BY <2>1, GraphStep DEF FitForms
  <2>3. Append(graphForm.doc.routes, "") \in UpTo(MaxRoutes) /\ Len(graphForm.doc.routes) + 1 \in Nat
    <3>1. "" \in Names
      BY DEF Names
    <3>2. Append(graphForm.doc.routes, "") \in UpTo(MaxRoutes)
      BY <1>0, <2>1, <2>2, <3>1, ListsFit
    <3>3. Len(graphForm.doc.routes) + 1 \in Nat
      <4>1. ASSUME NEW q \in UpTo(MaxRoutes)
            PROVE  Len(q) + 1 \in Nat
        BY <4>1 DEF UpTo
      <4> QED BY <2>2, <4>1
    <3> QED BY <3>2, <3>3
  <2>4. graphForm' \in FitForms
    BY <1>4, <2>2, <2>3 DEF AddRoute, FitForms, FitDocs
  <2> QED BY <1>0, <1>1, <2>1, <2>4
<1>5. ASSUME NEW i \in 1..MaxSinks, ToggleExpanded(i)
      PROVE  Safe
  <2>1. PICK t \in {"sinks", "routes"} : InTab(t)
    BY <1>5 DEF ToggleExpanded
  <2>2. graphForm' \in FitForms
    BY <1>5, <2>1, GraphStep DEF ToggleExpanded, FitForms
  <2> QED BY <1>0, <1>1, <1>5, <2>1, <2>2 DEF ToggleExpanded
<1>6. ASSUME NEW i \in 1..MaxSinks, EditSink(i)
      PROVE  Safe
  <2>1. InTab("sinks") /\ i \in DOMAIN graphForm.doc.sinks /\ UNCHANGED updates
    BY <1>6 DEF EditSink
  <2>2. graphForm \in FitForms /\ graphForm.doc \in FitDocs /\ graphForm.doc.sinks \in UpTo(MaxSinks)
    BY <2>1, GraphStep DEF FitForms
  <2>3. PICK n \in Names : graphForm' = [graphForm EXCEPT !.doc.sinks[i] = n]
    BY <1>6 DEF EditSink
  <2>4. [graphForm.doc.sinks EXCEPT ![i] = n] \in UpTo(MaxSinks)
    BY <1>0, <2>1, <2>2, ListsFit
  <2>5. graphForm' \in FitForms
    BY <2>2, <2>3, <2>4 DEF FitForms, FitDocs
  <2> QED BY <1>0, <1>1, <2>1, <2>5
<1>7. ASSUME NEW i \in 1..MaxRoutes, EditRoute(i)
      PROVE  Safe
  <2>1. InTab("routes") /\ i \in DOMAIN graphForm.doc.routes /\ UNCHANGED updates
    BY <1>7 DEF EditRoute
  <2>2. /\ graphForm \in FitForms /\ graphForm.doc \in FitDocs
        /\ graphForm.doc.routes \in UpTo(MaxRoutes) /\ graphForm.doc.sinks \in UpTo(MaxSinks)
    BY <2>1, GraphStep DEF FitForms
  <2>3. PICK k \in DOMAIN graphForm.doc.sinks :
          graphForm' = [graphForm EXCEPT !.doc.routes[i] = graphForm.doc.sinks[k]]
    BY <1>7 DEF EditRoute
  <2>4. graphForm.doc.sinks[k] \in Names
    BY <2>2 DEF UpTo
  <2>5. [graphForm.doc.routes EXCEPT ![i] = graphForm.doc.sinks[k]] \in UpTo(MaxRoutes)
    BY <1>0, <2>1, <2>2, <2>4, ListsFit
  <2>6. graphForm' \in FitForms
    BY <2>2, <2>3, <2>5 DEF FitForms, FitDocs
  <2> QED BY <1>0, <1>1, <2>1, <2>6
<1>8. ASSUME NEW t \in {"sinks", "routes"}, InTab(t), NEW d \in FitDocs, NEW i, Remove(d, i)
      PROVE  Safe
  <2>1. graphForm \in FitForms
    BY <1>8, GraphStep
  <2>2. graphForm' \in FitForms
    BY <1>8, <2>1 DEF Remove, FitForms
  <2>3. updates' \in Kept
    BY <1>0, <1>8, SendFits DEF Remove, SendDoc, Waits
  <2> QED BY <1>1, <1>8, <2>2, <2>3
<1>9. ASSUME NEW i \in 1..MaxSinks, RemoveSink(i)
      PROVE  Safe
  <2>1. InTab("sinks") /\ i \in DOMAIN graphForm.doc.sinks
    BY <1>9 DEF RemoveSink
  <2>2. graphForm.doc.sinks \in UpTo(MaxSinks)
    BY <2>1, GraphStep
  <2>3. [graphForm.doc EXCEPT !.sinks = Without(graphForm.doc.sinks, i)] \in FitDocs
    BY <1>0, <2>1, <2>2, GraphStep, ListsFit
  <2> QED BY <1>8, <1>9, <2>1, <2>3 DEF RemoveSink
<1>10. ASSUME NEW i \in 1..MaxRoutes, RemoveRoute(i)
       PROVE  Safe
  <2>1. InTab("routes") /\ i \in DOMAIN graphForm.doc.routes
    BY <1>10 DEF RemoveRoute
  <2>2. graphForm.doc.routes \in UpTo(MaxRoutes)
    BY <2>1, GraphStep
  <2>3. [graphForm.doc EXCEPT !.routes = Without(graphForm.doc.routes, i)] \in FitDocs
    BY <1>0, <2>1, <2>2, GraphStep, ListsFit
  <2> QED BY <1>8, <1>10, <2>1, <2>3 DEF RemoveRoute
<1>11. ASSUME NEW i \in 1..MaxSinks, SaveRow(i)
       PROVE  Safe
  <2>1. PICK t \in {"sinks", "routes"} : InTab(t)
    BY <1>11 DEF SaveRow
  <2>2. graphForm \in FitForms /\ graphForm.doc \in FitDocs
    BY <2>1, GraphStep DEF FitForms
  <2>3. graphForm' \in FitForms
    BY <1>11, <2>2 DEF SaveRow, FitForms
  <2>4. updates' \in Kept
    BY <1>0, <1>11, <2>2, SendFits DEF SaveRow, SendDoc, Waits
  <2> QED BY <1>1, <2>1, <2>3, <2>4
<1> QED BY <1>2, <1>3, <1>4, <1>5, <1>6, <1>7, <1>9, <1>10, <1>11

\* The settings of other types, whose form keeps no document.
LEMMA JsonStep ==
  ASSUME EditorInv, EditJson \/ SaveJson \/ CancelJson
  PROVE  Safe
<1>1. OnSettings /\ UNCHANGED graphForm /\ EditorFits
  BY DEF EditJson, SaveJson, CancelJson, EditorInv
<1>2. updates' \in [1..MaxUpdates -> Updates \cup {Nil}]
  <2>1. CASE SaveJson
    BY <1>1, <2>1, DocsFit, SendFits DEF SaveJson, SendDoc, Waits
  <2>2. CASE EditJson \/ CancelJson
    BY <1>1, <2>2 DEF EditJson, CancelJson, EditorFits
  <2> QED BY <2>1, <2>2
<1>3. graphForm = Nil => graphForm' = Nil
  BY <1>1
<1>4. graphForm # Nil => graphForm' \in FitForms
  BY <1>1 DEF EditorFits
<1> QED BY <1>1, <1>2, <1>3, <1>4, SettingsStep

\* Steps that leave the form and the updates alone.
LEMMA QuietStep ==
  ASSUME EditorInv, PollsWhileTransient,
         \/ PermissionsArrive \/ OperatorReports \/ PollTick \/ RefetchStale \/ DeleteFails
         \/ TryFails \/ RetryFetch \/ UNCHANGED editorVars
  PROVE  Safe
<1>1. /\ UNCHANGED <<page, copy, graphForm, updates>>
      /\ failed' \in BOOLEAN /\ (copy # Nil => failed' = failed)
  <2>1. UNCHANGED <<page, copy, graphForm, updates>>
    BY DEF PermissionsArrive, OperatorReports, PollTick, RefetchStale, Refetch, TryFails, RetryFetch,
           Retrying, DeleteFails, editorVars, cacheVars
  <2>2. failed \in BOOLEAN
    BY DEF EditorInv, EditorFits
  <2>3. failed' = failed \/ failed' = (failed /\ copy # Nil)
    BY Zenon DEF PermissionsArrive, OperatorReports, PollTick, RefetchStale, Refetch, TryFails, RetryFetch,
           Retrying, DeleteFails, editorVars, cacheVars
  <2> QED BY <2>1, <2>2, <2>3
<1>2. fetching' # "no" => page # "none" \/ fetching # "no"
  BY DEF PermissionsArrive, OperatorReports, PollTick, RefetchStale, Refetch, TryFails, RetryFetch,
         Retrying, DeleteFails, editorVars, cacheVars, PollsWhileTransient
<1>3. detail' \in Details /\ detail'.sku = detail.sku
  BY DEF PermissionsArrive, OperatorReports, PollTick, RefetchStale, Refetch, TryFails, RetryFetch,
         Retrying, DeleteFails, editorVars, EditorInv, EditorFits, Details
<1>4. resource' = resource \/ (resource # Nil /\ resource' \in FitRows /\ resource'.type = resource.type)
  <2>1. CASE OperatorReports
    <3>1. resource \in FitRows
      BY <2>1 DEF OperatorReports, EditorInv, EditorFits, OfResource
    <3>2. PICK st \in OperatorStatuses : resource' = [resource EXCEPT !.status = st]
      BY <2>1 DEF OperatorReports
    <3> QED BY <3>1, <3>2, DocsFit, NilIsNothing DEF FitRows, OperatorStatuses, TransientStatuses
  <2>2. CASE UNCHANGED resource
    BY <2>2
  <2> QED BY <2>1, <2>2 DEF PermissionsArrive, PollTick, RefetchStale, Refetch, TryFails, RetryFetch,
                             Retrying, DeleteFails, editorVars
<1>5. resource # Nil => resource' # Nil
  BY <1>4, DocsFit, NilIsNothing
<1>6. EditorFits'
  BY <1>1, <1>3, <1>4 DEF EditorInv, EditorFits
<1>7. copy' # Nil /\ ~failed' => detail'.sku # ""
  <2>1. copy' = copy /\ (copy # Nil /\ ~failed' => ~failed)
    BY <1>1
  <2> QED BY <1>3, <2>1 DEF EditorInv, OfResource
<1>8. OfResource'
  BY <1>1, <1>2, <1>4, <1>5, <1>7 DEF EditorInv, OfResource
<1>9. FormShown' /\ EditsStay
  BY <1>1 DEF EditorInv, FormShown, EditsStay
<1> QED BY <1>6, <1>8, <1>9 DEF Safe, EditorInv

LEMMA EditorNextSafe == EditorInv /\ PollsWhileTransient /\ [EditorNext]_editorVars => Safe
<1> SUFFICES ASSUME EditorInv, PollsWhileTransient, [EditorNext]_editorVars
             PROVE  Safe
  OBVIOUS
<1>1. CASE Cluster
  <2>1. DeleteSucceeds => LeavePage
    BY DEF DeleteSucceeds
  <2> QED BY <1>1, <2>1, FetchStep, QuietStep, UpdateStep, LeaveStep DEF Cluster
<1>2. CASE Editing
  <2>1. OpenDetail \/ OpenSettings => Safe
    BY VisitStep DEF OpenDetail, OpenSettings
  <2>2. LeaveResource => LeavePage
    BY DEF LeaveResource
  <2> QED BY <1>2, <2>1, <2>2, LeaveStep, QuietStep, DetailPageStep, RowsStep, JsonStep DEF Editing
<1>3. CASE PollTick
  BY <1>3, QuietStep
<1>4. CASE UNCHANGED editorVars
  BY <1>4, QuietStep
<1> QED BY <1>1, <1>2, <1>3, <1>4 DEF EditorNext

LEMMA EditorInvariant == EditorSteps => []EditorInv
<1>1. EditorInv /\ PollsWhileTransient /\ [EditorNext]_editorVars => EditorInv'
  BY EditorNextSafe DEF Safe
<1> QED BY <1>1, EditorInitInv, IntervalWhileTransient, PTL DEF EditorSteps

\* The documents in the form stay within their bounds, the form is on its page
\* alone, and a copy is of the resource the server has.
THEOREM EditorTyped == EditorSteps => []EditorTypeOK
<1>1. EditorInv => EditorTypeOK
  <2> SUFFICES ASSUME EditorInv
               PROVE  EditorTypeOK
    OBVIOUS
  <2>1. ASSUME graphForm # Nil
        PROVE  Len(graphForm.doc.sinks) <= MaxSinks /\ Len(graphForm.doc.routes) <= MaxRoutes
    <3>1. graphForm.doc.sinks \in UpTo(MaxSinks) /\ graphForm.doc.routes \in UpTo(MaxRoutes)
      BY <2>1 DEF EditorInv, EditorFits, FitForms, FitDocs
    <3> QED BY <3>1 DEF UpTo
  <2> QED BY <2>1 DEF EditorTypeOK, EditorInv, EditorFits, OfResource, FormShown
<1> QED BY <1>1, EditorInvariant, PTL

\* What was typed into the sinks and routes and not saved survives every newer
\* copy, every answer and every change of tab: it goes only with the page or
\* with its error view (GraphForm, whose useForm takes its values once).
THEOREM EditsAreKept == EditorSteps => EditsKept
<1>1. EditorInv /\ PollsWhileTransient /\ [EditorNext]_editorVars
        => (graphForm # Nil /\ page' = "settings" /\ ~failed'
              => /\ graphForm' # Nil
                 /\ graphForm'.doc = graphForm.doc \/ UNCHANGED cacheVars)
  BY EditorNextSafe DEF Safe, EditsStay
<1> QED BY <1>1, EditorInvariant, IntervalWhileTransient, PTL DEF EditorSteps, EditsKept
-----------------------------------------------------------------------------
(* Watch.  The logs always fetch something; the charts may have a query to    *)
(* show that is none.                                                         *)
WatchTypes ==
  /\ board \in {"away", "logs", "charts", "summary"} /\ query \in Queries \cup {NoQuery}
  /\ live \in BOOLEAN /\ attempt \in {"none", "asked", "waiting"} /\ errorShown \in BOOLEAN
  /\ board = "logs" => query # NoQuery
WatchShows ==
  /\ failures \in 0..MaxRetries
  /\ query = NoQuery => attempt = "none" /\ errorShown = FALSE
  /\ attempt # "none" => errorShown = FALSE

\* What is shown of a query is of that query's fetch: nothing under way or over
\* without one, and no fetch under way with its error already set.
THEOREM WatchTyped == WatchSteps => []WatchTypeOK
<1>1. (WatchInit => WatchTypes) /\ (WatchInit => WatchShows)
  <2>1. WatchInit => WatchTypes
    BY WatchBounds DEF WatchInit, WatchTypes
  <2>2. WatchInit => WatchShows
    BY WatchBounds DEF WatchInit, WatchShows
  <2> QED BY <2>1, <2>2
<1>2. ASSUME WatchTypes, WatchShows, [WatchNext]_watchVars
      PROVE  WatchTypes'
  <2>1. CASE OpenLogs
    BY <2>1, <1>2, WatchBounds DEF OpenLogs, ObserveQuery, Fetch, Rest, WatchTypes
  <2>2. CASE OpenMonitoring
    BY <2>2, <1>2 DEF OpenMonitoring, ObserveQuery, Fetch, Rest, WatchTypes
  <2>3. CASE LeaveBoard
    BY <2>3, <1>2 DEF LeaveBoard, Rest, WatchTypes
  <2>4. ASSUME NEW q \in Queries, ChangeLogs(q)
        PROVE  WatchTypes'
    BY <2>4, <1>2, WatchBounds DEF ChangeLogs, ObserveQuery, Fetch, Rest, WatchTypes
  <2>5. ASSUME NEW q \in Queries \cup {NoQuery}, ChangeMetrics(q)
        PROVE  WatchTypes'
    BY <2>5, <1>2 DEF ChangeMetrics, ObserveQuery, Fetch, Rest, WatchTypes
  <2>6. CASE ToggleLive
    BY <2>6, <1>2 DEF ToggleLive, WatchTypes
  <2>7. CASE RefetchLogs
    BY <2>7, <1>2 DEF RefetchLogs, Fetch, WatchTypes
  <2>8. CASE SwitchBoard
    BY <2>8, <1>2 DEF SwitchBoard, Fetch, WatchTypes
  <2>9. CASE Poll
    BY <2>9, <1>2 DEF Poll, Fetch, WatchTypes
  <2>10. CASE Refused
    BY <2>10, <1>2 DEF Refused, WatchTypes
  <2>11. CASE Retry
    BY <2>11, <1>2 DEF Retry, WatchTypes
  <2>12. CASE UNCHANGED watchVars
    BY <2>12, <1>2 DEF watchVars, WatchTypes
  <2> QED BY <2>1, <2>2, <2>3, <2>4, <2>5, <2>6, <2>7, <2>8, <2>9, <2>10, <2>11,
            <2>12, <1>2 DEF WatchNext
<1>3. ASSUME WatchTypes, WatchShows, [WatchNext]_watchVars
      PROVE  WatchShows'
  <2>1. CASE OpenLogs
    BY <2>1, <1>3, WatchBounds DEF OpenLogs, ObserveQuery, Fetch, Rest, WatchTypes, WatchShows
  <2>2. CASE OpenMonitoring
    BY <2>2, <1>3, WatchBounds DEF OpenMonitoring, ObserveQuery, Fetch, Rest, WatchTypes, WatchShows
  <2>3. CASE LeaveBoard
    BY <2>3, <1>3, WatchBounds DEF LeaveBoard, Rest, WatchTypes, WatchShows
  <2>4. ASSUME NEW q \in Queries, ChangeLogs(q)
        PROVE  WatchShows'
    BY <2>4, <1>3, WatchBounds DEF ChangeLogs, ObserveQuery, Fetch, Rest, WatchTypes, WatchShows
  <2>5. ASSUME NEW q \in Queries \cup {NoQuery}, ChangeMetrics(q)
        PROVE  WatchShows'
    BY <2>5, <1>3, WatchBounds DEF ChangeMetrics, ObserveQuery, Fetch, Rest, WatchTypes, WatchShows
  <2>6. CASE ToggleLive
    BY <2>6, <1>3, WatchBounds DEF ToggleLive, WatchTypes, WatchShows
  <2>7. CASE RefetchLogs
    BY <2>7, <1>3, WatchBounds DEF RefetchLogs, Fetch, WatchTypes, WatchShows
  <2>8. CASE SwitchBoard
    BY <2>8, <1>3, WatchBounds DEF SwitchBoard, Fetch, WatchTypes, WatchShows
  <2>9. CASE Poll
    BY <2>9, <1>3, WatchBounds DEF Poll, Fetch, WatchTypes, WatchShows
  <2>10. CASE Refused
    BY <2>10, <1>3, WatchBounds DEF Refused, WatchTypes, WatchShows
  <2>11. CASE Retry
    BY <2>11, <1>3, WatchBounds DEF Retry, WatchTypes, WatchShows
  <2>12. CASE UNCHANGED watchVars
    BY <2>12, <1>3, WatchBounds DEF watchVars, WatchTypes, WatchShows
  <2> QED BY <2>1, <2>2, <2>3, <2>4, <2>5, <2>6, <2>7, <2>8, <2>9, <2>10, <2>11,
            <2>12, <1>3 DEF WatchNext
<1>4. WatchTypes /\ WatchShows => WatchTypeOK
  <2>1. WatchShows => failures \in 0..MaxRetries
    BY DEF WatchShows
  <2>2. WatchShows => /\ query = NoQuery => attempt = "none" /\ ~errorShown
                      /\ attempt # "none" => ~errorShown
    BY DEF WatchShows
  <2>3. WatchTypes => /\ board \in {"away", "logs", "charts", "summary"}
                      /\ query \in Queries \cup {NoQuery} /\ live \in BOOLEAN
                      /\ attempt \in {"none", "asked", "waiting"} /\ errorShown \in BOOLEAN
    BY DEF WatchTypes
  <2> QED BY <2>1, <2>2, <2>3, Zenon DEF WatchTypeOK
<1> QED BY <1>1, <1>2, <1>3, <1>4, PTL DEF WatchSteps
-----------------------------------------------------------------------------
(* Account.  What is under way is one of the three operations, and nobody      *)
(* waits for a fetch of a page that is gone.                                  *)
Slots == [kind : {"portal", "create", "cancel"}, stage : {"request", "refetch"}] \cup {Idle}

Held ==
  /\ operations \in [Operations -> Slots]
  /\ updating => \E o \in Operations : operations[o] # Idle
Waiting ==
  /\ \A o \in Operations : operations[o].stage = "refetch" => o \in billingFetch.waits
  /\ billingFetch.waits # {} \/ billingFetch.setup => billingFetch.on
  /\ billingPage = "away" => billingFetch.waits = {}
MoneyKnown ==
  billingPage \in {"away", "open"} /\ money \in Money /\ billingInfo \in Money \cup {NoInfo}

AccountInv == Held /\ Waiting /\ MoneyKnown

\* Who goes on after a fetch, and the subscription that is made then.
LEMMA ResumeStep ==
  ASSUME NEW fetch, NEW info, NEW ops \in [Operations -> Slots], Resume(fetch, info, ops),
         updating => \E o \in Operations : ops[o] # Idle
  PROVE  /\ Held'
         /\ \A o \in Operations : operations'[o].stage = "refetch"
                                    => o \notin fetch.waits /\ ops[o].stage = "refetch"
<1> DEFINE left == [o \in Operations |-> IF o \in fetch.waits THEN Idle ELSE ops[o]]
<1>1. left \in [Operations -> Slots]
  BY DEF Slots
<1>2. \A o \in Operations : left[o].stage = "refetch" => o \notin fetch.waits /\ ops[o].stage = "refetch"
  BY DEF Idle
<1>3. CASE operations' = left /\ updating' = (updating /\ fetch.waits = {})
  <2>1. updating' => updating /\ fetch.waits = {}
    BY <1>3
  <2>2. fetch.waits = {} => \A o \in Operations : left[o] = ops[o]
    OBVIOUS
  <2> QED BY <1>1, <1>2, <1>3, <2>1, <2>2 DEF Held
<1>4. ASSUME NEW o \in Operations,
             operations' = [left EXCEPT ![o] = [kind |-> "create", stage |-> "request"]]
      PROVE  /\ Held'
             /\ \A p \in Operations : operations'[p].stage = "refetch"
                                        => p \notin fetch.waits /\ ops[p].stage = "refetch"
  <2>1. [kind |-> "create", stage |-> "request"] \in Slots
        /\ [kind |-> "create", stage |-> "request"] # Idle
    BY DEF Slots, Idle
  <2>2. operations' \in [Operations -> Slots] /\ operations'[o] # Idle
    BY <1>1, <1>4, <2>1
  <2>3. \A p \in Operations : p # o => operations'[p] = left[p]
    BY <1>4
  <2>4. operations'[o].stage # "refetch"
    BY <1>1, <1>4
  <2> QED BY <1>2, <2>2, <2>3, <2>4 DEF Held
<1> QED BY <1>3, <1>4 DEF Resume

\* A refetch, by whoever waits for it.
LEMMA RefetchStep ==
  ASSUME AccountInv, NEW who, NEW setup, NEW ops \in [Operations -> Slots],
         RefetchBilling(who, setup, ops), UNCHANGED billingPage, billingPage = "open",
         updating => \E o \in Operations : ops[o] # Idle,
         \A o \in Operations : ops[o].stage = "refetch" => o \in billingFetch.waits \cup who
  PROVE  Held' /\ Waiting'
<1>1. CASE Ready
  <2>1. /\ billingFetch' = [on |-> TRUE, waits |-> who, setup |-> setup]
        /\ Resume(billingFetch, billingInfo, ops)
    BY <1>1 DEF RefetchBilling
  <2>2. Held' /\ \A o \in Operations : operations'[o].stage = "refetch"
                                         => o \notin billingFetch.waits /\ ops[o].stage = "refetch"
    BY <2>1, ResumeStep
  <2> QED BY <2>1, <2>2 DEF Waiting
<1>2. CASE ~Ready
  <2>1. /\ billingFetch' = [on |-> TRUE, waits |-> billingFetch.waits \cup who,
                            setup |-> billingFetch.setup \/ setup]
        /\ operations' = ops /\ UNCHANGED updating
    BY <1>2 DEF RefetchBilling
  <2> QED BY <2>1 DEF Held, Waiting
<1> QED BY <1>1, <1>2

\* A step that leaves alone what is known of the server and of its fetch.
LEMMA OperationStep ==
  ASSUME AccountInv, UNCHANGED <<billingPage, billingFetch>>, billingPage = "open", Held',
         \A o \in Operations : operations'[o].stage = "refetch" => operations[o].stage = "refetch"
  PROVE  Waiting'
BY DEF AccountInv, Waiting

LEMMA BeginStep ==
  ASSUME AccountInv, NEW kind \in {"portal", "create", "cancel"}, Free, Begin(kind)
  PROVE  AccountInv'
<1>1. PICK o \in Operations :
        /\ operations' = [operations EXCEPT ![o] = [kind |-> kind, stage |-> "request"]]
        /\ updating' = TRUE
  BY DEF Begin
<1>2. [kind |-> kind, stage |-> "request"] \in Slots /\ [kind |-> kind, stage |-> "request"] # Idle
  BY DEF Slots, Idle
<1>3. Held'
  BY <1>1, <1>2 DEF AccountInv, Held
<1>4. \A p \in Operations : operations'[p].stage = "refetch" => operations[p].stage = "refetch"
  BY <1>1 DEF AccountInv, Held
<1> QED BY <1>3, <1>4, OperationStep DEF Free, OnBilling, AccountInv, MoneyKnown

LEMMA EndStep ==
  ASSUME AccountInv, NEW o \in Operations, End(o), OnBilling, UNCHANGED billingFetch
  PROVE  Held' /\ Waiting'
<1>1. Held'
  BY DEF End, AccountInv, Held, Slots
<1>2. \A p \in Operations : operations'[p].stage = "refetch" => operations[p].stage = "refetch"
  BY DEF End, AccountInv, Held, Idle
<1> QED BY <1>1, <1>2, OperationStep DEF OnBilling

LEMMA SucceedsStep ==
  ASSUME AccountInv, NEW o \in Operations, OperationSucceeds(o)
  PROVE  AccountInv'
<1> DEFINE ops == [operations EXCEPT ![o].stage = "refetch"]
<1>1. operations \in [Operations -> Slots] /\ operations[o].stage = "request" /\ OnBilling
  BY DEF AccountInv, Held, OperationSucceeds
<1>2. operations[o] \in [kind : {"portal", "create", "cancel"}, stage : {"request", "refetch"}]
  BY <1>1 DEF Slots, Idle
<1>3. money' \in Money
  <2>1. PICK s \in Outcomes(operations[o].kind) : money' = [money EXCEPT !.subscription = s]
    BY DEF OperationSucceeds
  <2>2. money \in Money
    BY DEF AccountInv, MoneyKnown
  <2> QED BY <1>2, <2>1, <2>2 DEF Outcomes, Money, Subscriptions
<1>4. CASE operations[o].kind = "portal"
  <2>1. End(o) /\ UNCHANGED billingFetch
    BY <1>4 DEF OperationSucceeds
  <2> QED BY <1>1, <1>3, <2>1, EndStep DEF OperationSucceeds, OnBilling, AccountInv, MoneyKnown
<1>5. CASE operations[o].kind # "portal"
  <2>1. RefetchBilling({o}, FALSE, ops)
    BY <1>5 DEF OperationSucceeds
  <2>2. ops \in [Operations -> Slots] /\ ops[o] # Idle
    BY <1>1, <1>2 DEF Slots, Idle
  <2>3. \A p \in Operations : ops[p].stage = "refetch" => p \in billingFetch.waits \cup {o}
    BY <1>1 DEF AccountInv, Waiting
  <2>4. Held' /\ Waiting'
    <3> HIDE DEF ops
    <3> QED BY <1>1, <2>1, <2>2, <2>3, RefetchStep DEF OnBilling
  <2> QED BY <1>1, <1>3, <2>4 DEF OperationSucceeds, OnBilling, AccountInv, MoneyKnown
<1> QED BY <1>4, <1>5

LEMMA FetchedStep ==
  ASSUME AccountInv, BillingAnswered
  PROVE  AccountInv'
<1>1. PICK info : /\ Resume(billingFetch, info, operations) /\ billingInfo' = info
                  /\ info \in Money \cup {NoInfo}
                  /\ OnBilling /\ billingFetch' = NoWait /\ UNCHANGED money
  BY DEF BillingAnswered, BillingArrives, BillingFails, AccountInv, MoneyKnown
<1>2. /\ Held'
      /\ \A o \in Operations : operations'[o].stage = "refetch"
                                 => o \notin billingFetch.waits /\ operations[o].stage = "refetch"
  BY <1>1, ResumeStep DEF AccountInv, Held
<1>3. Waiting'
  BY <1>1, <1>2 DEF AccountInv, Waiting, NoWait
<1> QED BY <1>1, <1>2, <1>3 DEF AccountInv, MoneyKnown, OnBilling

\* The page comes and goes, and its modal.
LEMMA PageStep ==
  ASSUME AccountInv,
         \/ OpenBilling \/ LeaveBilling \/ FocusBilling \/ OpenSetup \/ SetupWrites \/ CloseSetup
         \/ HandleBillingSetupComplete \/ UNCHANGED accountVars
  PROVE  AccountInv'
<1>1. CASE OpenBilling
  BY <1>1 DEF OpenBilling, AccountInv, Held, Waiting, MoneyKnown, NoWait
<1>2. CASE LeaveBilling
  <2>1. Held' /\ Waiting'
    BY <1>2 DEF LeaveBilling, Held, Waiting, NoWait, Slots, Idle
  <2>2. NoMoney \in Money
    BY DEF NoMoney, Money, Subscriptions
  <2> QED BY <1>2, <2>1, <2>2 DEF LeaveBilling, AccountInv, MoneyKnown
<1>3. CASE FocusBilling
  BY <1>3 DEF FocusBilling, OnBilling, AccountInv, Held, Waiting, MoneyKnown, NoWait
<1>4. CASE OpenSetup \/ CloseSetup
  BY <1>4 DEF OpenSetup, CloseSetup, OnBilling, AccountInv, Held, Waiting, MoneyKnown
<1>5. CASE SetupWrites
  <2>1. money \in Money
    BY DEF AccountInv, MoneyKnown
  <2>2. money' \in Money
    BY <1>5, <2>1 DEF SetupWrites, Money, Subscriptions
  <2> QED BY <1>5, <2>2 DEF SetupWrites, OnBilling, AccountInv, Held, Waiting, MoneyKnown
<1>6. CASE HandleBillingSetupComplete
  <2>1. RefetchBilling({}, TRUE, operations) /\ OnBilling /\ UNCHANGED <<money, billingInfo>>
    BY <1>6 DEF HandleBillingSetupComplete
  <2>2. Held' /\ Waiting'
    BY <2>1, RefetchStep DEF OnBilling, AccountInv, Held, Waiting
  <2> QED BY <2>1, <2>2 DEF OnBilling, AccountInv, MoneyKnown
<1>7. CASE UNCHANGED accountVars
  BY <1>7 DEF accountVars, AccountInv, Held, Waiting, MoneyKnown
<1> QED BY <1>1, <1>2, <1>3, <1>4, <1>5, <1>6, <1>7

\* The buttons are off only while something is under way that will turn them
\* on again, and who waits for an answer waits for one that was asked for,
\* however operations, refetches and the subscription made without a click
\* overlap.
THEOREM AccountTyped == AccountSteps => []AccountTypeOK
<1>1. AccountInit => AccountInv
  <2>1. NoMoney \in Money
    BY DEF NoMoney, Money, Subscriptions
  <2> QED BY <2>1 DEF AccountInit, AccountInv, Held, Waiting, MoneyKnown, NoWait, Slots, Idle
<1>2. AccountInv /\ [AccountNext]_accountVars => AccountInv'
  <2> SUFFICES ASSUME AccountInv, [AccountNext]_accountVars
               PROVE  AccountInv'
    OBVIOUS
  <2>1. OpenCustomerPortal \/ CreateSubscription \/ CancelSubscription => AccountInv'
    BY BeginStep DEF OpenCustomerPortal, CreateSubscription, CancelSubscription
  <2>2. ASSUME NEW o \in Operations, OperationFails(o)
        PROVE  AccountInv'
    BY <2>2, EndStep DEF OperationFails, OnBilling, AccountInv, MoneyKnown
  <2> QED BY <2>1, <2>2, SucceedsStep, FetchedStep, PageStep DEF AccountNext, OperationAnswered
<1>3. AccountInv => AccountTypeOK
  BY DEF AccountInv, Held, Waiting, MoneyKnown, AccountTypeOK
<1> QED BY <1>1, <1>2, <1>3, PTL DEF AccountSteps
=============================================================================
