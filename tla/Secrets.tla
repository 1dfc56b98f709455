------------------------------- MODULE Secrets -------------------------------
(* Secrets in the web application.  A secret is a row of type Secret and its *)
(* values, which the server keeps elsewhere, in the project's namespace;     *)
(* the two are written by two requests and never in one.  Three parts of the *)
(* application write them: SecretResourceDetails, the secret's own page with *)
(* SecretForm; SecretSelector, in the form of a sink, which makes a secret   *)
(* and refers to it; and SecretsPage, the list, which deletes rows.          *)
EXTENDS Integers, FiniteSets

CONSTANTS
  Ids,         \* ids of secrets of the project
  SecretNames, \* names a user may give them
  IdOf,        \* the id that a name is turned into
  MaxLeft,     \* bound: requests under way that pages may leave behind
  Gone         \* nothing: no row, no values, no form

ASSUME SecretsBounds == /\ Ids \subseteq SecretNames /\ IdOf \in [SecretNames -> Ids]
                        /\ \A i \in Ids : IdOf[i] = i

\* The values: whether a key is named.  A secret of type "generic" has no key until
\* one is, another type names its own.
Values == {"none", "keys"}
ASSUME GoneIsNothing == Gone \notin Values
ASSUME GoneIsNoId == Gone \notin Ids

\* What the pages ask of the server.  A request outlives the page that sent it:
\* it is applied all the same, and its answer finds the page no more ("live").
\* An addition's answer still finds the sink's form, where that stays ("form").
Saves    == [id : Ids, kind : {"create", "update"}, value : Values, done : BOOLEAN,
             live : BOOLEAN]
Addings  == [name : SecretNames, value : Values, stage : {"row", "values", "done"},
             page : {"selector", "form", "left"}]
Removals == [id : Ids, done : BOOLEAN, live : BOOLEAN]

VARIABLES
  contents,    \* the cluster: the values by id
  rows,        \* the server: the row by id, and whether its settings hold a key
  place,       \* "away", "values", "selector", "form" (without the selector) or "list"
  opened,      \* the id whose page is open
  known,       \* useProjectSecret's data, by id
  read,        \* its request: whether there is one, and what it has read
  tab,         \* "overview" or "edit"
  draft,       \* SecretForm's state where the page has one
  told,        \* what SecretSelector's form has told it, newSecretData
  saves,       \* handleSave's requests under way
  dialog,      \* SecretSelector's: whether it is open, and the name in it
  addings,     \* SecretSelector's creations under way
  ref,         \* the name the sink refers to
  listed,      \* SecretsPage's list
  target,      \* deletingId
  confirming,  \* showConfirm
  entered,     \* the name entered in the dialog
  removals     \* the delete requests under way

serverVars   == <<contents, rows>>
pageVars     == <<place, opened, known, read, tab>>
selectorVars == <<told, dialog, addings, ref>>
listVars     == <<listed, target, confirming, entered, removals>>
secretsVars  == <<serverVars, pageVars, draft, saves, selectorVars, listVars>>
-----------------------------------------------------------------------------
NoDialog == [open |-> FALSE, name |-> ""]
NoRead   == [stage |-> "none", value |-> Gone]
Asked    == [stage |-> "asked", value |-> Gone]

\* Whether a page has a request of its own under way: its buttons wait for it.
Saving   == \E s \in saves : s.live
Adding   == \E a \in addings : a.page = "selector"
Removing == \E r \in removals : r.live

SecretsInit ==
  /\ contents \in [Ids -> {Gone, "keys"}]
  /\ rows \in [Ids -> {Gone, "key"}]
  /\ place = "away" /\ opened = Gone /\ tab = "overview"
  /\ known = [i \in Ids |-> Gone] /\ read = [i \in Ids |-> NoRead]
  /\ draft = Gone /\ told = "none" /\ saves = {}
  /\ dialog = NoDialog /\ addings = {} /\ ref = Gone
  /\ listed = {} /\ target = Gone /\ confirming = FALSE /\ entered = Gone /\ removals = {}

\* What a page had asked for goes on without it, and so does a reading of values
\* under way, which keeps the values that the page had; without one they are
\* forgotten at once.  Bound: MaxLeft requests.
LeftBehind == Cardinality(saves) + Cardinality(addings) + Cardinality(removals) <= MaxLeft

PageGone ==
  /\ LeftBehind
  /\ opened' = Gone /\ tab' = "overview" /\ draft' = Gone /\ told' = "none" /\ dialog' = NoDialog
  /\ known' = [i \in Ids |-> IF read[i].stage = "none" THEN Gone ELSE known[i]]
  /\ removals' = {[r EXCEPT !.live = FALSE] : r \in removals}
  /\ listed' = {} /\ target' = Gone /\ confirming' = FALSE /\ entered' = Gone
  /\ UNCHANGED <<serverVars, read>>

\* Mutant: a save under way is taken for the next page's.
LeaveSaving ==
  /\ place # "away" /\ place' = "away" /\ PageGone /\ UNCHANGED saves
  /\ ref' = Gone /\ addings' = {[a EXCEPT !.page = "left"] : a \in addings}

Leave ==
  /\ place # "away" /\ place' = "away" /\ PageGone
  /\ saves' = {[s EXCEPT !.live = FALSE] : s \in saves}
  /\ ref' = Gone /\ addings' = {[a EXCEPT !.page = "left"] : a \in addings}

\* The selector goes and the form of its sink stays, on another of its tabs.
LeaveSelector ==
  /\ place = "selector" /\ place' = "form" /\ PageGone
  /\ addings' = {[a EXCEPT !.page = IF @ = "left" THEN @ ELSE "form"] : a \in addings}
  /\ UNCHANGED <<saves, ref>>
-----------------------------------------------------------------------------
(* SecretResourceDetails.                                                     *)
\* "Secret Not Initialized": the last request failed, for whatever reason, and
\* none before it brought values.  Another request shows the spinner instead.
IsMissing   == place = "values" /\ known[opened] = Gone /\ read[opened].stage = "none"
EditsValues == place = "values" /\ known[opened] # Gone /\ tab = "edit"

\* A render: the form to initialize starts empty and keeps what is in it; the
\* form to edit takes the values anew on every render of the page.
PageRenders ==
  draft' = IF IsMissing' THEN IF IsMissing THEN draft ELSE "none"
           ELSE IF EditsValues' THEN known'[opened'] ELSE Gone

OnPage(i) == place = "values" /\ opened = i

\* A request that is under way is joined.
OpenSecret(i) ==
  /\ place = "away" /\ rows[i] # Gone
  /\ place' = "values" /\ opened' = i /\ tab' = "overview" /\ draft' = Gone
  /\ read' = IF read[i].stage = "none" THEN [read EXCEPT ![i] = Asked] ELSE read
  /\ UNCHANGED <<serverVars, known, saves, selectorVars, listVars>>

SecretRead(i) ==
  /\ read[i].stage = "asked"
  /\ read' = [read EXCEPT ![i] = [stage |-> "read", value |-> contents[i]]]
  /\ UNCHANGED <<serverVars, place, opened, known, tab, draft, saves, selectorVars, listVars>>

\* The same values render the page only if they end an error.  Nobody keeps
\* values that arrive when the page is gone.
SecretArrives(i) ==
  /\ read[i].stage = "read" /\ read[i].value # Gone
  /\ known' = [known EXCEPT ![i] = IF OnPage(i) THEN read[i].value ELSE Gone]
  /\ read' = [read EXCEPT ![i] = NoRead]
  /\ UNCHANGED <<serverVars, place, opened, tab, saves, selectorVars, listVars>>
  /\ \/ OnPage(i) /\ PageRenders
     \/ (OnPage(i) => known' = known) /\ UNCHANGED draft

\* There are no values, or the request failed: values on the screen stay.
SecretMissing(i) ==
  /\ read[i].stage # "none"
  /\ known' = IF OnPage(i) THEN known ELSE [known EXCEPT ![i] = Gone]
  /\ read' = [read EXCEPT ![i] = NoRead]
  /\ UNCHANGED <<serverVars, place, opened, tab, saves, selectorVars, listVars>>
  /\ IF OnPage(i) THEN PageRenders ELSE UNCHANGED draft

\* Starting to read renders a page that has no values to show.
Starts == PageRenders \/ (known[opened] # Gone /\ UNCHANGED draft)

FocusValues ==
  /\ place = "values" /\ read[opened].stage = "none"
  /\ read' = [read EXCEPT ![opened] = Asked]
  /\ UNCHANGED <<serverVars, place, opened, known, tab, saves, selectorVars, listVars>>
  /\ Starts

SwitchValuesTab ==
  /\ place = "values" /\ known[opened] # Gone
  /\ tab' = IF tab = "edit" THEN "overview" ELSE "edit"
  /\ UNCHANGED <<place, opened, known, read>> /\ PageRenders
  /\ UNCHANGED <<serverVars, saves, selectorVars, listVars>>

\* handleSave creates or updates, by whether the page knows values.
HandleSave(v) ==
  saves' = saves \cup {[id |-> opened, kind |-> IF known[opened] = Gone THEN "create" ELSE "update",
                        value |-> v, done |-> FALSE, live |-> TRUE]}

\* The form to initialize submits itself at every change.
InitializeSecret ==
  /\ IsMissing /\ ~Saving
  /\ draft' \in Values /\ HandleSave(draft')
  /\ UNCHANGED <<serverVars, pageVars, selectorVars, listVars>>

EditSecret ==
  /\ EditsValues /\ ~Saving
  /\ draft' \in Values
  /\ UNCHANGED <<serverVars, pageVars, saves, selectorVars, listVars>>

\* The page renders as the save begins and as it ends.
SubmitSecret ==
  /\ EditsValues /\ ~Saving
  /\ HandleSave(draft)
  /\ UNCHANGED <<serverVars, pageVars, selectorVars, listVars>> /\ PageRenders

\* Mutant: a create replaces values that are there.
CanReplace(kind, i) == kind = "create" \/ contents[i] # Gone

\* The cluster refuses a create where there are values and an update where
\* there are none.
CanWrite(kind, i) == (kind = "create") = (contents[i] = Gone)
SaveWrites(s) ==
  /\ ~s.done /\ CanWrite(s.kind, s.id)
  /\ contents' = [contents EXCEPT ![s.id] = s.value]
  /\ saves' = (saves \ {s}) \cup {[s EXCEPT !.done = TRUE]}
  /\ UNCHANGED <<rows, pageVars, draft, selectorVars, listVars>>

\* The values are read again, whether or not the page is still there: a reading
\* under way is joined while there are no values, else cancelled.
SaveSucceeds(s) ==
  /\ s.done /\ saves' = saves \ {s}
  /\ read' = IF read[s.id].stage # "none" /\ known[s.id] = Gone THEN read
             ELSE [read EXCEPT ![s.id] = Asked]
  /\ tab' = IF s.live THEN "overview" ELSE tab
  /\ UNCHANGED <<serverVars, place, opened, known, selectorVars, listVars>>
  /\ IF s.live THEN PageRenders ELSE IF OnPage(s.id) THEN Starts ELSE UNCHANGED draft

\* Refused, or the answer is lost.
SaveFails(s) ==
  /\ saves' = saves \ {s}
  /\ UNCHANGED pageVars /\ IF s.live THEN PageRenders ELSE UNCHANGED draft
  /\ UNCHANGED <<serverVars, selectorVars, listVars>>
-----------------------------------------------------------------------------
(* SecretSelector.                                                           *)
OpenSelector ==
  /\ place \in {"away", "form"} /\ place' = "selector"
  /\ UNCHANGED <<serverVars, opened, known, read, tab, draft, saves, selectorVars, listVars>>

InSelector == place = "selector" /\ UNCHANGED <<serverVars, pageVars, draft, saves, listVars>>

\* Choosing a secret refers to its first key, which the row's settings hold
\* only where the settings page wrote them; else the reference is cleared.
SelectSecret(i) ==
  /\ InSelector /\ ~dialog.open /\ rows[i] # Gone
  /\ ref' = IF rows[i] = "key" THEN i ELSE Gone
  /\ UNCHANGED <<told, dialog, addings>>

\* The form in the dialog is given what it last told.
OpenCreateDialog ==
  /\ InSelector /\ ~dialog.open
  /\ dialog' = [dialog EXCEPT !.open = TRUE]
  /\ UNCHANGED <<told, addings, ref>>

CloseCreateDialog ==
  /\ InSelector /\ dialog.open
  /\ dialog' = [dialog EXCEPT !.open = FALSE]
  /\ UNCHANGED <<told, addings, ref>>

\* Bound: not while a creation is under way, which has taken its name.
EnterName(n) ==
  /\ InSelector /\ dialog.open /\ dialog.name # n /\ ~Adding
  /\ dialog' = [dialog EXCEPT !.name = n]
  /\ UNCHANGED <<told, addings, ref>>

ChangeNewSecret ==
  /\ InSelector /\ dialog.open
  /\ told' \in Values
  /\ UNCHANGED <<dialog, addings, ref>>

HandleCreateSecret ==
  /\ InSelector /\ dialog.open /\ dialog.name # "" /\ ~Adding
  /\ addings' = addings \cup {[name |-> dialog.name, value |-> told, stage |-> "row",
                               page |-> "selector"]}
  /\ UNCHANGED <<told, dialog, ref>>

\* useCreateResource: the row under the id made of the name, without values;
\* then the values under that id.
Reaches(a, stage) == addings' = (addings \ {a}) \cup {[a EXCEPT !.stage = stage]}

SelectorRow(a) ==
  /\ a.stage = "row" /\ rows[IdOf[a.name]] = Gone
  /\ rows' = [rows EXCEPT ![IdOf[a.name]] = "bare"] /\ Reaches(a, "values")
  /\ UNCHANGED <<contents, pageVars, draft, saves, told, dialog, ref, listVars>>

SelectorValues(a) ==
  /\ a.stage = "values" /\ CanWrite("create", IdOf[a.name])
  /\ contents' = [contents EXCEPT ![IdOf[a.name]] = a.value] /\ Reaches(a, "done")
  /\ UNCHANGED <<rows, pageVars, draft, saves, told, dialog, ref, listVars>>

\* The sink refers to the name, if there is a key and the sink's form is still
\* there, whether or not the dialog was closed in the meantime; another dialog
\* of the same selector that is open by then is closed.
Created(a) ==
  /\ addings' = addings \ {a}
  /\ ref' = IF a.page # "left" /\ a.value = "keys" THEN a.name ELSE ref
  /\ IF a.page = "selector" THEN dialog' = NoDialog /\ told' = "none"
     ELSE UNCHANGED <<dialog, told>>
  /\ UNCHANGED <<serverVars, pageVars, draft, saves, listVars>>

\* Mutant: the sink refers to the secret once it has its row.
SelectorCreatedEarly(a) == a.stage # "row" /\ Created(a)

SelectorCreated(a) == a.stage = "done" /\ Created(a)

SelectorFails(a) ==
  /\ addings' = addings \ {a}
  /\ UNCHANGED <<serverVars, pageVars, draft, saves, told, dialog, ref, listVars>>
-----------------------------------------------------------------------------
(* SecretsPage, and ResourcesPage, which is the same for the other types: a  *)
(* list fetched again every ten seconds, and a dialog to delete, in every    *)
(* row, for the row that deletingId names.                                   *)
Existing == {i \in Ids : rows[i] # Gone}

OpenList ==
  /\ place = "away" /\ place' = "list" /\ listed' = Existing
  /\ UNCHANGED <<serverVars, opened, known, read, tab, draft, saves, selectorVars,
                 target, confirming, entered, removals>>

InList == place = "list" /\ UNCHANGED <<serverVars, pageVars, draft, saves, selectorVars>>
Asks   == confirming /\ target \in listed

\* A row that is gone takes its dialog away, and what was entered in it.
ListArrives ==
  /\ InList /\ listed' = Existing
  /\ entered' = IF target \in listed' THEN entered ELSE Gone
  /\ UNCHANGED <<target, confirming, removals>>

AskDelete(i) ==
  /\ InList /\ ~Asks /\ i \in listed
  /\ target' = i /\ confirming' = TRUE /\ UNCHANGED <<listed, entered, removals>>

CloseDelete ==
  /\ InList /\ Asks
  /\ target' = Gone /\ confirming' = FALSE /\ entered' = Gone /\ UNCHANGED <<listed, removals>>

EnterSecretName ==
  /\ InList /\ Asks /\ ~Removing /\ entered = Gone
  /\ entered' = target /\ UNCHANGED <<listed, target, confirming, removals>>

HandleDelete ==
  /\ InList /\ Asks /\ entered = target /\ ~Removing
  /\ removals' = removals \cup {[id |-> target, done |-> FALSE, live |-> TRUE]}
  /\ UNCHANGED <<listed, target, confirming, entered>>

\* The row goes, the values stay.
DeleteWrites(r) ==
  /\ ~r.done /\ rows[r.id] # Gone
  /\ rows' = [rows EXCEPT ![r.id] = Gone]
  /\ removals' = (removals \ {r}) \cup {[r EXCEPT !.done = TRUE]}
  /\ UNCHANGED <<contents, pageVars, draft, saves, selectorVars, listed, target, confirming, entered>>

\* The answer closes whichever dialog the list has open.
DeleteAnswered(r) ==
  /\ r.done /\ removals' = removals \ {r}
  /\ IF r.live THEN target' = Gone /\ confirming' = FALSE /\ entered' = Gone
     ELSE UNCHANGED <<target, confirming, entered>>
  /\ UNCHANGED <<serverVars, pageVars, draft, saves, selectorVars, listed>>

DeleteRefused(r) ==
  /\ removals' = removals \ {r}
  /\ UNCHANGED <<serverVars, pageVars, draft, saves, selectorVars, listed, target, confirming, entered>>

\* Somebody else deletes a row.
OthersDelete(i) ==
  /\ place = "list" /\ rows[i] # Gone
  /\ rows' = [rows EXCEPT ![i] = Gone]
  /\ UNCHANGED <<contents, pageVars, draft, saves, selectorVars, listVars>>
-----------------------------------------------------------------------------
ValuesPage ==
  \/ \E i \in Ids : OpenSecret(i) \/ SecretRead(i) \/ SecretArrives(i) \/ SecretMissing(i)
  \/ FocusValues \/ SwitchValuesTab \/ InitializeSecret \/ EditSecret \/ SubmitSecret
  \/ \E s \in saves : SaveWrites(s) \/ SaveSucceeds(s) \/ SaveFails(s)

Selector ==
  \/ OpenSelector \/ OpenCreateDialog \/ CloseCreateDialog \/ ChangeNewSecret
  \/ \E i \in Ids : SelectSecret(i)
  \/ \E n \in SecretNames : EnterName(n)
  \/ HandleCreateSecret
  \/ \E a \in addings : SelectorRow(a) \/ SelectorValues(a) \/ SelectorCreated(a) \/ SelectorFails(a)

List ==
  \/ OpenList \/ ListArrives \/ CloseDelete \/ EnterSecretName \/ HandleDelete
  \/ \E i \in Ids : AskDelete(i) \/ OthersDelete(i)
  \/ \E r \in removals : DeleteWrites(r) \/ DeleteAnswered(r) \/ DeleteRefused(r)

SecretsNext == ValuesPage \/ Selector \/ List \/ Leave \/ LeaveSelector

SecretsSpec == SecretsInit /\ [][SecretsNext]_secretsVars
-----------------------------------------------------------------------------
(* Properties.                                                               *)

\* The types; a page that waits for a save waits for one of its own secret.
SecretsTypeOK ==
  /\ contents \in [Ids -> Values \cup {Gone}]
  /\ rows \in [Ids -> {Gone, "bare", "key"}]
  /\ dialog \in [open : BOOLEAN, name : SecretNames \cup {""}]
  /\ known \in [Ids -> Values \cup {Gone}] /\ draft \in Values \cup {Gone} /\ told \in Values
  /\ read \in [Ids -> [stage : {"none", "asked", "read"}, value : Values \cup {Gone}]]
  /\ place = "values" => opened \in Ids
  /\ listed \subseteq Ids
  /\ saves \subseteq Saves /\ addings \subseteq Addings /\ removals \subseteq Removals
  /\ \A s \in saves : s.live => place = "values" /\ s.id = opened

\* The values of every secret: filled once, and replaced only at the request of
\* someone who had them on the screen, whatever failed, was lost, was deleted
\* and made again, or was left behind under way.
OnScreen == {i \in Ids : OnPage(i) /\ known[i] # Gone}
IsUpdate(s, i) == s.id = i /\ s.kind = "update" /\ ~s.done
Updating == {i \in Ids : \E s \in saves : IsUpdate(s, i)}
Store    == INSTANCE SecretStore WITH stored <- contents, seen <- OnScreen, asked <- Updating
ValuesKept == Store!StoreSpec

\* A sink that refers to a secret it made refers to one whose values are there,
\* if the name is the id.
CreatedRefResolves ==
  [][ref' # ref /\ ref' \in Ids /\ addings' # addings => contents'[ref'] # Gone]_secretsVars
=============================================================================
