------------------------------ MODULE ListsProofs ------------------------------
(* Proofs about the pages that keep a list of what the server has: Secrets,   *)
(* Grants and Portal, for any secrets, names and map of names to ids, any     *)
(* scopes and members, and any projects.                                      *)
EXTENDS Secrets, Grants, Portal, TLAPS
-----------------------------------------------------------------------------
(* Secrets: its types, that it implements SecretStore, and where a sink's     *)
(* reference leads.                                                           *)

\* A form to edit has a draft, and what was read of a secret is there.
Backed ==
  /\ EditsValues => draft \in Values
  /\ \A i \in Ids : known[i] # Gone \/ read[i].value # Gone => contents[i] # Gone

SecretsInv == SecretsTypeOK /\ Backed

Reads == [stage : {"none", "asked", "read"}, value : Values \cup {Gone}]

USE DEF serverVars, pageVars, selectorVars, listVars

\* After a render the form to edit has a draft.
LEMMA RenderFits ==
  ASSUME SecretsInv, known' \in [Ids -> Values \cup {Gone}], place' = place, opened' = opened, PageRenders
  PROVE  draft' \in Values \cup {Gone} /\ (EditsValues' => draft' \in Values)
<1>1. draft \in Values \cup {Gone} /\ "none" \in Values /\ (place' = "values" => opened' \in Ids)
  BY DEF SecretsInv, SecretsTypeOK, Values
<1>2. EditsValues' => known'[opened'] \in Values
  BY <1>1 DEF EditsValues
<1>3. ~(EditsValues' /\ IsMissing')
  BY DEF EditsValues, IsMissing
<1> QED BY <1>1, <1>2, <1>3 DEF PageRenders

\* The form as it was, on a page that did not begin to edit.
LEMMA NoRender ==
  ASSUME SecretsInv, UNCHANGED draft, EditsValues' => EditsValues
  PROVE  draft' \in Values \cup {Gone} /\ (EditsValues' => draft' \in Values)
BY DEF SecretsInv, SecretsTypeOK, Backed

LEMMA SecretsInitInv == SecretsInit => SecretsInv
<1> SUFFICES ASSUME SecretsInit PROVE SecretsInv
  OBVIOUS
<1>1. SecretsTypeOK
  BY DEF SecretsInit, SecretsTypeOK, NoDialog, NoRead, Values
<1>2. Backed
  BY DEF SecretsInit, Backed, EditsValues, NoRead
<1> QED BY <1>1, <1>2 DEF SecretsInv

\* A page that goes: its requests stay what they are.
LEMMA PageGoneInv ==
  ASSUME SecretsInv, Leave \/ LeaveSelector
  PROVE  SecretsInv'
<1>1. saves' \subseteq Saves /\ \A s \in saves' : ~s.live
  <2>1. CASE Leave
    <3>1. saves \subseteq Saves /\ saves' = {[s EXCEPT !.live = FALSE] : s \in saves}
      BY <2>1 DEF Leave, SecretsInv, SecretsTypeOK
    <3>2. \A s \in Saves : [s EXCEPT !.live = FALSE] \in Saves /\ ~[s EXCEPT !.live = FALSE].live
      BY DEF Saves
    <3> QED BY <3>1, <3>2
  <2>2. CASE LeaveSelector
    BY <2>2 DEF LeaveSelector, SecretsInv, SecretsTypeOK
  <2> QED BY <2>1, <2>2
<1>2. addings' \subseteq Addings /\ removals' \subseteq Removals
  <2>1. addings \subseteq Addings /\ removals \subseteq Removals
    BY DEF SecretsInv, SecretsTypeOK
  <2>2. addings' \subseteq Addings
    BY <2>1 DEF Leave, LeaveSelector, Addings
  <2>3. removals' \subseteq Removals
    <3>1. \A r \in Removals : [r EXCEPT !.live = FALSE] \in Removals
      BY DEF Removals
    <3>2. removals' = {[r EXCEPT !.live = FALSE] : r \in removals}
      BY DEF Leave, LeaveSelector, PageGone
    <3> QED BY <2>1, <3>1, <3>2
  <2> QED BY <2>2, <2>3
<1>3. /\ known' \in [Ids -> Values \cup {Gone}] /\ UNCHANGED <<contents, rows, read>>
      /\ \A i \in Ids : known'[i] # Gone => known[i] # Gone
      /\ place' # "values" /\ listed' = {} /\ draft' = Gone /\ told' = "none" /\ dialog' = NoDialog
  BY DEF Leave, LeaveSelector, PageGone, SecretsInv, SecretsTypeOK
<1>4. SecretsTypeOK'
  BY <1>1, <1>2, <1>3 DEF SecretsInv, SecretsTypeOK, NoDialog, Values
<1>5. Backed'
  BY <1>3 DEF SecretsInv, Backed, EditsValues
<1> QED BY <1>4, <1>5 DEF SecretsInv

\* A new save is one of the page's own secret.
LEMMA SaveFits ==
  ASSUME SecretsInv, NEW v \in Values, HandleSave(v), place = "values"
  PROVE  saves' \subseteq Saves /\ \A s \in saves' : s.live => s.id = opened
<1>1. saves \subseteq Saves /\ opened \in Ids /\ \A s \in saves : s.live => s.id = opened
  BY DEF SecretsInv, SecretsTypeOK
<1> DEFINE n == [id |-> opened, kind |-> IF known[opened] = Gone THEN "create" ELSE "update",
                 value |-> v, done |-> FALSE, live |-> TRUE]
<1>2. n \in Saves /\ n.id = opened
  BY <1>1 DEF Saves
<1>3. saves' = saves \cup {n}
  BY DEF HandleSave
<1> HIDE DEF n
<1> QED BY <1>1, <1>2, <1>3

\* The readings of a secret's values, on its page and without one.
LEMMA ReadingInv ==
  ASSUME SecretsInv, NEW i \in Ids,
         OpenSecret(i) \/ SecretRead(i) \/ SecretArrives(i) \/ SecretMissing(i)
  PROVE  SecretsInv'
<1>1. /\ contents \in [Ids -> Values \cup {Gone}] /\ known \in [Ids -> Values \cup {Gone}]
      /\ read \in [Ids -> Reads] /\ draft \in Values \cup {Gone}
      /\ place = "values" => opened \in Ids
      /\ \A s \in saves : s.live => place = "values" /\ s.id = opened
      /\ \A j \in Ids : known[j] # Gone \/ read[j].value # Gone => contents[j] # Gone
  BY DEF SecretsInv, SecretsTypeOK, Backed, Reads
<1>2. NoRead \in Reads /\ Asked \in Reads /\ NoRead.value = Gone /\ Asked.value = Gone
  BY DEF NoRead, Asked, Reads
<1>3. UNCHANGED <<serverVars, saves, selectorVars, listVars>>
  BY DEF OpenSecret, SecretRead, SecretArrives, SecretMissing
<1>4. /\ place' = "values" => opened' \in Ids
      /\ \A s \in saves : s.live => place' = "values" /\ s.id = opened'
  BY <1>1 DEF OpenSecret, SecretRead, SecretArrives, SecretMissing
<1>5. known' \in [Ids -> Values \cup {Gone}] /\ read' \in [Ids -> Reads]
  <2>1. CASE OpenSecret(i)
    BY <1>1, <1>2, <2>1 DEF OpenSecret
  <2>2. CASE SecretRead(i)
    <3>1. [stage |-> "read", value |-> contents[i]] \in Reads
      BY <1>1 DEF Reads
    <3> QED BY <1>1, <2>2, <3>1 DEF SecretRead
  <2>3. CASE SecretArrives(i)
    <3>1. read[i].value \in Values \cup {Gone}
      BY <1>1 DEF Reads
    <3> QED BY <1>1, <1>2, <2>3, <3>1 DEF SecretArrives
  <2>4. CASE SecretMissing(i)
    BY <1>1, <1>2, <2>4 DEF SecretMissing
  <2> QED BY <2>1, <2>2, <2>3, <2>4
<1>6. \A j \in Ids : known'[j] # Gone \/ read'[j].value # Gone => contents[j] # Gone
  <2>1. CASE OpenSecret(i)
    BY <1>1, <1>2, <2>1 DEF OpenSecret
  <2>2. CASE SecretRead(i)
    BY <1>1, <2>2 DEF SecretRead
  <2>3. CASE SecretArrives(i)
    BY <1>1, <1>2, <2>3 DEF SecretArrives
  <2>4. CASE SecretMissing(i)
    BY <1>1, <1>2, <2>4 DEF SecretMissing
  <2> QED BY <2>1, <2>2, <2>3, <2>4
<1>7. draft' \in Values \cup {Gone} /\ (EditsValues' => draft' \in Values)
  <2>1. CASE OpenSecret(i)
    BY <2>1 DEF OpenSecret, EditsValues
  <2>2. CASE SecretRead(i)
    BY <2>2, NoRender DEF SecretRead, EditsValues
  <2>3. CASE PageRenders /\ (SecretArrives(i) \/ SecretMissing(i))
    BY <1>5, <2>3, RenderFits DEF SecretArrives, SecretMissing
  <2>4. CASE ~PageRenders /\ (SecretArrives(i) \/ SecretMissing(i))
    <3>1. place' = "values" => known'[opened'] = known[opened] \/ known'[opened'] = Gone
      <4>1. opened' = opened /\ place' = place
        BY <2>4 DEF SecretArrives, SecretMissing
      <4>2. known' = known \/ (~OnPage(i) /\ known' = [known EXCEPT ![i] = Gone])
        BY <2>4 DEF SecretArrives, SecretMissing
      <4> QED BY <1>1, <4>1, <4>2
    <3>2. UNCHANGED draft
      BY <2>4 DEF SecretArrives, SecretMissing
    <3> QED BY <3>2, <2>4, <3>1, NoRender DEF SecretArrives, SecretMissing, EditsValues
  <2> QED BY <2>1, <2>2, <2>3, <2>4 DEF SecretArrives, SecretMissing
<1>8. SecretsTypeOK'
  BY <1>3, <1>4, <1>5, <1>7 DEF SecretsInv, SecretsTypeOK, Reads
<1>9. Backed'
  BY <1>3, <1>6, <1>7 DEF Backed
<1> QED BY <1>8, <1>9 DEF SecretsInv

\* What the user does on the page of a secret.
LEMMA FormInv ==
  ASSUME SecretsInv,
         FocusValues \/ SwitchValuesTab \/ InitializeSecret \/ EditSecret \/ SubmitSecret
  PROVE  SecretsInv'
<1>1. /\ known \in [Ids -> Values \cup {Gone}] /\ read \in [Ids -> Reads]
      /\ saves \subseteq Saves /\ \A s \in saves : s.live => s.id = opened
  BY DEF SecretsInv, SecretsTypeOK, Reads
<1>2. /\ UNCHANGED <<serverVars, place, opened, known, selectorVars, listVars>>
      /\ place = "values" /\ opened \in Ids
  BY DEF FocusValues, SwitchValuesTab, InitializeSecret, EditSecret, SubmitSecret,
         IsMissing, EditsValues, SecretsInv, SecretsTypeOK
<1>3. read' \in [Ids -> Reads] /\ \A i \in Ids : read'[i].value # Gone => read[i].value # Gone
  <2>1. Asked \in Reads /\ Asked.value = Gone
    BY DEF Asked, Reads
  <2>2. CASE FocusValues
    BY <1>1, <2>1, <2>2 DEF FocusValues
  <2>3. CASE UNCHANGED read
    BY <1>1, <2>3
  <2> QED BY <2>2, <2>3 DEF SwitchValuesTab, InitializeSecret, EditSecret, SubmitSecret
<1>4. saves' \subseteq Saves /\ \A s \in saves' : s.live => s.id = opened
  <2>1. CASE InitializeSecret
    BY <1>2, <2>1, SaveFits DEF InitializeSecret
  <2>2. CASE SubmitSecret
    BY <1>2, <2>2, SaveFits DEF SubmitSecret, SecretsInv, Backed
  <2>3. CASE UNCHANGED saves
    BY <1>1, <2>3
  <2> QED BY <2>1, <2>2, <2>3 DEF FocusValues, SwitchValuesTab, EditSecret
<1>5. draft' \in Values \cup {Gone} /\ (EditsValues' => draft' \in Values)
  <2>1. CASE PageRenders
    BY <1>1, <1>2, <2>1, RenderFits
  <2>2. CASE draft' \in Values
    BY <2>2
  <2>3. CASE FocusValues /\ UNCHANGED draft
    BY <2>3, NoRender DEF FocusValues, EditsValues
  <2> QED BY <2>1, <2>2, <2>3 DEF FocusValues, Starts, SwitchValuesTab, InitializeSecret, EditSecret,
             SubmitSecret
<1>6. SecretsTypeOK'
  BY <1>2, <1>3, <1>4, <1>5 DEF SecretsInv, SecretsTypeOK, Reads
<1>7. Backed'
  BY <1>2, <1>3, <1>5 DEF SecretsInv, Backed
<1> QED BY <1>6, <1>7 DEF SecretsInv

\* A save, of the page or left behind.
LEMMA SaveInv ==
  ASSUME SecretsInv, NEW s \in saves, SaveWrites(s) \/ SaveSucceeds(s) \/ SaveFails(s)
  PROVE  SecretsInv'
<1>1. /\ s \in Saves /\ s.id \in Ids /\ s.value \in Values
      /\ contents \in [Ids -> Values \cup {Gone}] /\ known \in [Ids -> Values \cup {Gone}]
      /\ read \in [Ids -> Reads] /\ saves \subseteq Saves
      /\ \A r \in saves : r.live => place = "values" /\ r.id = opened
  BY DEF SecretsInv, SecretsTypeOK, Reads, Saves
<1>2. UNCHANGED <<rows, place, opened, known, selectorVars, listVars>>
  BY DEF SaveWrites, SaveSucceeds, SaveFails
<1>3. contents' \in [Ids -> Values \cup {Gone}] /\ \A i \in Ids : contents[i] # Gone => contents'[i] # Gone
  BY <1>1, GoneIsNothing DEF SaveWrites, SaveSucceeds, SaveFails
<1>4. read' \in [Ids -> Reads] /\ \A i \in Ids : read'[i].value # Gone => read[i].value # Gone
  <2>1. Asked \in Reads /\ Asked.value = Gone
    BY DEF Asked, Reads
  <2>2. CASE SaveSucceeds(s)
    BY <1>1, <2>1, <2>2 DEF SaveSucceeds
  <2>3. CASE UNCHANGED read
    BY <1>1, <2>3
  <2> QED BY <2>2, <2>3 DEF SaveWrites, SaveFails
<1>5. saves' \subseteq Saves /\ \A r \in saves' : r.live => place = "values" /\ r.id = opened
  <2>1. CASE SaveWrites(s)
    <3>1. [s EXCEPT !.done = TRUE] \in Saves /\ [s EXCEPT !.done = TRUE].live = s.live
          /\ [s EXCEPT !.done = TRUE].id = s.id
      BY <1>1 DEF Saves
    <3> QED BY <1>1, <2>1, <3>1 DEF SaveWrites
  <2>2. CASE saves' = saves \ {s}
    BY <1>1, <2>2
  <2> QED BY <2>1, <2>2 DEF SaveSucceeds, SaveFails
<1>6. draft' \in Values \cup {Gone} /\ (EditsValues' => draft' \in Values)
  <2>1. CASE PageRenders
    BY <1>1, <1>2, <2>1, RenderFits
  <2>2. CASE UNCHANGED draft /\ tab' = tab
    BY <1>2, <2>2, NoRender DEF EditsValues
  <2> QED BY <2>1, <2>2 DEF SaveWrites, SaveSucceeds, SaveFails, Starts
<1>7. SecretsTypeOK'
  BY <1>2, <1>3, <1>4, <1>5, <1>6 DEF SecretsInv, SecretsTypeOK, Reads
<1>8. Backed'
  BY <1>2, <1>3, <1>4, <1>6 DEF SecretsInv, Backed
<1> QED BY <1>7, <1>8 DEF SecretsInv

\* SecretSelector, and an addition that outlives it.
LEMMA SelectorInv == SecretsInv /\ Selector => SecretsInv'
<1> SUFFICES ASSUME SecretsInv, Selector PROVE SecretsInv'
  OBVIOUS
<1>1. /\ contents \in [Ids -> Values \cup {Gone}] /\ rows \in [Ids -> {Gone, "bare", "key"}]
      /\ addings \subseteq Addings /\ told \in Values
      /\ dialog \in [open : BOOLEAN, name : SecretNames \cup {""}]
  BY DEF SecretsInv, SecretsTypeOK
<1>2. /\ UNCHANGED <<opened, known, read, tab, draft, saves, listVars>>
      /\ place' = place \/ (place # "values" /\ place' = "selector")
  BY DEF Selector, OpenSelector, OpenCreateDialog, CloseCreateDialog, ChangeNewSecret, SelectSecret,
         EnterName, HandleCreateSecret, SelectorRow, SelectorValues, SelectorCreated, SelectorFails,
         Created, InSelector
<1>3. /\ contents' \in [Ids -> Values \cup {Gone}] /\ rows' \in [Ids -> {Gone, "bare", "key"}]
      /\ addings' \subseteq Addings
      /\ \A i \in Ids : contents[i] # Gone => contents'[i] # Gone
  <2>1. CASE \E a \in addings : SelectorRow(a)
    <3>1. PICK a \in addings : SelectorRow(a)
      BY <2>1
    <3>3. a \in Addings
      BY <1>1
    <3>2. [a EXCEPT !.stage = "values"] \in Addings
      BY <3>3 DEF Addings
    <3> QED BY <1>1, <3>1, <3>2 DEF SelectorRow, Reaches
  <2>2. CASE \E a \in addings : SelectorValues(a)
    <3>1. PICK a \in addings : SelectorValues(a)
      BY <2>2
    <3>3. a \in Addings
      BY <1>1
    <3>2. a.value \in Values /\ [a EXCEPT !.stage = "done"] \in Addings
      BY <3>3 DEF Addings
    <3> QED BY <1>1, <3>1, <3>2, GoneIsNothing DEF SelectorValues, Reaches
  <2>3. CASE HandleCreateSecret
    <3>1. [name |-> dialog.name, value |-> told, stage |-> "row", page |-> "selector"] \in Addings
      BY <1>1, <2>3 DEF HandleCreateSecret, Addings
    <3> QED BY <1>1, <2>3, <3>1 DEF HandleCreateSecret, InSelector
  <2>4. CASE UNCHANGED <<contents, rows>> /\ addings' \subseteq addings
    BY <1>1, <2>4
  <2> QED BY <2>1, <2>2, <2>3, <2>4
          DEF Selector, OpenSelector, OpenCreateDialog, CloseCreateDialog, ChangeNewSecret, SelectSecret,
              EnterName, SelectorCreated, SelectorFails, Created, InSelector
<1>4. told' \in Values /\ dialog' \in [open : BOOLEAN, name : SecretNames \cup {""}]
  <2>1. NoDialog \in [open : BOOLEAN, name : SecretNames \cup {""}] /\ "none" \in Values
    BY DEF NoDialog, Values
  <2> QED BY <1>1, <2>1
          DEF Selector, OpenSelector, OpenCreateDialog, CloseCreateDialog, ChangeNewSecret, SelectSecret,
              EnterName, HandleCreateSecret, SelectorRow, SelectorValues, SelectorCreated, SelectorFails,
              Created, InSelector
<1>5. SecretsTypeOK'
  BY <1>2, <1>3, <1>4 DEF SecretsInv, SecretsTypeOK
<1>6. Backed'
  BY <1>2, <1>3 DEF SecretsInv, Backed, EditsValues
<1> QED BY <1>5, <1>6 DEF SecretsInv

\* SecretsPage changes rows and its own state only.
LEMMA SecretListInv == SecretsInv /\ List => SecretsInv'
<1> SUFFICES ASSUME SecretsInv, List PROVE SecretsInv'
  OBVIOUS
<1>1. /\ UNCHANGED <<contents, opened, known, read, tab, draft, saves, selectorVars>>
      /\ place' = place \/ (place = "away" /\ place' = "list")
      /\ rows' \in [Ids -> {Gone, "bare", "key"}] /\ listed' \subseteq Ids
  BY DEF Existing, List, OpenList, ListArrives, CloseDelete, EnterSecretName, HandleDelete, DeleteWrites,
         DeleteAnswered, DeleteRefused, AskDelete, OthersDelete, InList, SecretsInv, SecretsTypeOK
<1>2. removals' \subseteq Removals
  <2>1. removals \subseteq Removals
    BY DEF SecretsInv, SecretsTypeOK
  <2>2. CASE \E r \in removals : DeleteWrites(r)
    <3>1. PICK r \in removals : DeleteWrites(r)
      BY <2>2
    <3>2. r \in Removals
      BY <2>1
    <3>3. [r EXCEPT !.done = TRUE] \in Removals
      BY <3>2 DEF Removals
    <3> QED BY <2>1, <3>1, <3>3 DEF DeleteWrites
  <2>3. CASE HandleDelete
    <3>1. target \in Ids
      BY <2>3 DEF HandleDelete, Asks, SecretsInv, SecretsTypeOK
    <3>2. [id |-> target, done |-> FALSE, live |-> TRUE] \in Removals
      BY <3>1 DEF Removals
    <3> QED BY <2>1, <2>3, <3>2 DEF HandleDelete
  <2>4. CASE removals' \subseteq removals
    BY <2>1, <2>4
  <2> QED BY <2>2, <2>3, <2>4
          DEF List, OpenList, ListArrives, CloseDelete, EnterSecretName, DeleteAnswered, DeleteRefused,
              AskDelete, OthersDelete, InList
<1>3. SecretsTypeOK'
  BY <1>1, <1>2 DEF SecretsInv, SecretsTypeOK
<1>4. Backed'
  BY <1>1 DEF SecretsInv, Backed, EditsValues
<1> QED BY <1>3, <1>4 DEF SecretsInv
THEOREM SecretsInvariant == SecretsSpec => []SecretsInv
<1>1. SecretsInv /\ [SecretsNext]_secretsVars => SecretsInv'
  <2>1. ASSUME SecretsInv, UNCHANGED secretsVars PROVE SecretsInv'
    BY <2>1 DEF secretsVars, SecretsInv, SecretsTypeOK, Backed, EditsValues
  <2>2. ASSUME SecretsInv, ValuesPage PROVE SecretsInv'
    BY <2>2, ReadingInv, FormInv, SaveInv DEF ValuesPage
  <2> QED BY <2>1, <2>2, PageGoneInv, SelectorInv, SecretListInv DEF SecretsNext
<1> QED BY <1>1, SecretsInitInv, PTL DEF SecretsSpec

\* Types, and a page that waits for a save waits for one of its own secret: one
\* that was left behind keeps no page from saving (SecretResourceDetails.tsx).
THEOREM SecretsTyped == SecretsSpec => []SecretsTypeOK
<1>1. SecretsInv => SecretsTypeOK
  BY DEF SecretsInv
<1> QED BY <1>1, SecretsInvariant, PTL
-----------------------------------------------------------------------------
\* A step that writes no values and sends, ends or loses no update.
LEMMA SameUpdates ==
  ASSUME SecretsInv, saves' = saves \/ Leave \/ LeaveSelector
  PROVE  Updating' = Updating
<1>1. CASE saves' = saves
  BY <1>1 DEF Updating, IsUpdate
<1>2. CASE Leave
  <2>1. saves' = {[s EXCEPT !.live = FALSE] : s \in saves} /\ saves \subseteq Saves
    BY <1>2 DEF Leave, SecretsInv, SecretsTypeOK
  <2>2. ASSUME NEW s \in Saves, NEW i \in Ids
        PROVE  IsUpdate([s EXCEPT !.live = FALSE], i) <=> IsUpdate(s, i)
    BY DEF Saves, IsUpdate
  <2>3. ASSUME NEW i \in Ids
        PROVE  (\E t \in saves' : IsUpdate(t, i)) <=> (\E s \in saves : IsUpdate(s, i))
    <3>1. ASSUME NEW s \in saves, IsUpdate(s, i) PROVE \E t \in saves' : IsUpdate(t, i)
      <4>1. [s EXCEPT !.live = FALSE] \in saves' /\ s \in Saves
        BY <2>1
      <4> QED BY <2>2, <3>1, <4>1
    <3>2. ASSUME NEW t \in saves', IsUpdate(t, i) PROVE \E s \in saves : IsUpdate(s, i)
      <4>1. PICK s \in saves : t = [s EXCEPT !.live = FALSE] /\ s \in Saves
        BY <2>1
      <4> QED BY <2>2, <3>2, <4>1
    <3> QED BY <3>1, <3>2
  <2> QED BY <2>3 DEF Updating
<1>3. CASE LeaveSelector
  BY <1>3 DEF LeaveSelector, Updating
<1> QED BY <1>1, <1>2, <1>3

\* Readings and departures, where what comes to the screen is what was read.
LEMMA LookStores ==
  ASSUME SecretsInv, SecretsInv', UNCHANGED contents, saves' = saves \/ Leave \/ LeaveSelector
  PROVE  Store!Look
<1>1. Updating' = Updating
  BY SameUpdates
<1>2. OnScreen' \subseteq {i \in Ids : contents[i] # Gone}
  BY DEF OnScreen, SecretsInv, Backed
<1> QED BY <1>1, <1>2 DEF Store!Look

\* A save is begun: an update is asked for by who sees the values.
LEMMA AskStores ==
  ASSUME SecretsInv, NEW v, HandleSave(v), place = "values",
         UNCHANGED <<contents, place, opened, known>>
  PROVE  Store!Look \/ \E i \in Ids : Store!Ask(i)
<1> DEFINE n == [id |-> opened, kind |-> IF known[opened] = Gone THEN "create" ELSE "update",
                 value |-> v, done |-> FALSE, live |-> TRUE]
<1>1. opened \in Ids /\ saves' = saves \cup {n} /\ n.id = opened /\ ~n.done
      /\ n.kind = IF known[opened] = Gone THEN "create" ELSE "update"
  BY DEF HandleSave, SecretsInv, SecretsTypeOK
<1> HIDE DEF n
<1>2. OnScreen' = OnScreen
  BY DEF OnScreen, OnPage
<1>3. CASE known[opened] = Gone
  <2>1. Updating' = Updating
    BY <1>1, <1>3 DEF Updating, IsUpdate
  <2>2. OnScreen \subseteq {i \in Ids : contents[i] # Gone}
    BY DEF OnScreen, SecretsInv, Backed
  <2> QED BY <1>2, <2>1, <2>2 DEF Store!Look
<1>4. CASE known[opened] # Gone
  <2>1. Updating' = Updating \cup {opened}
    BY <1>1, <1>4 DEF Updating, IsUpdate
  <2>2. opened \in OnScreen
    BY <1>1, <1>4 DEF OnScreen, OnPage
  <2> QED BY <1>1, <1>2, <2>1, <2>2 DEF Store!Ask
<1> QED BY <1>3, <1>4

\* A save is written, or it ends, wherever its page is.
LEMMA SaveStores ==
  ASSUME SecretsInv, NEW s \in saves, SaveWrites(s) \/ SaveSucceeds(s) \/ SaveFails(s)
  PROVE  UNCHANGED Store!storeVars \/ \E i \in Ids : Store!Write(i) \/ Store!Fail(i)
<1>1. s \in Saves /\ s.id \in Ids /\ s.value \in Values /\ s.kind \in {"create", "update"}
  BY DEF SecretsInv, SecretsTypeOK, Saves
<1>2. OnScreen' = OnScreen
  BY DEF OnScreen, OnPage, SaveWrites, SaveSucceeds, SaveFails
<1>3. CASE SaveWrites(s)
  <2> DEFINE t == [s EXCEPT !.done = TRUE]
  <2>1. t.id = s.id /\ t.done /\ saves' = (saves \ {s}) \cup {t}
    BY <1>1, <1>3 DEF SaveWrites, Saves
  <2> HIDE DEF t
  <2>2. Updating' \in {Updating, Updating \ {s.id}}
    BY <1>1, <2>1 DEF Updating, IsUpdate
  <2>3. contents[s.id] = Gone \/ s.id \in Updating
    BY <1>1, <1>3 DEF SaveWrites, CanWrite, Updating, IsUpdate
  <2>4. contents'[s.id] # Gone /\ contents' = [contents EXCEPT ![s.id] = contents'[s.id]]
    BY <1>1, <1>3, GoneIsNothing DEF SaveWrites, SecretsInv, SecretsTypeOK
  <2> QED BY <1>1, <1>2, <2>2, <2>3, <2>4 DEF Store!Write
<1>4. CASE SaveSucceeds(s) \/ SaveFails(s)
  <2>1. UNCHANGED contents /\ saves' = saves \ {s}
    BY <1>4 DEF SaveSucceeds, SaveFails
  <2>2. Updating' \in {Updating, Updating \ {s.id}}
    BY <1>1, <2>1 DEF Updating, IsUpdate
  <2> QED BY <1>1, <1>2, <2>1, <2>2 DEF Store!Fail, Store!storeVars
<1> QED BY <1>3, <1>4

LEMMA StepStores ==
  ASSUME SecretsInv, SecretsInv', [SecretsNext]_secretsVars
  PROVE  [Store!Look \/ \E i \in Ids : Store!Ask(i) \/ Store!Write(i) \/ Store!Fail(i)]_Store!storeVars
<1>1. CASE UNCHANGED contents /\ (saves' = saves \/ Leave \/ LeaveSelector)
  BY <1>1, LookStores
<1>2. CASE InitializeSecret \/ SubmitSecret
  BY <1>2, AskStores DEF InitializeSecret, SubmitSecret, IsMissing, EditsValues
<1>3. CASE \E s \in saves : SaveWrites(s) \/ SaveSucceeds(s) \/ SaveFails(s)
  BY <1>3, SaveStores
<1>4. CASE \E a \in addings : SelectorValues(a)
  <2>1. PICK a \in addings : SelectorValues(a)
    BY <1>4
  <2> DEFINE i == IdOf[a.name]
  <2>2. a.name \in SecretNames /\ a.value \in Values
    BY DEF SecretsInv, SecretsTypeOK, Addings
  <2>3. i \in Ids /\ contents[i] = Gone /\ contents' = [contents EXCEPT ![i] = a.value]
    BY <2>1, <2>2, SecretsBounds DEF SelectorValues, CanWrite
  <2>4. Updating' = Updating /\ OnScreen' = OnScreen
    BY <2>1 DEF SelectorValues, Updating, OnScreen, OnPage
  <2> HIDE DEF i
  <2>5. contents'[i] # Gone /\ contents' = [contents EXCEPT ![i] = contents'[i]]
    BY <2>2, <2>3, GoneIsNothing DEF SecretsInv, SecretsTypeOK
  <2> QED BY <2>3, <2>4, <2>5 DEF Store!Write
<1> QED
  <2>1. CASE UNCHANGED secretsVars
    BY <1>1, <2>1 DEF secretsVars
  <2>2. CASE ValuesPage
    BY <1>1, <1>2, <1>3, <2>2
       DEF ValuesPage, OpenSecret, SecretRead, SecretArrives, SecretMissing, FocusValues, SwitchValuesTab,
           EditSecret
  <2>3. CASE Selector
    BY <1>1, <1>4, <2>3
       DEF Selector, OpenSelector, OpenCreateDialog, CloseCreateDialog, ChangeNewSecret, SelectSecret,
           EnterName, HandleCreateSecret, SelectorRow, SelectorCreated, SelectorFails, Created, InSelector
  <2>4. CASE List
    BY <1>1, <2>4
       DEF List, OpenList, ListArrives, CloseDelete, EnterSecretName, HandleDelete, DeleteWrites,
           DeleteAnswered, DeleteRefused, AskDelete, OthersDelete, InList
  <2>5. CASE Leave \/ LeaveSelector
    BY <1>1, <2>5 DEF Leave, LeaveSelector, PageGone
  <2> QED BY <2>1, <2>2, <2>3, <2>4, <2>5 DEF SecretsNext

\* Secrets implements SecretStore: whatever fails, is lost, is left behind under
\* way or is made again under the same name, values are filled in once, and
\* replaced only at the request of someone who saw them (SecretResourceDetails.tsx,
\* SecretSelector.tsx).
THEOREM SecretsImplementStore == SecretsSpec => ValuesKept
<1>1. SecretsInit => Store!StoreInit
  BY DEF SecretsInit, Store!StoreInit, OnScreen, OnPage, Updating
<1> QED BY <1>1, StepStores, SecretsInvariant, PTL DEF SecretsSpec, ValuesKept, Store!StoreSpec

\* The values of a creation that is done are in the cluster, and stay.
AddedStored == \A a \in addings : a.stage = "done" => contents[IdOf[a.name]] # Gone

LEMMA StepKeepsAdded ==
  ASSUME SecretsInv, AddedStored, [SecretsNext]_secretsVars
  PROVE  AddedStored'
<1>1. /\ addings \subseteq Addings /\ contents \in [Ids -> Values \cup {Gone}]
      /\ \A a \in Addings : IdOf[a.name] \in Ids
  BY SecretsBounds DEF SecretsInv, SecretsTypeOK, Addings
<1>2. \A i \in Ids : contents[i] # Gone => contents'[i] # Gone
  <2>1. CASE \E s \in saves : SaveWrites(s)
    <3>1. PICK s \in saves : SaveWrites(s)
      BY <2>1
    <3>2. s.id \in Ids /\ s.value \in Values
      BY DEF SecretsInv, SecretsTypeOK, Saves
    <3> QED BY <1>1, <3>1, <3>2, GoneIsNothing DEF SaveWrites
  <2>2. CASE \E a \in addings : SelectorValues(a)
    <3>1. PICK a \in addings : SelectorValues(a)
      BY <2>2
    <3>2. a.value \in Values
      BY DEF SecretsInv, SecretsTypeOK, Addings
    <3> QED BY <1>1, <3>1, <3>2, GoneIsNothing DEF SelectorValues
  <2>3. CASE UNCHANGED contents
    BY <2>3
  <2> QED BY <2>1, <2>2, <2>3
          DEF SecretsNext, secretsVars, Leave, LeaveSelector, PageGone, ValuesPage, OpenSecret, SecretRead,
              SecretArrives, SecretMissing, FocusValues, SwitchValuesTab, InitializeSecret, EditSecret,
              SubmitSecret, SaveSucceeds, SaveFails, Selector, OpenSelector, OpenCreateDialog,
              CloseCreateDialog, ChangeNewSecret, SelectSecret, EnterName, HandleCreateSecret, SelectorRow,
              SelectorCreated, SelectorFails, Created, InSelector, List, OpenList, ListArrives, CloseDelete,
              EnterSecretName, HandleDelete, DeleteWrites, DeleteAnswered, DeleteRefused, AskDelete,
              OthersDelete, InList
<1>3. \A b \in addings' : b.stage = "done" =>
        \/ \E a \in addings : a.name = b.name /\ a.stage = "done"
        \/ IdOf[b.name] \in Ids /\ contents'[IdOf[b.name]] # Gone
  <2>1. CASE \E a \in addings : SelectorRow(a)
    <3>1. PICK a \in addings : SelectorRow(a)
      BY <2>1
    <3>2. a \in Addings
      BY <1>1
    <3>3. [a EXCEPT !.stage = "values"].stage = "values"
      BY <3>2 DEF Addings
    <3> QED BY <3>1, <3>3 DEF SelectorRow, Reaches
  <2>2. CASE \E a \in addings : SelectorValues(a)
    <3>1. PICK a \in addings : SelectorValues(a)
      BY <2>2
    <3>2. a \in Addings
      BY <1>1
    <3>3. [a EXCEPT !.stage = "done"].name = a.name /\ a.value \in Values
      BY <3>2 DEF Addings
    <3>4. IdOf[a.name] \in Ids /\ contents'[IdOf[a.name]] # Gone
      BY <1>1, <3>1, <3>2, <3>3, GoneIsNothing DEF SelectorValues
    <3> QED BY <3>1, <3>3, <3>4 DEF SelectorValues, Reaches
  <2>3. CASE HandleCreateSecret
    <3> DEFINE n == [name |-> dialog.name, value |-> told, stage |-> "row", page |-> "selector"]
    <3>1. addings' = addings \cup {n} /\ n.stage = "row"
      BY <2>3 DEF HandleCreateSecret
    <3> HIDE DEF n
    <3> QED BY <3>1
  <2>4. CASE Leave
    <3>1. \A a \in Addings : /\ [a EXCEPT !.page = "left"].name = a.name
                            /\ [a EXCEPT !.page = "left"].stage = a.stage
      BY DEF Addings
    <3>2. addings' = {[a EXCEPT !.page = "left"] : a \in addings}
      BY <2>4 DEF Leave
    <3>3. ASSUME NEW b \in addings'
          PROVE  \E a \in addings : a.name = b.name /\ a.stage = b.stage
      <4>1. PICK a \in addings : b = [a EXCEPT !.page = "left"]
        BY <3>2
      <4> QED BY <1>1, <3>1, <4>1
    <3> QED BY <3>3
  <2>5. CASE LeaveSelector
    <3>1. \A a \in Addings, x \in {"left", "form"} : /\ [a EXCEPT !.page = x].name = a.name
                                                  /\ [a EXCEPT !.page = x].stage = a.stage
      BY DEF Addings
    <3>2. \A b \in addings' : \E a \in addings, x \in {"left", "form"} : b = [a EXCEPT !.page = x]
      BY <2>5 DEF LeaveSelector
    <3>3. ASSUME NEW b \in addings'
          PROVE  \E a \in addings : a.name = b.name /\ a.stage = b.stage
      <4>1. PICK a \in addings, x \in {"left", "form"} : b = [a EXCEPT !.page = x]
        BY <3>2
      <4> QED BY <1>1, <3>1, <4>1
    <3> QED BY <3>3
  <2>6. CASE addings' \subseteq addings
    BY <2>6
  <2> QED BY <2>1, <2>2, <2>3, <2>4, <2>5, <2>6
          DEF SecretsNext, secretsVars, ValuesPage, OpenSecret, SecretRead,
              SecretArrives, SecretMissing, FocusValues, SwitchValuesTab, InitializeSecret, EditSecret,
              SubmitSecret, SaveWrites, SaveSucceeds, SaveFails, Selector, OpenSelector, OpenCreateDialog,
              CloseCreateDialog, ChangeNewSecret, SelectSecret, EnterName,
              SelectorCreated, SelectorFails, Created, InSelector, List, OpenList, ListArrives, CloseDelete,
              EnterSecretName, HandleDelete, DeleteWrites, DeleteAnswered, DeleteRefused, AskDelete,
              OthersDelete, InList
<1> QED BY <1>1, <1>2, <1>3 DEF AddedStored

\* A sink that refers to a secret it has just made finds its values: the reference
\* is set by SelectorCreated alone, once both requests are answered, whatever
\* else was saved or deleted between them (SecretSelector.tsx).
THEOREM CreatedRefsResolve == SecretsSpec => CreatedRefResolves
<1>1. SecretsInit => AddedStored
  BY DEF SecretsInit, AddedStored
<1>2. ASSUME SecretsInv, AddedStored, [SecretsNext]_secretsVars,
             ref' # ref, ref' \in Ids, addings' # addings
      PROVE  contents'[ref'] # Gone
  <2>1. CASE \E a \in addings : SelectorCreated(a)
    <3>1. PICK a \in addings : SelectorCreated(a)
      BY <2>1
    <3>2. a.stage = "done" /\ ref' = a.name /\ UNCHANGED contents
      BY <1>2, <3>1 DEF SelectorCreated, Created
    <3>3. IdOf[a.name] = ref'
      BY <1>2, <3>2, SecretsBounds
    <3> QED BY <1>2, <3>2, <3>3 DEF AddedStored
  <2>2. CASE Leave
    BY <1>2, <2>2, GoneIsNoId DEF Leave
  <2>3. CASE UNCHANGED ref \/ UNCHANGED addings
    BY <1>2, <2>3
  <2>4. CASE ValuesPage \/ List
    BY <2>3, <2>4
       DEF ValuesPage, OpenSecret, SecretRead, SecretArrives, SecretMissing, FocusValues, SwitchValuesTab,
           InitializeSecret, EditSecret, SubmitSecret, SaveWrites, SaveSucceeds, SaveFails,
           List, OpenList, ListArrives, CloseDelete, EnterSecretName, HandleDelete, DeleteWrites,
           DeleteAnswered, DeleteRefused, AskDelete, OthersDelete, InList
  <2>5. CASE Selector
    BY <2>1, <2>3, <2>5
       DEF Selector, OpenSelector, OpenCreateDialog, CloseCreateDialog, ChangeNewSecret, SelectSecret,
           EnterName, HandleCreateSecret, SelectorRow, SelectorValues, SelectorFails, InSelector
  <2>6. CASE LeaveSelector
    BY <2>3, <2>6 DEF LeaveSelector
  <2>7. CASE UNCHANGED secretsVars
    BY <2>3, <2>7 DEF secretsVars
  <2> QED BY <1>2, <2>1, <2>2, <2>4, <2>5, <2>6, <2>7 DEF SecretsNext
<1>3. SecretsInv /\ AddedStored /\ [SecretsNext]_secretsVars
      => AddedStored' /\ [ref' # ref /\ ref' \in Ids /\ addings' # addings
                             => contents'[ref'] # Gone]_secretsVars
  BY <1>2, StepKeepsAdded
<1> QED BY <1>1, <1>3, SecretsInvariant, PTL DEF SecretsSpec, CreatedRefResolves
-----------------------------------------------------------------------------
(* Grants.                                                                    *)
\* The page that grants has filled the store with its own scope.
StoreFilled == desk = "grant" => context = scope

\* A removal that the server has applied to the scope on the screen and whose
\* answer is still to come: it will fetch the list again.
Coming == removal # Nobody /\ removal.done /\ removal.scope = scope

\* ListsOwnChanges with what makes it inductive: what a request has read is
\* followed as well, and a removal elsewhere excuses nothing.
ListKept ==
  desk = "list" /\ ~behind /\ ~Coming =>
    /\ fetch[scope].stage = "none" => cached[scope] = assigned[scope]
    /\ fetch[scope].stage = "read" /\ ~fetch[scope].overtaken => fetch[scope].value = assigned[scope]

\* A first request that no change overtook has read what the server has, whoever
\* looks: whoever joins it can rely on it.
FirstReads ==
  \A s \in Scopes : cached[s] = Nobody /\ fetch[s].stage = "read" /\ ~fetch[s].overtaken
                     => fetch[s].value = assigned[s]

GrantsInv == GrantsTypeOK /\ StoreFilled /\ AnswerFindsNoDialog /\ ListKept /\ FirstReads

\* A step that leaves these alone keeps what a list and its requests are about.
SameLists == UNCHANGED <<assigned, cached, fetch, desk, scope, behind, removal>>

USE DEF grantPageVars, accessListVars, AllChanges

LEMMA OrphanFits ==
  ASSUME NEW c \in AllChanges \cup {Nobody}
  PROVE  Orphan(c) \in AllChanges \cup {Nobody} /\ ~IsPending(Orphan(c))
BY DEF Orphan, IsPending

LEMMA GrantsInitInv == GrantsInit => GrantsInv
BY DEF GrantsInit, GrantsInv, GrantsTypeOK, StoreFilled, AnswerFindsNoDialog, ListKept, FirstReads,
       NoFetch, IsPending

LEMMA SameListsInv ==
  ASSUME GrantsInv, SameLists
  PROVE  ListKept' /\ FirstReads'
BY DEF SameLists, GrantsInv, ListKept, FirstReads, Coming

\* Asking for a list again begins a request or joins a first one that has read
\* the server's, if nothing overtook it.
LEMMA ListAgainInv ==
  ASSUME GrantsInv, NEW s \in Scopes, ListAgain(s), UNCHANGED <<assigned, cached>>
  PROVE  /\ fetch' \in [Scopes -> [stage : {"none", "asked", "read"}, value : SUBSET Members,
                                    overtaken : BOOLEAN]]
         /\ FirstReads' /\ fetch'[s].stage # "none"
         /\ fetch'[s].stage = "read" /\ ~fetch'[s].overtaken => fetch'[s].value = assigned[s]
<1> DEFINE T == [stage : {"none", "asked", "read"}, value : SUBSET Members, overtaken : BOOLEAN]
<1>1. fetch \in [Scopes -> T] /\ FirstReads
  BY DEF GrantsInv, GrantsTypeOK
<1>2. CASE cached[s] = Nobody /\ fetch[s].stage # "none"
  <2>1. fetch' = fetch
    BY <1>2 DEF ListAgain
  <2> QED BY <1>1, <1>2, <2>1 DEF FirstReads
<1>3. CASE ~(cached[s] = Nobody /\ fetch[s].stage # "none")
  <2>1. fetch' = [fetch EXCEPT ![s] = Refetched] /\ Refetched \in T /\ Refetched.stage = "asked"
    BY <1>3 DEF ListAgain, Refetched
  <2>2. fetch' \in [Scopes -> T] /\ fetch'[s] = Refetched /\ \A t \in Scopes \ {s} : fetch'[t] = fetch[t]
    BY <1>1, <2>1
  <2>3. FirstReads'
    BY <1>1, <2>1, <2>2 DEF FirstReads
  <2> QED BY <2>1, <2>2, <2>3
<1> QED BY <1>2, <1>3

\* A change of one scope marks the first request that it overtakes.
LEMMA OvertakenInv ==
  ASSUME GrantsInv, NEW s \in Scopes, OvertakesList(s), UNCHANGED cached,
         \A t \in Scopes \ {s} : assigned'[t] = assigned[t]
  PROVE  /\ fetch' \in [Scopes -> [stage : {"none", "asked", "read"}, value : SUBSET Members,
                                    overtaken : BOOLEAN]]
         /\ FirstReads' /\ \A t \in Scopes \ {s} : fetch'[t] = fetch[t]
<1> DEFINE T == [stage : {"none", "asked", "read"}, value : SUBSET Members, overtaken : BOOLEAN]
<1>1. fetch \in [Scopes -> T] /\ FirstReads
  BY DEF GrantsInv, GrantsTypeOK
<1>2. \A t \in Scopes \ {s} : fetch'[t] = fetch[t]
  BY <1>1 DEF OvertakesList
<1>3. PICK o \in BOOLEAN : /\ fetch' = [fetch EXCEPT ![s].overtaken = o]
                           /\ cached[s] = Nobody /\ fetch[s].stage = "read" => o
  <2>1. fetch[s].overtaken \in BOOLEAN
    BY <1>1
  <2> QED BY <1>1, <2>1 DEF OvertakesList
<1>4. fetch'[s] \in T /\ fetch'[s].overtaken = o /\ fetch'[s].stage = fetch[s].stage
  BY <1>1, <1>3
<1>5. fetch' \in [Scopes -> T]
  BY <1>1, <1>3, <1>4
<1>6. FirstReads'
  BY <1>1, <1>2, <1>3, <1>4 DEF FirstReads
<1> QED BY <1>2, <1>5, <1>6

\* A page that goes leaves no request that is live and no dialog.
LEMMA PageGoesInv ==
  ASSUME GrantsInv, PageGoes
  PROVE  /\ removal' \in AllChanges \cup {Nobody} /\ ~IsPending(removal)'
         /\ asked' = Nobody /\ user' = Nobody /\ AnswerFindsNoDialog'
<1>1. removal' = Orphan(removal) /\ removal \in AllChanges \cup {Nobody}
  BY DEF PageGoes, GrantsInv, GrantsTypeOK
<1>2. removal' \in AllChanges \cup {Nobody} /\ ~IsPending(removal')
  BY <1>1, OrphanFits
<1> QED BY <1>2 DEF PageGoes, AnswerFindsNoDialog, IsPending

\* The list begins with a request, and the page that grants with its scope in
\* the store.
LEMMA AccessMountInv ==
  ASSUME GrantsInv, PageGoes, NEW s \in Scopes, MountList(s) \/ MountGrant(s),
         grant' \in AllChanges \cup {Nobody}, ~IsPending(grant)'
  PROVE  GrantsInv'
<1>1. /\ removal' \in AllChanges \cup {Nobody} /\ ~IsPending(removal)'
      /\ asked' = Nobody /\ user' = Nobody /\ AnswerFindsNoDialog'
  BY PageGoesInv
<1>2. CASE MountList(s)
  <2>1. ListAgain(s) /\ UNCHANGED <<assigned, cached>> /\ desk' = "list" /\ scope' = s
    BY <1>2 DEF MountList
  <2>2. /\ fetch' \in [Scopes -> [stage : {"none", "asked", "read"}, value : SUBSET Members,
                                   overtaken : BOOLEAN]]
        /\ FirstReads' /\ fetch'[s].stage # "none"
        /\ fetch'[s].stage = "read" /\ ~fetch'[s].overtaken => fetch'[s].value = assigned[s]
    BY <2>1, ListAgainInv
  <2>3. GrantsTypeOK'
    BY <1>1, <2>1, <2>2 DEF GrantsInv, GrantsTypeOK
  <2>4. StoreFilled' /\ ListKept'
    BY <2>1, <2>2 DEF StoreFilled, ListKept
  <2> QED BY <1>1, <2>2, <2>3, <2>4 DEF GrantsInv
<1>3. CASE MountGrant(s)
  <2>1. GrantsTypeOK'
    BY <1>1, <1>3 DEF GrantsInv, GrantsTypeOK, MountGrant
  <2>2. StoreFilled' /\ ListKept' /\ FirstReads'
    BY <1>3 DEF MountGrant, StoreFilled, ListKept, FirstReads, GrantsInv
  <2> QED BY <1>1, <2>1, <2>2 DEF GrantsInv
<1> QED BY <1>2, <1>3

LEMMA PagesInv ==
  ASSUME GrantsInv,
         (\E s \in Scopes : OpenAccess(s) \/ OpenGrant(s)) \/ GrantAccess \/ CancelGrant \/ LeaveAccess
  PROVE  GrantsInv'
<1>1. ASSUME NEW s \in Scopes, OpenAccess(s) \/ OpenGrant(s) PROVE GrantsInv'
  <2>1. grant' \in AllChanges \cup {Nobody} /\ ~IsPending(grant)'
    BY <1>1 DEF OpenAccess, OpenGrant, GrantsInv, GrantsTypeOK, IsPending
  <2> QED BY <1>1, <2>1, AccessMountInv DEF OpenAccess, OpenGrant
<1>2. CASE GrantAccess
  <2>1. grant' \in AllChanges \cup {Nobody} /\ ~IsPending(grant)' /\ scope \in Scopes
    BY <1>2 DEF GrantAccess, GrantsInv, GrantsTypeOK, IsPending
  <2> QED BY <1>2, <2>1, AccessMountInv DEF GrantAccess
<1>3. CASE CancelGrant
  <2>1. scope \in Scopes /\ grant' = Orphan(grant) /\ grant \in AllChanges \cup {Nobody}
    BY <1>3 DEF CancelGrant, GrantsInv, GrantsTypeOK
  <2>2. grant' \in AllChanges \cup {Nobody} /\ ~IsPending(grant)'
    BY <2>1, OrphanFits DEF IsPending
  <2> QED BY <1>3, <2>1, <2>2, AccessMountInv DEF CancelGrant
<1>4. CASE LeaveAccess
  <2>1. grant' = Orphan(grant) /\ grant \in AllChanges \cup {Nobody} /\ PageGoes
    BY <1>4 DEF LeaveAccess, GrantsInv, GrantsTypeOK
  <2>2. grant' \in AllChanges \cup {Nobody} /\ ~IsPending(grant)'
    BY <2>1, OrphanFits DEF IsPending
  <2>3. /\ removal' \in AllChanges \cup {Nobody} /\ ~IsPending(removal)'
        /\ asked' = Nobody /\ user' = Nobody /\ AnswerFindsNoDialog'
    BY <2>1, PageGoesInv
  <2>4. GrantsTypeOK' /\ StoreFilled' /\ ListKept' /\ FirstReads'
    BY <1>4, <2>2, <2>3 DEF LeaveAccess, GrantsInv, GrantsTypeOK, StoreFilled, ListKept, FirstReads
  <2> QED BY <2>3, <2>4 DEF GrantsInv
<1> QED BY <1>1, <1>2, <1>3, <1>4

\* A request of a list: it is about one scope, on the screen or not.
LEMMA ListRequestInv ==
  ASSUME GrantsInv, NEW s \in Scopes,
         ServerLists(s) \/ ListShows(s) \/ ListingFails(s) \/ Collected(s)
  PROVE  GrantsInv'
<1> DEFINE T == [stage : {"none", "asked", "read"}, value : SUBSET Members, overtaken : BOOLEAN]
           C == (SUBSET Members) \cup {Nobody}
<1>1. /\ fetch \in [Scopes -> T] /\ cached \in [Scopes -> C] /\ assigned \in [Scopes -> SUBSET Members]
      /\ FirstReads /\ ListKept
  BY DEF GrantsInv, GrantsTypeOK
<1>2. UNCHANGED <<assigned, desk, scope, context, asked, removal, user, grant>>
  BY DEF ServerLists, ListShows, ListingFails, Collected, Lists
<1>3. Coming' = Coming /\ (AnswerFindsNoDialog' = AnswerFindsNoDialog) /\ (StoreFilled' = StoreFilled)
  BY <1>2 DEF Coming, AnswerFindsNoDialog, StoreFilled, IsPending
<1>4. NoFetch \in T /\ NoFetch.stage = "none"
  BY DEF NoFetch
<1>5. SUFFICES fetch' \in [Scopes -> T] /\ cached' \in [Scopes -> C] /\ FirstReads' /\ ListKept'
  BY <1>2, <1>3 DEF GrantsInv, GrantsTypeOK, IsPending
<1>6. CASE ServerLists(s)
  <2> DEFINE f == [stage |-> "read", value |-> assigned[s], overtaken |-> FALSE]
  <2>1. fetch' = [fetch EXCEPT ![s] = f] /\ f \in T /\ UNCHANGED <<cached, behind>> /\ fetch[s].stage = "asked"
    BY <1>1, <1>6 DEF ServerLists
  <2>2. fetch' \in [Scopes -> T] /\ fetch'[s] = f /\ \A t \in Scopes \ {s} : fetch'[t] = fetch[t]
    BY <1>1, <2>1
  <2>3. FirstReads'
    BY <1>1, <1>2, <2>1, <2>2 DEF FirstReads
  <2>4. ASSUME desk' = "list", ~behind', ~Coming'
        PROVE  /\ fetch'[scope'].stage = "none" => cached'[scope'] = assigned'[scope']
               /\ fetch'[scope'].stage = "read" /\ ~fetch'[scope'].overtaken
                    => fetch'[scope'].value = assigned'[scope']
    <3>1. scope \in Scopes
      BY <1>2, <2>4 DEF GrantsInv, GrantsTypeOK
    <3>2. CASE scope = s
      BY <1>2, <2>2, <3>2
    <3>3. CASE scope # s
      BY <1>1, <1>2, <1>3, <2>1, <2>2, <2>4, <3>1, <3>3 DEF ListKept
    <3> QED BY <3>2, <3>3
  <2>5. ListKept'
    BY <2>4 DEF ListKept
  <2> QED BY <1>1, <2>1, <2>2, <2>3, <2>5
<1>7. CASE ListShows(s)
  <2>1. /\ cached' = [cached EXCEPT ![s] = fetch[s].value] /\ fetch' = [fetch EXCEPT ![s] = NoFetch]
        /\ fetch[s].stage = "read" /\ fetch[s] \in T
    BY <1>1, <1>7 DEF ListShows
  <2>2. /\ fetch' \in [Scopes -> T] /\ fetch'[s] = NoFetch /\ \A t \in Scopes \ {s} : fetch'[t] = fetch[t]
        /\ cached' \in [Scopes -> C] /\ cached'[s] = fetch[s].value
        /\ \A t \in Scopes \ {s} : cached'[t] = cached[t]
    BY <1>1, <1>4, <2>1
  <2>3. FirstReads'
    BY <1>1, <1>2, <1>4, <2>2 DEF FirstReads
  <2>4. ASSUME desk' = "list", ~behind', ~Coming'
        PROVE  /\ fetch'[scope'].stage = "none" => cached'[scope'] = assigned'[scope']
               /\ fetch'[scope'].stage = "read" /\ ~fetch'[scope'].overtaken
                    => fetch'[scope'].value = assigned'[scope']
    <3>1. scope \in Scopes /\ ~Coming /\ desk = "list"
      BY <1>2, <1>3, <2>4 DEF GrantsInv, GrantsTypeOK
    <3>2. CASE scope = s
      <4>1. ~((behind \/ fetch[s].overtaken) /\ fetch[s].value # assigned[s])
        BY <1>7, <2>4, <3>1, <3>2 DEF ListShows, ListShown
      <4>2. fetch[s].value = assigned[s]
        BY <1>1, <2>1, <3>1, <3>2, <4>1 DEF ListKept
      <4> QED BY <1>2, <1>4, <2>2, <3>2, <4>2
    <3>3. CASE scope # s
      <4>1. ~behind
        BY <1>7, <2>4, <3>3 DEF ListShows, ListShown
      <4> QED BY <1>1, <1>2, <2>2, <3>1, <3>3, <4>1 DEF ListKept
    <3> QED BY <3>2, <3>3
  <2>5. ListKept'
    BY <2>4 DEF ListKept
  <2> QED BY <2>2, <2>3, <2>5
<1>8. CASE ListingFails(s)
  <2>1. fetch' = [fetch EXCEPT ![s] = NoFetch] /\ UNCHANGED cached
    BY <1>8 DEF ListingFails
  <2>2. fetch' \in [Scopes -> T] /\ fetch'[s] = NoFetch /\ \A t \in Scopes \ {s} : fetch'[t] = fetch[t]
    BY <1>1, <1>4, <2>1
  <2>3. FirstReads'
    BY <1>1, <1>2, <1>4, <2>1, <2>2 DEF FirstReads
  <2>4. ASSUME desk' = "list", ~behind', ~Coming'
        PROVE  /\ fetch'[scope'].stage = "none" => cached'[scope'] = assigned'[scope']
               /\ fetch'[scope'].stage = "read" /\ ~fetch'[scope'].overtaken
                    => fetch'[scope'].value = assigned'[scope']
    <3>1. scope \in Scopes /\ ~Coming /\ desk = "list" /\ ~behind /\ scope # s
      BY <1>2, <1>3, <1>8, <2>4 DEF GrantsInv, GrantsTypeOK, ListingFails, ListShown
    <3> QED BY <1>1, <1>2, <2>1, <2>2, <3>1 DEF ListKept
  <2>5. ListKept'
    BY <2>4 DEF ListKept
  <2> QED BY <1>1, <2>1, <2>2, <2>3, <2>5
<1>9. CASE Collected(s)
  <2>1. /\ cached' = [cached EXCEPT ![s] = Nobody] /\ UNCHANGED <<fetch, behind>>
        /\ fetch[s].stage = "none" /\ ~(desk = "list" /\ scope = s)
    BY <1>9 DEF Collected, ListShown
  <2>2. cached' \in [Scopes -> C] /\ \A t \in Scopes \ {s} : cached'[t] = cached[t]
    BY <1>1, <2>1
  <2>3. FirstReads'
    BY <1>1, <1>2, <2>1, <2>2 DEF FirstReads
  <2>4. ListKept'
    <3>1. desk = "list" => scope \in Scopes \ {s}
      BY <2>1 DEF GrantsInv, GrantsTypeOK
    <3> QED BY <1>1, <1>2, <1>3, <2>1, <2>2, <3>1 DEF ListKept
  <2> QED BY <1>1, <2>1, <2>2, <2>3, <2>4
<1> QED BY <1>6, <1>7, <1>8, <1>9

\* The page asks for its list again, and its dialog opens and closes: the
\* removal under way is not touched.
LEMMA AccessListInv ==
  ASSUME GrantsInv, Refocus \/ MayManage \/ CancelRemove \/ \E u \in Members : AskRemove(u)
  PROVE  GrantsInv'
<1>1. OnList /\ UNCHANGED <<removal, assigned, cached, behind>>
  BY DEF Refocus, MayManage, CancelRemove, AskRemove
<1>2. UNCHANGED <<desk, scope, context, user, grant>>
  BY <1>1 DEF OnList
<1>3. scope \in Scopes
  BY <1>1 DEF OnList, GrantsInv, GrantsTypeOK
<1>4. CASE Refocus
  <2>1. ListAgain(scope) /\ UNCHANGED <<asked, cached>>
    BY <1>4 DEF Refocus
  <2>2. /\ fetch' \in [Scopes -> [stage : {"none", "asked", "read"}, value : SUBSET Members,
                                   overtaken : BOOLEAN]]
        /\ FirstReads' /\ fetch'[scope].stage # "none"
        /\ fetch'[scope].stage = "read" /\ ~fetch'[scope].overtaken => fetch'[scope].value = assigned[scope]
    BY <1>1, <1>3, <2>1, ListAgainInv
  <2>3. GrantsTypeOK' /\ StoreFilled' /\ AnswerFindsNoDialog'
    BY <1>1, <1>2, <2>1, <2>2 DEF GrantsInv, GrantsTypeOK, StoreFilled, AnswerFindsNoDialog, IsPending
  <2>4. ListKept'
    BY <1>1, <1>2, <2>2 DEF ListKept
  <2> QED BY <2>2, <2>3, <2>4 DEF GrantsInv
<1>5. CASE MayManage \/ CancelRemove \/ \E u \in Members : AskRemove(u)
  <2>1. SameLists
    BY <1>1, <1>2, <1>5 DEF MayManage, CancelRemove, AskRemove, SameLists
  <2>2. GrantsTypeOK' /\ StoreFilled' /\ AnswerFindsNoDialog'
    BY <1>1, <1>2, <1>5
       DEF MayManage, CancelRemove, AskRemove, GrantsInv, GrantsTypeOK, StoreFilled, AnswerFindsNoDialog,
           IsPending
  <2> QED BY <2>1, <2>2, SameListsInv DEF GrantsInv
<1> QED BY <1>4, <1>5

\* A removal, from the dialog to the answer.
LEMMA RemovalInv ==
  ASSUME GrantsInv, HandleRemoveUser \/ ServerRemoves \/ RemovalSucceeds \/ RemovalFails
  PROVE  GrantsInv'
<1>1. CASE HandleRemoveUser
  <2>1. /\ removal' = Change(scope, asked) /\ removal = Nobody /\ scope \in Scopes /\ asked \in Members
        /\ desk = "list" /\ asked' = Nobody
    BY <1>1 DEF HandleRemoveUser, OnList, GrantsInv, GrantsTypeOK
  <2>2. removal' \in AllChanges /\ ~removal'.done
    BY <2>1 DEF Change
  <2>3. GrantsTypeOK' /\ StoreFilled' /\ AnswerFindsNoDialog'
    BY <1>1, <2>1, <2>2
       DEF HandleRemoveUser, OnList, GrantsInv, GrantsTypeOK, StoreFilled, AnswerFindsNoDialog, IsPending
  <2>4. FirstReads' /\ ListKept'
    BY <1>1, <2>1, <2>2 DEF HandleRemoveUser, OnList, GrantsInv, FirstReads, ListKept, Coming
  <2> QED BY <2>3, <2>4 DEF GrantsInv
<1>2. CASE ServerRemoves
  <2>1. removal \in AllChanges /\ removal # Nobody /\ ~removal.done
    BY <1>2 DEF ServerRemoves, GrantsInv, GrantsTypeOK
  <2>2. /\ removal' \in AllChanges /\ removal'.done /\ removal'.live = removal.live
        /\ removal'.scope = removal.scope
    BY <1>2, <2>1 DEF ServerRemoves
  <2>3. /\ assigned' \in [Scopes -> SUBSET Members]
        /\ \A t \in Scopes \ {removal.scope} : assigned'[t] = assigned[t]
    BY <1>2, <2>1 DEF ServerRemoves, GrantsInv, GrantsTypeOK
  <2>4. removal' # Nobody
    BY <2>2, GrantBounds
  <2>5. removal.scope \in Scopes /\ OvertakesList(removal.scope)
        /\ UNCHANGED <<desk, scope, context, cached, behind, asked, user, grant>>
    BY <1>2, <2>1 DEF ServerRemoves
  <2>6. /\ fetch' \in [Scopes -> [stage : {"none", "asked", "read"}, value : SUBSET Members,
                                   overtaken : BOOLEAN]]
        /\ FirstReads' /\ \A t \in Scopes \ {removal.scope} : fetch'[t] = fetch[t]
    BY <2>3, <2>5, OvertakenInv
  <2>7. GrantsTypeOK' /\ StoreFilled' /\ AnswerFindsNoDialog'
    BY <2>1, <2>2, <2>3, <2>4, <2>5, <2>6
       DEF GrantsInv, GrantsTypeOK, StoreFilled, AnswerFindsNoDialog, IsPending
  <2>8. ASSUME desk' = "list", ~behind', ~Coming'
        PROVE  /\ fetch'[scope'].stage = "none" => cached'[scope'] = assigned'[scope']
               /\ fetch'[scope'].stage = "read" /\ ~fetch'[scope'].overtaken
                    => fetch'[scope'].value = assigned'[scope']
    <3>1. scope \in Scopes \ {removal.scope}
      BY <2>2, <2>4, <2>5, <2>8 DEF Coming, GrantsInv, GrantsTypeOK
    <3>2. ~Coming /\ ~behind /\ desk = "list"
      BY <2>1, <2>5, <2>8 DEF Coming
    <3> QED BY <2>3, <2>5, <2>6, <3>1, <3>2 DEF GrantsInv, ListKept
  <2>9. ListKept'
    BY <2>8 DEF ListKept
  <2> QED BY <2>6, <2>7, <2>9 DEF GrantsInv
<1>3. CASE RemovalSucceeds
  <2>1. /\ removal \in AllChanges /\ removal' = Nobody /\ removal # Nobody /\ removal.scope \in Scopes
        /\ UNCHANGED <<assigned, desk, scope, context, cached, behind, user, grant>>
        /\ asked' \in {Nobody, asked}
    BY <1>3 DEF RemovalSucceeds, GrantsInv, GrantsTypeOK
  <2>2. AnswerFindsNoDialog' /\ StoreFilled' /\ ~IsPending(removal)'
    BY <2>1 DEF AnswerFindsNoDialog, StoreFilled, IsPending, GrantsInv
  <2>3. CASE ListShown(removal.scope)
    <3>1. ListAgain(removal.scope) /\ scope = removal.scope
      BY <1>3, <2>3 DEF RemovalSucceeds, ListShown
    <3>2. /\ fetch' \in [Scopes -> [stage : {"none", "asked", "read"}, value : SUBSET Members,
                                     overtaken : BOOLEAN]]
          /\ FirstReads' /\ fetch'[scope].stage # "none"
          /\ fetch'[scope].stage = "read" /\ ~fetch'[scope].overtaken => fetch'[scope].value = assigned[scope]
      BY <2>1, <3>1, ListAgainInv
    <3>3. GrantsTypeOK'
      BY <2>1, <2>2, <3>2 DEF GrantsInv, GrantsTypeOK, IsPending
    <3>4. ListKept'
      BY <2>1, <3>2 DEF ListKept
    <3> QED BY <2>2, <3>2, <3>3, <3>4 DEF GrantsInv
  <2>4. CASE ~ListShown(removal.scope)
    <3>1. UNCHANGED fetch
      BY <1>3, <2>4 DEF RemovalSucceeds
    <3>2. GrantsTypeOK' /\ FirstReads'
      BY <2>1, <2>2, <3>1 DEF GrantsInv, GrantsTypeOK, FirstReads, IsPending
    <3>3. desk = "list" => ~Coming
      BY <2>1, <2>4 DEF ListShown, Coming
    <3>4. ListKept'
      BY <2>1, <3>1, <3>3 DEF GrantsInv, ListKept
    <3> QED BY <2>2, <3>2, <3>4 DEF GrantsInv
  <2> QED BY <2>3, <2>4
<1>4. CASE RemovalFails
  BY <1>4
     DEF RemovalFails, GrantsInv, GrantsTypeOK, StoreFilled, AnswerFindsNoDialog, ListKept, FirstReads, IsPending
<1> QED BY <1>1, <1>2, <1>3, <1>4

\* The page that grants.
LEMMA GrantInv ==
  ASSUME GrantsInv, CreateRoleAssignment
  PROVE  GrantsInv'
<1>1. CASE SearchUsers \/ SearchArrives \/ SelectRole \/ (\E u \in Members : SelectUser(u)) \/ GrantFails
  <2>1. SameLists
    BY <1>1
       DEF SearchUsers, SearchArrives, SelectRole, SelectUser, GrantFails, OnGrant, SameLists
  <2>2. GrantsTypeOK' /\ StoreFilled' /\ AnswerFindsNoDialog'
    BY <1>1
       DEF SearchUsers, SearchArrives, SelectRole, SelectUser, GrantFails, OnGrant, GrantsInv, GrantsTypeOK,
           StoreFilled, AnswerFindsNoDialog, IsPending
  <2> QED BY <2>1, <2>2, SameListsInv DEF GrantsInv
<1>2. CASE HandleSubmit
  <2>1. grant' \in AllChanges /\ desk = "grant" /\ SameLists
    BY <1>2 DEF HandleSubmit, OnGrant, Change, GrantsInv, GrantsTypeOK, StoreFilled, SameLists
  <2>2. GrantsTypeOK' /\ StoreFilled' /\ AnswerFindsNoDialog'
    BY <1>2, <2>1
       DEF HandleSubmit, OnGrant, GrantsInv, GrantsTypeOK, StoreFilled, AnswerFindsNoDialog, IsPending
  <2> QED BY <2>1, <2>2, SameListsInv DEF GrantsInv
<1>3. CASE ServerGrants
  <2>1. grant \in AllChanges /\ grant # Nobody /\ grant.scope \in Scopes /\ OvertakesList(grant.scope)
        /\ UNCHANGED <<desk, scope, context, cached, asked, removal, user>>
    BY <1>3 DEF ServerGrants, GrantsInv, GrantsTypeOK
  <2>2. grant' \in AllChanges /\ grant'.live = grant.live
    BY <1>3, <2>1 DEF ServerGrants
  <2>3. /\ assigned' \in [Scopes -> SUBSET Members]
        /\ \A t \in Scopes \ {grant.scope} : assigned'[t] = assigned[t]
    BY <1>3, <2>1 DEF ServerGrants, GrantsInv, GrantsTypeOK
  <2>4. /\ fetch' \in [Scopes -> [stage : {"none", "asked", "read"}, value : SUBSET Members,
                                   overtaken : BOOLEAN]]
        /\ FirstReads' /\ \A t \in Scopes \ {grant.scope} : fetch'[t] = fetch[t]
    BY <2>1, <2>3, OvertakenInv
  <2>5. GrantsTypeOK'
    BY <1>3, <2>1, <2>2, <2>3, <2>4 DEF ServerGrants, GrantsInv, GrantsTypeOK, IsPending
  <2>6. StoreFilled' /\ AnswerFindsNoDialog'
    BY <2>1 DEF GrantsInv, StoreFilled, AnswerFindsNoDialog, IsPending
  <2>7. desk = "list" /\ ~behind' => scope \in Scopes \ {grant.scope} /\ ~behind
    BY <1>3 DEF ServerGrants, ListShown, GrantsInv, GrantsTypeOK
  <2>8. ListKept'
    BY <2>1, <2>3, <2>4, <2>7 DEF GrantsInv, ListKept, Coming
  <2> QED BY <2>4, <2>5, <2>6, <2>8 DEF GrantsInv
<1>4. CASE GrantSucceeds
  <2>1. grant' = Nobody
    BY <1>4 DEF GrantSucceeds
  <2>2. CASE grant.live
    <3>1. scope \in Scopes
      BY <1>4, <2>2 DEF GrantSucceeds, GrantsInv, GrantsTypeOK, IsPending
    <3>2. MountList(scope) /\ PageGoes
      BY <1>4, <2>2 DEF GrantSucceeds
    <3> QED BY <2>1, <3>1, <3>2, AccessMountInv DEF IsPending
  <2>3. CASE ~grant.live
    <3>1. SameLists
      BY <1>4, <2>3 DEF GrantSucceeds, SameLists
    <3>2. GrantsTypeOK' /\ StoreFilled' /\ AnswerFindsNoDialog'
      BY <1>4, <2>1, <2>3
         DEF GrantSucceeds, GrantsInv, GrantsTypeOK, StoreFilled, AnswerFindsNoDialog, IsPending
    <3> QED BY <3>1, <3>2, SameListsInv DEF GrantsInv
  <2> QED BY <2>2, <2>3
<1> QED BY <1>1, <1>2, <1>3, <1>4 DEF CreateRoleAssignment

THEOREM GrantsInvariant == GrantsSpec => []GrantsInv
<1>1. GrantsInv /\ [GrantsNext]_grantsVars => GrantsInv'
  <2>1. ASSUME GrantsInv, UNCHANGED grantsVars PROVE GrantsInv'
    <3>1. SameLists
      BY <2>1 DEF grantsVars, SameLists
    <3>2. GrantsTypeOK' /\ StoreFilled' /\ AnswerFindsNoDialog'
      BY <2>1 DEF grantsVars, GrantsInv, GrantsTypeOK, StoreFilled, AnswerFindsNoDialog, IsPending
    <3> QED BY <2>1, <3>1, <3>2, SameListsInv DEF GrantsInv
  <2> QED BY <2>1, PagesInv, ListRequestInv, AccessListInv, RemovalInv, GrantInv DEF GrantsNext, AccessControl
<1> QED BY <1>1, GrantsInitInv, PTL DEF GrantsSpec

\* Types; a request that is live has its page.
THEOREM GrantsTyped == GrantsSpec => []GrantsTypeOK
<1>1. GrantsInv => GrantsTypeOK
  BY DEF GrantsInv
<1> QED BY <1>1, GrantsInvariant, PTL

\* The answer to a removal never finds the dialog of another.
THEOREM AnswersFindNoDialog == GrantsSpec => []AnswerFindsNoDialog
<1>1. GrantsInv => AnswerFindsNoDialog
  BY DEF GrantsInv
<1> QED BY <1>1, GrantsInvariant, PTL

\* The list settles on the server's, whatever order requests to read and to
\* change are answered in.
THEOREM ListsSettle == GrantsSpec => []ListsOwnChanges
<1>1. GrantsInv => ListsOwnChanges
  BY DEF GrantsInv, ListKept, Coming, ListsOwnChanges
<1> QED BY <1>1, GrantsInvariant, PTL

\* A grant goes to the scope whose page the user sees.
THEOREM GrantsGoWhereTheySay == GrantsSpec => GrantsWhereItSays
<1>1. GrantsInv /\ [GrantsNext]_grantsVars
        => [grant' # Nobody /\ grant = Nobody => grant'.scope = scope]_grantsVars
  <2> SUFFICES ASSUME GrantsInv, GrantsNext, grant' # Nobody, grant = Nobody PROVE grant'.scope = scope
    OBVIOUS
  <2>1. HandleSubmit
    BY DEF GrantsNext, OpenAccess, OpenGrant, GrantAccess, CancelGrant, LeaveAccess, Orphan,
           AccessControl, OnList, Lists, ServerLists, ListShows, ListingFails, Collected, Refocus, MayManage, AskRemove,
           CancelRemove, HandleRemoveUser, ServerRemoves, RemovalSucceeds, RemovalFails,
           CreateRoleAssignment, OnGrant, SearchUsers, SearchArrives, SelectRole, SelectUser,
           ServerGrants, GrantSucceeds, GrantFails
  <2> QED BY <2>1 DEF HandleSubmit, OnGrant, Change, GrantsInv, StoreFilled
<1> QED BY <1>1, GrantsInvariant, PTL DEF GrantsSpec, GrantsWhereItSays
-----------------------------------------------------------------------------
(* Portal.                                                                    *)
\* Requests and the address.
PortalFits ==
  /\ at \in Addresses /\ returnTo \in Addresses \cup {Nothing}
  /\ deleting \in Deletions \cup {Nothing} /\ newProject \in Creations \cup {Nothing}
  /\ lastProjectId \in ProjectIds \cup {Nothing}
  /\ listing \in (SUBSET ProjectIds) \cup {Nothing} /\ existing \in SUBSET ProjectIds
  /\ listingFetch \in [stage : {"none", "asked", "read"}, value : SUBSET ProjectIds]

\* Who was sent to the log-in by a page will be told of the page.
ReturnKnown == session \in {"login", "callback"} => returnTo = at

\* A change that the server has applied and the application has not heard of.
IsDone(c) == c # Nothing /\ c.done
Unheard == IsDone(deleting) \/ IsDone(newProject)

\* A list that is there is fetched again only when it is stale.
FetchesStale == listingFetch.stage # "none" /\ listing # Nothing => stale

\* A list that is not stale follows the server, and so does what a request has
\* read, the first one even while a change is unheard of.
ListFollows ==
  ~overtaken /\ ~Unheard /\ listing # Nothing /\ ~stale => listing = existing
ReadFollows ==
  ~overtaken /\ (listing = Nothing \/ ~Unheard) /\ listingFetch.stage = "read"
    => listingFetch.value = existing

Follows == FetchesStale /\ ListFollows /\ ReadFollows
PortalInv == PortalFits /\ ReturnKnown /\ Follows
-----------------------------------------------------------------------------
USE DEF pageState, queryState, requests

LEMMA PortalInitInv == PortalInit => PortalInv
BY DEF PortalInit, PortalInv, PortalFits, Addresses, ReturnKnown, Follows, FetchesStale,
       ListFollows, ReadFollows, Unheard, IsDone, NoList

\* The root leads to a project, every other address to itself.
LEMMA RedirectFits ==
  ASSUME PortalFits, NEW loc \in Addresses, NEW list \in (SUBSET ProjectIds) \cup {Nothing}
  PROVE  /\ Redirect(loc, list) \subseteq Addresses
         /\ list = Nothing => Redirect(loc, list) = {loc}
<1>1. CASE loc # "root" \/ list = Nothing \/ list = {}
  BY <1>1 DEF Redirect
<1>2. CASE ~(loc # "root" \/ list = Nothing \/ list = {})
  BY <1>2 DEF Redirect, Addresses
<1> QED BY <1>1, <1>2

LEMMA UnloadInv ==
  ASSUME PortalInv, Unload, at' \in Addresses, returnTo' \in Addresses \cup {Nothing}, ReturnKnown'
  PROVE  PortalInv'
<1>1. PortalFits'
  BY DEF Unload, PortalInv, PortalFits, NoList
<1>2. Follows'
  BY DEF Unload, Follows, FetchesStale, ListFollows, ReadFollows, NoList
<1> QED BY <1>1, <1>2 DEF PortalInv

\* The list of a page that mounts.
LEMMA MountInv ==
  ASSUME PortalInv, NEW loc \in Addresses, Mount(loc), UNCHANGED existing,
         Unheard' = Unheard
  PROVE  /\ at' \in Addresses
         /\ listingFetch' \in [stage : {"none", "asked", "read"}, value : SUBSET ProjectIds]
         /\ Follows'
<1>1. at' \in Addresses
  BY RedirectFits DEF Mount, PortalInv, PortalFits
<1>2. listingFetch' \in [stage : {"none", "asked", "read"}, value : SUBSET ProjectIds]
  BY DEF Mount, PortalInv, PortalFits, AskList
<1>3. Follows'
  BY DEF Mount, PortalInv, Follows, FetchesStale, ListFollows, ReadFollows, AskList
<1> QED BY <1>1, <1>2, <1>3

\* The log-in and the addresses.
LEMMA LoginInv ==
  ASSUME PortalInv, LoginNext
  PROVE  PortalInv'
<1>1. ASSUME NEW loc \in Addresses, VisitPortal(loc) PROVE PortalInv'
  BY <1>1, UnloadInv DEF VisitPortal, PortalInv, PortalFits, ReturnKnown
<1>2. ASSUME NEW loc \in Addresses, Navigate(loc) PROVE PortalInv'
  <2>1. Mount(loc) /\ UNCHANGED <<session, returnTo, existing, lastProjectId, newProject, listing>>
    BY <1>2 DEF Navigate, In, Mount
  <2>2. deleting' \in {deleting, [deleting EXCEPT !.live = FALSE]} /\ (deleting = Nothing => deleting' = Nothing)
    BY <1>2 DEF Navigate, PageStays
  <2>3. deleting' \in Deletions \cup {Nothing} /\ IsDone(deleting)' = IsDone(deleting)
    <3>1. CASE deleting' = deleting
      BY <3>1 DEF PortalInv, PortalFits, IsDone
    <3>2. CASE deleting # Nothing /\ deleting' = [deleting EXCEPT !.live = FALSE]
      <4>1. deleting' \in Deletions /\ deleting'.done = deleting.done
        BY <3>2 DEF PortalInv, PortalFits, Deletions
      <4> QED BY <3>2, <4>1, PortalBounds DEF IsDone
    <3> QED BY <2>2, <3>1, <3>2
  <2>4. Unheard' = Unheard
    BY <2>1, <2>3 DEF Unheard, IsDone
  <2>5. /\ at' \in Addresses /\ Follows'
        /\ listingFetch' \in [stage : {"none", "asked", "read"}, value : SUBSET ProjectIds]
    BY <2>1, <2>4, MountInv
  <2>6. session = "in" /\ session' = "in"
    BY <1>2 DEF Navigate, In
  <2> QED BY <2>1, <2>3, <2>5, <2>6 DEF PortalInv, PortalFits, ReturnKnown
<1>3. CASE Admitted
  <2>1. /\ Mount(at) /\ UNCHANGED <<returnTo, existing, lastProjectId, listing, deleting, newProject>>
        /\ at \in Addresses /\ session' = "in"
    BY <1>3 DEF Admitted, Mount, PortalInv, PortalFits
  <2>2. Unheard' = Unheard
    BY <2>1 DEF Unheard, IsDone
  <2>3. /\ at' \in Addresses /\ Follows'
        /\ listingFetch' \in [stage : {"none", "asked", "read"}, value : SUBSET ProjectIds]
    BY <2>1, <2>2, MountInv
  <2> QED BY <2>1, <2>3 DEF PortalInv, PortalFits, ReturnKnown
<1>4. CASE SentToLogin \/ SessionExpires \/ LoginFails \/ OnRedirectCallback \/ CloseTab
  <2>1. at' \in Addresses /\ returnTo' \in Addresses \cup {Nothing} /\ ReturnKnown' /\ Unload
    BY <1>4 DEF SentToLogin, SessionExpires, LoginFails, OnRedirectCallback, CloseTab, PortalInv,
                PortalFits, ReturnKnown, Addresses
  <2> QED BY <2>1, UnloadInv
<1>5. CASE LoggedIn
  BY <1>5 DEF LoggedIn, PortalInv, PortalFits, ReturnKnown, Follows, FetchesStale, ListFollows,
              ReadFollows, Unheard, IsDone
<1> QED BY <1>1, <1>2, <1>3, <1>4, <1>5 DEF LoginNext, Addresses

\* What the list needs of a step of the pages: where it is invalidated, and
\* where nothing of it changes.
LEMMA InvalidateInv ==
  ASSUME PortalInv, InvalidateProjects, UNCHANGED <<existing, overtaken>>
  PROVE  /\ listing' \in (SUBSET ProjectIds) \cup {Nothing}
         /\ listingFetch' \in [stage : {"none", "asked", "read"}, value : SUBSET ProjectIds]
         /\ Follows'
<1>1. /\ listing' \in (SUBSET ProjectIds) \cup {Nothing}
      /\ listingFetch' \in [stage : {"none", "asked", "read"}, value : SUBSET ProjectIds]
  BY DEF InvalidateProjects, PortalInv, PortalFits, AskList
<1>2. FetchesStale' /\ ListFollows'
  BY DEF InvalidateProjects, FetchesStale, ListFollows
<1>3. ReadFollows'
  BY DEF InvalidateProjects, PortalInv, Follows, ReadFollows, AskList
<1> QED BY <1>1, <1>2, <1>3 DEF Follows

LEMMA ListKeptInv ==
  ASSUME PortalInv, UNCHANGED <<existing, listing, stale, listingFetch>>,
         overtaken => overtaken', Unheard => Unheard' \/ overtaken'
  PROVE  Follows'
BY DEF PortalInv, Follows, FetchesStale, ListFollows, ReadFollows

\* The pages' lists.
LEMMA ListsInv ==
  ASSUME PortalInv, ServerListsProjects \/ ProjectsArrived \/ ProjectsFailed \/ ProjectLoads
  PROVE  PortalInv'
<1>1. CASE ServerListsProjects
  <2>1. /\ UNCHANGED <<at, returnTo, existing, lastProjectId, listing, stale, overtaken, deleting, newProject>>
        /\ listingFetch' = [stage |-> "read", value |-> existing]
        /\ session = "in" /\ session' = "in" /\ listingFetch.stage # "none"
    BY <1>1 DEF ServerListsProjects, In
  <2>2. Follows'
    BY <2>1 DEF PortalInv, Follows, FetchesStale, ListFollows, ReadFollows, Unheard, IsDone
  <2> QED BY <2>1, <2>2 DEF PortalInv, PortalFits, ReturnKnown
<1>2. CASE ProjectsArrived
  <2>1. /\ UNCHANGED <<returnTo, existing, lastProjectId, deleting, newProject>>
        /\ listingFetch.stage = "read" /\ listing' = listingFetch.value /\ listingFetch' = NoList
        /\ overtaken' = (overtaken /\ listing' # existing)
        /\ at' \in Redirect(at, listing') /\ session' = "in"
    BY <1>2 DEF ProjectsArrived, In
  <2>2. listing' \in SUBSET ProjectIds /\ at' \in Addresses
    BY <2>1, RedirectFits DEF PortalInv, PortalFits
  <2>3. FetchesStale' /\ ReadFollows'
    BY <2>1 DEF FetchesStale, ReadFollows, NoList
  <2>4. ListFollows'
    BY <2>1 DEF ListFollows, PortalInv, Follows, ReadFollows, Unheard, IsDone
  <2> QED BY <2>1, <2>2, <2>3, <2>4 DEF PortalInv, PortalFits, ReturnKnown, Follows, NoList
<1>3. CASE ProjectsFailed
  <2>1. /\ UNCHANGED <<at, session, returnTo, existing, lastProjectId, listing, stale, overtaken, deleting, newProject>>
        /\ listingFetch' = NoList
    BY <1>3 DEF ProjectsFailed, In
  <2> QED
    BY <2>1 DEF PortalInv, PortalFits, ReturnKnown, Follows, FetchesStale, ListFollows, ReadFollows,
                Unheard, IsDone, NoList
<1>4. CASE ProjectLoads
  <2>1. /\ UNCHANGED <<at, session, returnTo, existing, listing, stale, listingFetch, overtaken, deleting, newProject>>
        /\ lastProjectId' \in ProjectIds
    BY <1>4 DEF ProjectLoads, In, PortalInv, PortalFits
  <2> QED
    BY <2>1 DEF PortalInv, PortalFits, ReturnKnown, Follows, FetchesStale, ListFollows, ReadFollows,
                Unheard, IsDone
<1> QED BY <1>1, <1>2, <1>3, <1>4

\* A change that the server applies is unheard of, and overtakes a first
\* request that has read.
LEMMA AppliedInv ==
  ASSUME PortalInv, Overtakes, UNCHANGED <<listing, stale, listingFetch>>, Unheard'
  PROVE  Follows'
BY DEF Overtakes, PortalInv, Follows, FetchesStale, ListFollows, ReadFollows

LEMMA CreationInv ==
  ASSUME PortalInv, (\E p \in ProjectIds : CreateProjectHere(p)) \/ ServerCreatesProject
                    \/ CreateProjectSucceeds \/ CreateProjectFails
  PROVE  PortalInv'
<1>0. UNCHANGED <<at, session, returnTo, lastProjectId, deleting>>
  BY DEF CreateProjectHere, ServerCreatesProject, CreateProjectSucceeds, CreateProjectFails, In
<1>1. ASSUME NEW p \in ProjectIds, CreateProjectHere(p) PROVE PortalInv'
  <2>1. /\ newProject = Nothing /\ newProject' \in Creations /\ ~newProject'.done
        /\ UNCHANGED <<existing, listing, stale, listingFetch, overtaken>>
    BY <1>1 DEF CreateProjectHere, Creations
  <2>2. Unheard => Unheard'
    BY <1>0, <2>1 DEF Unheard, IsDone
  <2> QED BY <1>0, <2>1, <2>2, ListKeptInv DEF PortalInv, PortalFits, ReturnKnown
<1>2. CASE ServerCreatesProject
  <2>1. newProject \in Creations /\ newProject' = [newProject EXCEPT !.done = TRUE]
    BY <1>2 DEF ServerCreatesProject, PortalInv, PortalFits
  <2>2. newProject' \in Creations /\ newProject'.done
    BY <2>1 DEF Creations
  <2>3. /\ existing' \in SUBSET ProjectIds /\ Overtakes
        /\ UNCHANGED <<listing, stale, listingFetch>>
    BY <1>2, <2>1 DEF ServerCreatesProject, PortalInv, PortalFits, Creations
  <2>4. Unheard'
    BY <2>2, PortalBounds DEF Unheard, IsDone
  <2>5. Follows'
    BY <2>3, <2>4, AppliedInv
  <2> QED BY <1>0, <2>2, <2>3, <2>5 DEF PortalInv, PortalFits, ReturnKnown
<1>3. CASE CreateProjectSucceeds
  <2>1. newProject' = Nothing /\ InvalidateProjects /\ UNCHANGED <<existing, overtaken>>
    BY <1>3 DEF CreateProjectSucceeds
  <2> QED BY <1>0, <2>1, InvalidateInv DEF PortalInv, PortalFits, ReturnKnown
<1>4. CASE CreateProjectFails
  <2>1. /\ newProject # Nothing /\ newProject' = Nothing /\ overtaken' = (overtaken \/ newProject.done)
        /\ UNCHANGED <<existing, listing, stale, listingFetch>>
    BY <1>4 DEF CreateProjectFails
  <2>2. Unheard => Unheard' \/ overtaken'
    BY <1>0, <2>1 DEF Unheard, IsDone
  <2> QED BY <1>0, <2>1, <2>2, ListKeptInv DEF PortalInv, PortalFits, ReturnKnown
<1> QED BY <1>1, <1>2, <1>3, <1>4

LEMMA DeletionInv ==
  ASSUME PortalInv, OpenDeleteProject \/ EnterProjectName \/ CancelDeleteProject \/ HandleDeleteProject
                    \/ ServerDeletesProject \/ DeleteProjectSucceeds \/ DeleteProjectFails
  PROVE  PortalInv'
<1>0. session = "in" /\ UNCHANGED <<session, returnTo, lastProjectId, newProject>>
  BY DEF OpenDeleteProject, EnterProjectName, CancelDeleteProject, HandleDeleteProject, Dialog,
         ServerDeletesProject, DeleteProjectSucceeds, DeleteProjectFails, In
<1>1. CASE OpenDeleteProject \/ EnterProjectName \/ CancelDeleteProject
  <2>1. UNCHANGED <<at, existing, listing, stale, listingFetch, overtaken, deleting>>
    BY <1>1 DEF OpenDeleteProject, EnterProjectName, CancelDeleteProject, Dialog
  <2> QED BY <1>0, <2>1, ListKeptInv DEF PortalInv, PortalFits, ReturnKnown, Unheard, IsDone
<1>2. CASE HandleDeleteProject
  <2>1. /\ deleting = Nothing /\ deleting' = [project |-> at, live |-> TRUE, done |-> FALSE]
        /\ at \in ProjectIds /\ UNCHANGED <<at, existing, listing, stale, listingFetch, overtaken>>
    BY <1>2 DEF HandleDeleteProject, Dialog, OnProject
  <2>2. deleting' \in Deletions
    BY <2>1 DEF Deletions
  <2>3. Unheard => Unheard'
    BY <1>0, <2>1 DEF Unheard, IsDone
  <2> QED BY <1>0, <2>1, <2>2, <2>3, ListKeptInv DEF PortalInv, PortalFits, ReturnKnown
<1>3. CASE ServerDeletesProject
  <2>1. deleting \in Deletions /\ deleting' = [deleting EXCEPT !.done = TRUE]
    BY <1>3 DEF ServerDeletesProject, PortalInv, PortalFits
  <2>2. deleting' \in Deletions /\ deleting'.done
    BY <2>1 DEF Deletions
  <2>3. existing' \in SUBSET ProjectIds /\ Overtakes /\ UNCHANGED <<at, listing, stale, listingFetch>>
    BY <1>3 DEF ServerDeletesProject, PortalInv, PortalFits
  <2>4. Unheard'
    BY <2>2, PortalBounds DEF Unheard, IsDone
  <2>5. Follows'
    BY <2>3, <2>4, AppliedInv
  <2> QED BY <1>0, <2>2, <2>3, <2>5 DEF PortalInv, PortalFits, ReturnKnown
<1>4. CASE DeleteProjectSucceeds
  <2>1. deleting' = Nothing /\ InvalidateProjects /\ UNCHANGED <<existing, overtaken>>
    BY <1>4 DEF DeleteProjectSucceeds
  <2>2. at' \in Addresses
    BY <1>4 DEF DeleteProjectSucceeds, Addresses, PortalInv, PortalFits
  <2> QED BY <1>0, <2>1, <2>2, InvalidateInv DEF PortalInv, PortalFits, ReturnKnown
<1>5. CASE DeleteProjectFails
  <2>1. /\ deleting' = Nothing /\ overtaken' = (overtaken \/ deleting.done)
        /\ UNCHANGED <<at, existing, listing, stale, listingFetch>>
    BY <1>5 DEF DeleteProjectFails
  <2>2. Unheard => Unheard' \/ overtaken'
    BY <1>0, <2>1 DEF Unheard, IsDone
  <2> QED BY <1>0, <2>1, <2>2, ListKeptInv DEF PortalInv, PortalFits, ReturnKnown
<1> QED BY <1>1, <1>2, <1>3, <1>4, <1>5

\* The name of the project.
LEMMA NamingInv ==
  ASSUME PortalInv, EditProjectName \/ CancelProjectName \/ SaveProjectName \/ RenameSucceeds \/ RenameFails
  PROVE  PortalInv'
<1>1. /\ session = "in" /\ session' = "in"
      /\ UNCHANGED <<at, returnTo, existing, lastProjectId, overtaken, deleting, newProject>>
  BY DEF EditProjectName, CancelProjectName, SaveProjectName, Header, RenameSucceeds, RenameFails,
         RenameAnswered, In
<1>2. CASE RenameSucceeds
  <2>1. InvalidateProjects
    BY <1>2 DEF RenameSucceeds
  <2> QED BY <1>1, <2>1, InvalidateInv DEF PortalInv, PortalFits, ReturnKnown
<1>3. CASE EditProjectName \/ CancelProjectName \/ SaveProjectName \/ RenameFails
  <2>1. UNCHANGED <<listing, stale, listingFetch>>
    BY <1>3 DEF EditProjectName, CancelProjectName, SaveProjectName, Header, RenameFails
  <2> QED BY <1>1, <2>1, ListKeptInv DEF PortalInv, PortalFits, ReturnKnown, Unheard, IsDone
<1> QED BY <1>2, <1>3

THEOREM PortalInvariant == PortalSpec => []PortalInv
<1>1. PortalInv /\ [PortalNext]_portalVars => PortalInv'
  <2>1. ASSUME PortalInv, UNCHANGED portalVars PROVE PortalInv'
    BY <2>1 DEF portalVars, PortalInv, PortalFits, ReturnKnown, Follows, FetchesStale, ListFollows,
                ReadFollows, Unheard, IsDone
  <2> QED BY <2>1, LoginInv, ListsInv, CreationInv, DeletionInv, NamingInv DEF PortalNext, ProjectsNext
<1> QED BY <1>1, PortalInitInv, PTL DEF PortalSpec

\* The list that every page shows settles on the server's projects, whatever
\* page a request was begun from or answered on.
THEOREM ProjectListsSettle == PortalSpec => []ListsOwnProjects
<1>1. PortalInv => ListsOwnProjects
  BY DEF PortalInv, Follows, ListFollows, Unheard, IsDone, ListsOwnProjects
<1> QED BY <1>1, PortalInvariant, PTL

\* Who is sent to the log-in by a page comes back to that page.
THEOREM LoginsReturn == PortalSpec => LoginReturns
<1>1. PortalInv /\ [PortalNext]_portalVars
        => [session = "callback" /\ session' = "loading" => at' = at]_portalVars
  <2> SUFFICES ASSUME PortalInv, PortalNext, session = "callback", session' = "loading"
               PROVE  at' = at
    OBVIOUS
  <2>1. OnRedirectCallback
    BY DEF PortalNext, LoginNext, ProjectsNext, VisitPortal, Admitted, SentToLogin, SessionExpires,
           LoggedIn, LoginFails, CloseTab, In, Navigate, ServerListsProjects, ProjectsArrived,
           ProjectsFailed, ProjectLoads, CreateProjectHere, ServerCreatesProject,
           CreateProjectSucceeds, CreateProjectFails, Dialog, OpenDeleteProject, EnterProjectName,
           CancelDeleteProject, HandleDeleteProject, ServerDeletesProject, DeleteProjectSucceeds,
           DeleteProjectFails, Header, EditProjectName, CancelProjectName, SaveProjectName,
           RenameAnswered, RenameSucceeds, RenameFails
  <2>2. returnTo = at /\ at # Nothing
    BY PortalBounds DEF PortalInv, PortalFits, ReturnKnown
  <2> QED BY <2>1, <2>2 DEF OnRedirectCallback
<1> QED BY <1>1, PortalInvariant, PTL DEF PortalSpec, LoginReturns
=============================================================================
