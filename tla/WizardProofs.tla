------------------------------ MODULE WizardProofs ------------------------------
(* Proofs about Wizard, for any projects, addresses and number of requests.  *)
(* The list of steps is a concatenation that depends on the form and on what *)
(* is known of billing; its shape is worked out once, and the rest relates   *)
(* the index to the place of the configuration in it.                        *)
EXTENDS Wizard, SequenceTheorems, TLAPS

\* The place of the configuration in the list of steps.
TierIndex == IF url.type = "" THEN 2 ELSE 1

Moves == {"next", "nothing"}
FormType  == UrlTypes \cup Catalog \cup {""}
FormSku   == UrlSkus \cup {"standard", "free", ""}
Form      == [type : FormType, sku : FormSku, named : BOOLEAN, settings : {"", Secret}]
Paying    == [secret : {"none", "new", "old", "other"}, of : Projects \cup {NoProject}, then : Moves]
Modal     == [open : BOOLEAN, step : {"creating", "payment", "done", "error"},
              secret : {"none", "new", "old", "other"}, paying : Paying \cup {None}]

FieldsFit ==
  /\ site \in {"closed", "open", "left", "created"}
  /\ form \in Form
  /\ project \in Projects \cup {NoProject}
  /\ projects \in (SUBSET Projects) \cup {None}
  /\ making \in Moves \cup {None}
  /\ asking \in Moves \cup {None}
  /\ modal \in Modal
  /\ setups \in [Attempts -> Nat]

InPlace == step \in 1..Len(Steps) /\ shown \in Catalog \cup {""}

\* A page that is not mounted has no state.
Closed == site # "open" => /\ step = 1 /\ form = NewForm /\ project = NoProject
                           /\ projects = None /\ making = None /\ asking = None /\ modal = NoModal

\* A selected type has the selected sku.
SkuFits == form.type \in Catalog => IsSkuValidForType(form.type, form.sku)

\* Nothing selects or makes a project before there is a list of them, and
\* nothing asks for the billing of none.
ProjectFits == /\ projects = None => project = NoProject /\ making = None
               /\ asking # None => project # NoProject

\* Whoever is past the configuration, or has something under way that will go
\* on from it, has been through it.
Past == step > TierIndex \/ modal.open \/ modal.paying # None
PastFits == /\ Past => project # NoProject /\ form.type \in Catalog
            /\ asking = "next" \/ making = "next" => form.type \in Catalog

WizardInv == FieldsFit /\ InPlace /\ Closed /\ SkuFits /\ ProjectFits /\ PastFits /\ SpinnerEnds
-----------------------------------------------------------------------------
(* The list of steps.                                                        *)
\* The list by what it depends on, and what stands where.
Listed(f, b, s) == If("resourceType", f) \o <<"tier">> \o If("billing", b) \o If("settings", s)
Tier(f)         == IF f THEN 2 ELSE 1
LenOf(f, b, s)  == Tier(f) + (IF b THEN 1 ELSE 0) + (IF s THEN 1 ELSE 0)
StepOf(f, b, i) == IF i < Tier(f) THEN "resourceType"
                   ELSE IF i = Tier(f) THEN "tier"
                   ELSE IF b /\ i = Tier(f) + 1 THEN "billing" ELSE "settings"

StepNames == {"resourceType", "tier", "billing", "settings"}

LEMMA IfOne ==
  ASSUME NEW n \in StepNames, NEW p \in BOOLEAN
  PROVE  If(n, p) \in Seq(StepNames) /\ Len(If(n, p)) = (IF p THEN 1 ELSE 0) /\ (p => If(n, p)[1] = n)
<1>1. CASE p
  BY <1>1 DEF If
<1>2. CASE ~p
  BY <1>2, EmptySeq DEF If
<1> QED BY <1>1, <1>2

LEMMA Joined ==
  ASSUME NEW u \in Seq(StepNames), NEW v \in Seq(StepNames)
  PROVE  /\ u \o v \in Seq(StepNames) /\ Len(u) \in Nat /\ Len(v) \in Nat
         /\ Len(u \o v) = Len(u) + Len(v)
         /\ \A i \in 1..(Len(u) + Len(v)) : (u \o v)[i] = IF i <= Len(u) THEN u[i] ELSE v[i - Len(u)]
BY ConcatProperties

LEMMA ListedShape ==
  ASSUME NEW f \in BOOLEAN, NEW b \in BOOLEAN, NEW s \in BOOLEAN
  PROVE  /\ Len(Listed(f, b, s)) = LenOf(f, b, s)
         /\ \A i \in 1..LenOf(f, b, s) : Listed(f, b, s)[i] = StepOf(f, b, i)
<1> DEFINE A  == If("resourceType", f)
           T  == <<"tier">>
           B  == If("billing", b)
           S  == If("settings", s)
           u  == A \o T
           v  == u \o B
           t  == Tier(f)
           na == IF f THEN 1 ELSE 0
           nb == IF b THEN 1 ELSE 0
           ns == IF s THEN 1 ELSE 0
<1>1. /\ A \in Seq(StepNames) /\ Len(A) = na /\ (f => A[1] = "resourceType")
      /\ T \in Seq(StepNames) /\ Len(T) = 1 /\ T[1] = "tier"
      /\ B \in Seq(StepNames) /\ Len(B) = nb /\ (b => B[1] = "billing")
      /\ S \in Seq(StepNames) /\ Len(S) = ns /\ (s => S[1] = "settings")
  BY IfOne DEF StepNames
<1>2. na \in {0, 1} /\ nb \in {0, 1} /\ ns \in {0, 1}
  OBVIOUS
<1>9. (nb = 1 => b = TRUE) /\ (nb = 0 => b = FALSE)
  OBVIOUS
<1>10. t = na + 1
  BY DEF Tier
<1>11. /\ Len(A) = na /\ (na = 1 => A[1] = "resourceType") /\ Len(T) = 1 /\ T[1] = "tier"
       /\ Len(B) = nb /\ (nb = 1 => B[1] = "billing") /\ Len(S) = ns /\ (ns = 1 => S[1] = "settings")
  <2>1. na = 1 => A[1] = "resourceType"
    BY <1>1
  <2>2. nb = 1 => B[1] = "billing"
    BY <1>1
  <2>3. ns = 1 => S[1] = "settings"
    BY <1>1
  <2> QED BY <1>1, <2>1, <2>2, <2>3
<1>3. Listed(f, b, s) = v \o S
  BY DEF Listed
<1> HIDE DEF A, B, S, T, t, na, nb, ns
<1>4. /\ u \in Seq(StepNames) /\ Len(u) = t
      /\ \A i \in 1..t : u[i] = IF i < t THEN "resourceType" ELSE "tier"
  <2>1. /\ u \in Seq(StepNames) /\ Len(u) = Len(A) + Len(T)
        /\ \A i \in 1..(Len(A) + Len(T)) : u[i] = IF i <= Len(A) THEN A[i] ELSE T[i - Len(A)]
    BY <1>1, Joined
  <2> QED BY <1>2, <1>10, <1>11, <2>1
<1> HIDE DEF u
<1>5. /\ v \in Seq(StepNames) /\ Len(v) = t + nb
      /\ \A i \in 1..(t + nb) : v[i] = IF i <= t THEN u[i] ELSE "billing"
  <2>1. /\ v \in Seq(StepNames) /\ Len(v) = Len(u) + Len(B)
        /\ \A i \in 1..(Len(u) + Len(B)) : v[i] = IF i <= Len(u) THEN u[i] ELSE B[i - Len(u)]
    BY <1>1, <1>4, Joined
  <2> QED BY <1>2, <1>4, <1>10, <1>11, <2>1
<1> HIDE DEF v
<1>6. /\ Len(v \o S) = t + nb + ns
      /\ \A i \in 1..(t + nb + ns) : (v \o S)[i] = IF i <= t + nb THEN v[i] ELSE "settings"
  <2>1. /\ Len(v \o S) = Len(v) + Len(S)
        /\ \A i \in 1..(Len(v) + Len(S)) : (v \o S)[i] = IF i <= Len(v) THEN v[i] ELSE S[i - Len(v)]
    BY <1>1, <1>5, Joined
  <2> QED BY <1>2, <1>5, <1>10, <1>11, <2>1
<1>7. LenOf(f, b, s) = t + nb + ns
  BY DEF LenOf, t, nb, ns
<1>8. ASSUME NEW i \in 1..(t + nb + ns)
      PROVE  (v \o S)[i] = StepOf(f, b, i)
  <2>1. CASE i <= t
    <3>1. (v \o S)[i] = IF i < t THEN "resourceType" ELSE "tier"
      BY <1>2, <1>4, <1>5, <1>6, <1>10, <2>1
    <3>2. i < t \/ (i = t /\ ~(i < t))
      BY <1>2, <1>10, <2>1
    <3> QED BY <3>1, <3>2, Zenon DEF StepOf, t
  <2>2. CASE i > t /\ nb = 1 /\ i = t + 1
    <3>1. (v \o S)[i] = "billing"
      BY <1>2, <1>4, <1>5, <1>6, <1>10, <2>2
    <3>2. ~(i < t) /\ i # t
      BY <1>2, <1>10, <2>2
    <3>3. b
      BY <1>9, <2>2
    <3> QED BY <2>2, <3>1, <3>2, <3>3, Zenon DEF StepOf, t
  <2>3. CASE i > t /\ ~(nb = 1 /\ i = t + 1)
    <3>1. (v \o S)[i] = "settings"
      BY <1>2, <1>4, <1>5, <1>6, <1>10, <2>3
    <3>2. ~(i < t) /\ i # t
      BY <1>2, <1>10, <2>3
    <3>3. b = FALSE \/ i # t + 1
      BY <1>2, <1>9, <2>3
    <3> QED BY <3>1, <3>2, <3>3, Zenon DEF StepOf, t
  <2>4. i <= t \/ i > t
    BY <1>2, <1>10
  <2> QED BY <2>1, <2>2, <2>3, <2>4, Zenon
<1> QED BY <1>3, <1>6, <1>7, <1>8

\* So in a state, before a step as after it.
Shape ==
  /\ TierIndex \in {1, 2}
  /\ Len(Steps) = TierIndex + (IF NeedsBilling THEN 1 ELSE 0) + (IF form.type \in Catalog THEN 1 ELSE 0)
  /\ \A i \in 1..Len(Steps) :
       Steps[i] = IF i < TierIndex THEN "resourceType"
                  ELSE IF i = TierIndex THEN "tier"
                  ELSE IF NeedsBilling /\ i = TierIndex + 1 THEN "billing" ELSE "settings"

LEMMA StepsShape == Shape /\ Shape'
<1>1. Shape
  <2> DEFINE f == url.type = ""
             s == form.type \in Catalog
             b == NeedsBilling
  <2>1. Steps = Listed(f, b, s)
    BY DEF Steps, Listed
  <2>2. f \in BOOLEAN /\ b \in BOOLEAN /\ s \in BOOLEAN
    BY DEF NeedsBilling
  <2>3. TierIndex = Tier(f)
    BY DEF TierIndex, Tier
  <2> HIDE DEF f, b, s
  <2>4. /\ Len(Steps) = LenOf(f, b, s)
        /\ \A i \in 1..LenOf(f, b, s) : Steps[i] = StepOf(f, b, i)
    BY <2>1, <2>2, ListedShape
  <2>5. Tier(f) \in {1, 2}
    BY DEF Tier
  <2> QED BY <2>3, <2>4, <2>5 DEF Shape, LenOf, StepOf, b, s
<1>2. Shape'
  <2> DEFINE f == url'.type = ""
             s == form'.type \in Catalog
             b == NeedsBilling'
  <2>1. Steps' = Listed(f, b, s)
    BY DEF Steps, Listed
  <2>2. f \in BOOLEAN /\ b \in BOOLEAN /\ s \in BOOLEAN
    BY DEF NeedsBilling
  <2>3. TierIndex' = Tier(f)
    BY DEF TierIndex, Tier
  <2> HIDE DEF f, b, s
  <2>4. /\ Len(Steps') = LenOf(f, b, s)
        /\ \A i \in 1..LenOf(f, b, s) : Steps'[i] = StepOf(f, b, i)
    BY <2>1, <2>2, ListedShape
  <2>5. Tier(f) \in {1, 2}
    BY DEF Tier
  <2> QED BY <2>3, <2>4, <2>5 DEF Shape, LenOf, StepOf, b, s
<1> QED BY <1>1, <1>2

USE DEF flowVars, queryVars, modalVars, createVars

\* Numbers: what the places below are compared by, away from the steps' names.
LEMMA SumFits ==
  ASSUME NEW t \in {1, 2}, NEW b, NEW c
  PROVE  LET n == t + (IF b THEN 1 ELSE 0) + (IF c THEN 1 ELSE 0)
         IN  n \in Nat /\ n >= t
<1> DEFINE nb == IF b THEN 1 ELSE 0
           nc == IF c THEN 1 ELSE 0
<1>1. nb \in {0, 1} /\ nc \in {0, 1}
  OBVIOUS
<1> HIDE DEF nb, nc
<1>2. t + nb + nc \in Nat /\ t + nb + nc >= t
  BY <1>1
<1> QED BY <1>2 DEF nb, nc

LEMMA Clamped ==
  ASSUME NEW n \in Nat, NEW i \in Nat, n >= 1, i >= 1
  PROVE  LET p == IF i > n THEN n ELSE i IN p \in 1..n /\ p <= i
OBVIOUS

LEMMA InRange ==
  ASSUME NEW n \in Nat, NEW i \in 1..n
  PROVE  i \in Nat /\ i >= 1 /\ i <= n
OBVIOUS

LEMMA Between ==
  ASSUME NEW i \in Nat, NEW p \in Nat, NEW s \in Nat, NEW t \in Nat, p <= i, p > t
  PROVE  i > t /\ ~(i <= t) /\ (i > s \/ s > t)
OBVIOUS

LEMMA ThenAfter == ASSUME NEW m \in Nat, NEW n \in Nat, ~(n < m), n # m PROVE n > m
OBVIOUS

LEMMA AfterIs == ASSUME NEW m \in Nat, NEW n \in Nat, n > m PROVE ~(n < m) /\ n # m
OBVIOUS

LEMMA NotAfter == ASSUME NEW m \in Nat, NEW n \in Nat, ~(n > m) PROVE n < m \/ n = m
OBVIOUS

LEMMA NotCut ==
  ASSUME NEW s \in Nat, NEW t \in Nat, NEW n \in Nat, n >= t, ~(s > t),
         NEW q, q = IF s > n THEN n ELSE s
  PROVE  q = s
OBVIOUS

LEMMA StillAfter ==
  ASSUME NEW s \in Nat, NEW t \in Nat, NEW n \in Nat, n > t, s > t,
         NEW q, q = IF s > n THEN n ELSE s
  PROVE  q > t
OBVIOUS

LEMMA OneMore ==
  ASSUME NEW t \in Nat, NEW b, NEW n, n = t + (IF b THEN 1 ELSE 0) + 1
  PROVE  n \in Nat /\ n > t
<1>1. CASE b
  BY <1>1
<1>2. CASE ~b
  BY <1>2
<1> QED BY <1>1, <1>2

LEMMA NotBefore == ASSUME NEW m \in Nat, NEW n \in Nat, ~(n + 1 <= m) PROVE ~(n < m)
OBVIOUS

\* Nobody is before the first step or past the last.
LEMMA Lengths ==
  /\ Len(Steps) \in Nat /\ Len(Steps) >= TierIndex /\ TierIndex \in {1, 2}
  /\ Len(Steps') \in Nat /\ Len(Steps') >= TierIndex' /\ TierIndex' \in {1, 2}
<1>1. /\ TierIndex \in {1, 2}
      /\ Len(Steps) = TierIndex + (IF NeedsBilling THEN 1 ELSE 0) + (IF form.type \in Catalog THEN 1 ELSE 0)
  BY StepsShape, Zenon DEF Shape
<1>2. /\ TierIndex' \in {1, 2}
      /\ Len(Steps') = TierIndex' + (IF NeedsBilling' THEN 1 ELSE 0) + (IF form'.type \in Catalog THEN 1 ELSE 0)
  BY StepsShape, Zenon DEF Shape
<1>3. Len(Steps) \in Nat /\ Len(Steps) >= TierIndex
  BY <1>1, SumFits, Zenon
<1>4. Len(Steps') \in Nat /\ Len(Steps') >= TierIndex'
  BY <1>2, SumFits, Zenon
<1> QED BY <1>1, <1>2, <1>3, <1>4

LEMMA StepIsNat ==
  ASSUME step \in 1..Len(Steps)
  PROVE  step \in Nat /\ step >= 1 /\ step <= Len(Steps) /\ TierIndex \in {1, 2} /\ TierIndex \in Nat
BY Lengths

LEMMA InPlaceIsNat ==
  ASSUME WizardInv
  PROVE  step \in Nat /\ step >= 1 /\ ~(step > step) /\ step + 1 \in Nat /\ step + 1 >= 1
<1>1. step \in Nat /\ step >= 1
  BY StepIsNat DEF WizardInv, InPlace
<1> QED BY <1>1

\* What the place says of the form.
LEMMA PlaceFits ==
  ASSUME step \in 1..Len(Steps)
  PROVE  /\ step \in Nat /\ TierIndex \in {1, 2} /\ Len(Steps) \in Nat
         /\ CurrentStep = "resourceType" <=> step < TierIndex
         /\ CurrentStep = "tier" <=> step = TierIndex
         /\ CurrentStep = "billing" => step > TierIndex
         /\ CurrentStep = "settings" => step > TierIndex
         /\ step = Len(Steps) /\ form.type \in Catalog => CurrentStep = "settings"
<1>1. /\ TierIndex \in {1, 2}
      /\ Len(Steps) = TierIndex + (IF NeedsBilling THEN 1 ELSE 0) + (IF form.type \in Catalog THEN 1 ELSE 0)
      /\ CurrentStep = IF step < TierIndex THEN "resourceType"
                       ELSE IF step = TierIndex THEN "tier"
                       ELSE IF NeedsBilling /\ step = TierIndex + 1 THEN "billing" ELSE "settings"
  BY StepsShape DEF Shape, CurrentStep
<1>2. step \in Nat /\ Len(Steps) \in Nat
  BY <1>1
<1>3. step = Len(Steps) /\ form.type \in Catalog => CurrentStep = "settings"
  BY <1>1
<1> QED BY <1>1, <1>2, <1>3

\* The effects leave an index that is in the list.
LEMMA Settled ==
  ASSUME NEW i \in Nat, i >= 1, Settle(i)
  PROVE  step' \in 1..Len(Steps') /\ step' <= i /\ shown' \in {shown, ""}
<1>1. Len(Steps') \in Nat /\ Len(Steps') >= 1
  BY Lengths
<1>2. /\ step' = IF i > Len(Steps') THEN Len(Steps') ELSE i
      /\ shown' \in {shown, ""}
  BY Zenon DEF Settle
<1>3. step' \in 1..Len(Steps') /\ step' <= i
  BY <1>1, <1>2, Clamped, Zenon
<1> QED BY <1>2, <1>3

\* The list is the same while nothing it depends on changes.
LEMMA SameSteps ==
  ASSUME UNCHANGED <<url, status, asking>>, form'.type = form.type, form'.sku = form.sku
  PROVE  Steps' = Steps
<1>1. NeedsBilling' <=> NeedsBilling
  BY DEF NeedsBilling, Loading, Known
<1> QED BY <1>1 DEF Steps, If


\* Something happens on the page, and the effects settle the place.
LEMMA OpenFits ==
  ASSUME WizardInv, site' = "open", url' = url,
         FieldsFit', SkuFits', ProjectFits', SpinnerEnds',
         form'.type \in {form.type} \cup Catalog,
         project # NoProject => project' # NoProject,
         modal'.open \/ modal'.paying # None => Past,
         asking' = "next" \/ making' = "next" => form'.type \in Catalog,
         NEW i \in Nat, i >= 1, Settle(i),
         i > step /\ ~(i <= TierIndex) => project' # NoProject /\ form'.type \in Catalog
  PROVE  WizardInv'
<1>1. step' \in 1..Len(Steps') /\ step' <= i /\ shown' \in {shown, ""}
  BY Settled
<1>2. InPlace'
  BY <1>1 DEF WizardInv, InPlace
<1>3. TierIndex' = TierIndex /\ TierIndex \in Nat /\ step \in Nat /\ step' \in Nat
  <2>1. TierIndex' = TierIndex
    BY DEF TierIndex
  <2>2. step' \in Nat
    BY <1>1, Lengths, InRange, Zenon
  <2> QED BY <2>1, <2>2, StepIsNat, Zenon DEF WizardInv, InPlace
<1>4. Past => project' # NoProject /\ form'.type \in Catalog
  BY DEF WizardInv, PastFits
<1>5. step' > TierIndex' => project' # NoProject /\ form'.type \in Catalog
  <2>1. step' > TierIndex' => ~(i <= TierIndex) /\ (i > step \/ step > TierIndex)
    BY <1>1, <1>3, Between, Zenon
  <2> QED BY <1>4, <2>1 DEF Past
<1>6. PastFits'
  BY <1>4, <1>5 DEF PastFits, Past
<1>7. Closed'
  BY DEF Closed
<1> QED BY <1>2, <1>6, <1>7 DEF WizardInv

\* Something happens on the page and its list of steps is as it was.
LEMMA StayFits ==
  ASSUME WizardInv, site = "open", UNCHANGED <<site, url, project, projects, step, status, asking>>,
         FieldsFit', form'.type = form.type, form'.sku = form.sku,
         shown' \in Catalog \cup {""}, SpinnerEnds',
         modal'.open \/ modal'.paying # None => Past,
         making' # None => projects # None,
         making' = "next" => form.type \in Catalog
  PROVE  WizardInv'
<1>1. Steps' = Steps
  BY SameSteps
<1>2. InPlace'
  BY <1>1 DEF WizardInv, InPlace
<1>3. TierIndex' = TierIndex
  BY DEF TierIndex
<1>4. PastFits'
  BY <1>3, Zenon DEF WizardInv, PastFits, Past
<1>5. SkuFits' /\ ProjectFits' /\ Closed'
  BY DEF WizardInv, SkuFits, ProjectFits, Closed
<1> QED BY <1>2, <1>4, <1>5 DEF WizardInv

\* Nothing happens to the page.
LEMMA SameFits ==
  ASSUME WizardInv,
         UNCHANGED <<site, flowVars, step, making, status, asking, modalVars, shown>>
  PROVE  WizardInv'
<1>1. Steps' = Steps
  BY SameSteps
<1>2. TierIndex' = TierIndex
  BY DEF TierIndex
<1>3. FieldsFit' /\ InPlace' /\ Closed'
  BY <1>1 DEF WizardInv, FieldsFit, InPlace, Closed
<1>4. PastFits'
  BY <1>2, Zenon DEF WizardInv, PastFits, Past
<1>5. SkuFits' /\ ProjectFits' /\ SpinnerEnds'
  BY DEF WizardInv, SkuFits, ProjectFits, SpinnerEnds
<1> QED BY <1>3, <1>4, <1>5 DEF WizardInv
-----------------------------------------------------------------------------
(* The operations.                                                           *)
LEMMA CatalogFits ==
  /\ Graph \in Catalog /\ Secret \in Catalog /\ Graph # Secret /\ "" \notin Catalog
  /\ SkusOf[Graph] # <<>> /\ SkusOf[Graph][1] = "standard" /\ SkusOf[Secret] = <<>>
  /\ IsSku(Graph, "standard")
  /\ \A s : IsSku(Graph, s) => s \in {"standard", "free"}
<1>1. /\ Graph \in Catalog /\ Secret \in Catalog /\ Graph # Secret /\ "" \notin Catalog
  BY DEF Catalog, Graph, Secret
<1>2. SkusOf[Graph] = <<"standard", "free">> /\ SkusOf[Secret] = <<>>
  BY <1>1, Zenon DEF SkusOf
<1> DEFINE g == <<"standard", "free">>
<1>3. Len(g) = 2 /\ g[1] = "standard" /\ g[2] = "free" /\ g # <<>>
  OBVIOUS
<1>4. g[1] = "standard" /\ \A i \in 1..Len(g) : g[i] \in {"standard", "free"}
  BY <1>3
<1>5. 1 \in 1..Len(g)
  BY <1>3
<1> HIDE DEF g
<1> QED BY <1>1, <1>2, <1>3, <1>4, <1>5, Zenon DEF IsSku, g

\* A sku fits its type.
LEMMA ValidFits ==
  ASSUME NEW t \in Catalog, NEW s
  PROVE  /\ IsSku(t, s) => IsSkuValidForType(t, s)
         /\ IsSkuValidForType(t, SkusOf[t][1])
         /\ SkusOf[t] = <<>> => IsSkuValidForType(t, s)
         /\ SkusOf[t] # <<>> => SkusOf[t][1] = "standard"
<1>1. t = Graph \/ t = Secret
  BY DEF Catalog
<1>2. t = Graph => IsSku(t, SkusOf[t][1])
  BY CatalogFits
<1> QED BY <1>1, <1>2, CatalogFits, Zenon DEF IsSkuValidForType

LEMMA EditFits ==
  ASSUME WizardInv, AtPage, NEW f \in Form, Edit(f), Settle(step),
         f.type \in Catalog => IsSkuValidForType(f.type, f.sku),
         f.type \in {form.type} \cup Catalog
  PROVE  WizardInv'
<1>1. /\ form' = f /\ site = "open"
      /\ UNCHANGED <<site, url, project, projects, making, asking, modal, setups>>
  BY DEF Edit, AtPage
<1>2. FieldsFit'
  BY <1>1 DEF WizardInv, FieldsFit
<1>3. SkuFits' /\ ProjectFits' /\ SpinnerEnds'
  BY <1>1, Zenon DEF WizardInv, SkuFits, ProjectFits, SpinnerEnds
<1>4. step \in Nat /\ step >= 1 /\ ~(step > step)
  BY InPlaceIsNat
<1>5. (modal'.open \/ modal'.paying # None) => Past
  BY <1>1 DEF Past
<1>6. (asking' = "next" \/ making' = "next") => f.type \in Catalog
  BY <1>1 DEF WizardInv, PastFits
<1> QED BY <1>1, <1>2, <1>3, <1>4, <1>5, <1>6, OpenFits

LEMMA SelectTypeFits == ASSUME WizardInv, NEW t \in Catalog, SelectType(t) PROVE WizardInv'
<1> DEFINE s == IF SkusOf[t] = <<>> THEN form.sku ELSE SkusOf[t][1]
           f == [form EXCEPT !.type = t, !.sku = s]
<1>1. AtPage /\ Edit(f) /\ Settle(step)
  BY DEF SelectType, OffersTypes
<1>2. s \in FormSku /\ IsSkuValidForType(t, s)
  <2>1. form.sku \in FormSku
    BY DEF WizardInv, FieldsFit, Form
  <2> QED BY <2>1, ValidFits DEF FormSku
<1> HIDE DEF s
<1>3. f \in Form /\ f.type = t /\ f.sku = s
  BY <1>2 DEF WizardInv, FieldsFit, Form, FormType
<1> HIDE DEF f
<1> QED BY <1>1, <1>2, <1>3, EditFits

LEMMA EditNameFits == ASSUME WizardInv, EditName PROVE WizardInv'
<1> DEFINE f == [form EXCEPT !.named = TRUE]
<1>1. AtPage /\ Edit(f) /\ Settle(step)
  BY DEF EditName
<1>2. f \in Form /\ f.type = form.type /\ f.sku = form.sku
  BY DEF WizardInv, FieldsFit, Form
<1> HIDE DEF f
<1> QED BY <1>1, <1>2, EditFits DEF WizardInv, SkuFits

LEMMA SelectSkuFits ==
  ASSUME WizardInv, NEW s \in {"standard", "free"}, SelectSku(s) PROVE WizardInv'
<1> DEFINE f == [form EXCEPT !.sku = s]
<1>1. AtPage /\ Edit(f) /\ Settle(step) /\ form.type \in Catalog /\ IsSku(form.type, s)
  BY DEF SelectSku, OffersSku
<1>2. f \in Form /\ f.type = form.type /\ f.sku = s
  BY DEF WizardInv, FieldsFit, Form, FormSku
<1>3. IsSkuValidForType(form.type, s)
  BY <1>1, ValidFits
<1> HIDE DEF f
<1> QED BY <1>1, <1>2, <1>3, EditFits

LEMMA EditSettingsFits == ASSUME WizardInv, EditSettings PROVE WizardInv'
<1>1. /\ site = "open" /\ shown' = form.type /\ CurrentStep = "settings"
      /\ UNCHANGED <<site, url, project, projects, step, making, status, asking, modal, setups>>
  BY DEF EditSettings, Edit, AtPage
<1>2. form' \in Form /\ form'.type = form.type /\ form'.sku = form.sku
  <2> DEFINE f == [form EXCEPT !.settings = Secret]
  <2>1. form' = f \/ form' = form
    BY DEF EditSettings, Edit
  <2>2. f \in Form /\ f.type = form.type /\ f.sku = form.sku
    BY DEF WizardInv, FieldsFit, Form
  <2> QED BY <2>1, <2>2 DEF WizardInv, FieldsFit
<1>3. form.type \in Catalog
  BY <1>1, PlaceFits DEF WizardInv, InPlace, PastFits, Past
<1>4. FieldsFit'
  BY <1>1, <1>2 DEF WizardInv, FieldsFit
<1>5. SpinnerEnds' /\ ((modal'.open \/ modal'.paying # None) => Past)
  BY <1>1, Zenon DEF WizardInv, SpinnerEnds, Past
<1>6. (making' # None => projects # None) /\ (making' = "next" => form.type \in Catalog)
  BY <1>1, <1>3 DEF WizardInv, ProjectFits
<1> QED BY <1>1, <1>2, <1>3, <1>4, <1>5, <1>6, StayFits

\* What can be gone on from the configuration or from behind it.
LEMMA GoOnFits ==
  ASSUME WizardInv, CanGoNext, ~(step < TierIndex)
  PROVE  form.type \in Catalog
<1>1. CASE step = TierIndex
  <2>1. CurrentStep = "tier"
    BY <1>1, PlaceFits DEF WizardInv, InPlace
  <2> QED BY <2>1, Zenon DEF CanGoNext, IsSkuValidForType
<1>2. CASE step # TierIndex
  <2>1. step \in Nat /\ TierIndex \in Nat
    BY StepIsNat, Zenon DEF WizardInv, InPlace
  <2>2. step > TierIndex
    BY <1>2, <2>1, ThenAfter, Zenon
  <2> QED BY <2>2 DEF WizardInv, PastFits, Past
<1> QED BY <1>1, <1>2

LEMMA GoesOnFits ==
  ASSUME WizardInv, ~(step < TierIndex)
  PROVE  GoesOn \in Moves /\ (GoesOn = "next" => form.type \in Catalog)
<1>1. GoesOn \in Moves /\ (GoesOn = "next" => CanGoNext)
  BY DEF GoesOn, Moves
<1> QED BY <1>1, GoOnFits

LEMMA PastIsAfter ==
  ASSUME WizardInv, CurrentStep \in {"tier", "billing", "settings"}
  PROVE  /\ ~(step < TierIndex)
         /\ CurrentStep # "tier" => Past /\ project # NoProject /\ form.type \in Catalog
<1>1. /\ CurrentStep # "resourceType"
      /\ CurrentStep # "tier" => step > TierIndex
  <2>1. CurrentStep # "resourceType"
    OBVIOUS
  <2> QED BY <2>1, PlaceFits, Zenon DEF WizardInv, InPlace
<1>2. ~(step < TierIndex)
  BY <1>1, PlaceFits DEF WizardInv, InPlace
<1>3. CurrentStep # "tier" => Past
  BY <1>1, Zenon DEF Past
<1> QED BY <1>2, <1>3 DEF WizardInv, PastFits

\* Only the place and what is asked may change.
LEMMA MovesFit ==
  ASSUME WizardInv, site = "open", UNCHANGED <<site, flowVars, making, modalVars>>,
         asking' \in Moves \cup {None}, asking' # None => project # NoProject,
         asking' = "next" => form.type \in Catalog,
         NEW i \in Nat, i >= 1, Settle(i),
         i > step /\ ~(i <= TierIndex) => project # NoProject /\ form.type \in Catalog
  PROVE  WizardInv'
<1>1. FieldsFit'
  BY DEF WizardInv, FieldsFit
<1>2. SkuFits' /\ ProjectFits' /\ SpinnerEnds'
  BY Zenon DEF WizardInv, SkuFits, ProjectFits, SpinnerEnds
<1>3. (modal'.open \/ modal'.paying # None) => Past
  BY DEF Past
<1>4. (asking' = "next" \/ making' = "next") => form'.type \in Catalog
  BY DEF WizardInv, PastFits
<1> QED BY <1>1, <1>2, <1>3, <1>4, OpenFits

LEMMA StatusFits ==
  ASSUME WizardInv, NEW s, StatusAnswered(s)
  PROVE  WizardInv'
<1> DEFINE i == IF asking = "next" THEN step + 1 ELSE step
<1>1. step \in Nat /\ step >= 1 /\ ~(step > step) /\ asking # None /\ site = "open"
  BY InPlaceIsNat DEF StatusAnswered
<1>2. i \in Nat /\ i >= 1 /\ Settle(i)
  BY <1>1, InPlaceIsNat DEF StatusAnswered
<1>3. i > step => project # NoProject /\ form.type \in Catalog
  <2>1. i > step => asking = "next"
    BY <1>1
  <2> QED BY <1>1, <2>1 DEF WizardInv, PastFits, ProjectFits
<1>4. asking' = None /\ UNCHANGED <<site, flowVars, making, modalVars>>
  BY DEF StatusAnswered
<1>5. asking' # "next"
  BY <1>4, NoneAssumption
<1> HIDE DEF i
<1> QED BY <1>1, <1>2, <1>3, <1>4, <1>5, MovesFit

LEMMA FocusFits == ASSUME WizardInv, Focus PROVE WizardInv'
<1>1. /\ site = "open" /\ asking' = "nothing" /\ project # NoProject /\ Settle(step)
      /\ UNCHANGED <<site, flowVars, making, modalVars>>
  BY DEF Focus
<1>2. "nothing" \in Moves /\ "nothing" # "next"
  BY DEF Moves
<1> QED BY <1>1, <1>2, InPlaceIsNat, MovesFit

LEMMA WalkFits == ASSUME WizardInv, GoNext \/ HandleBack PROVE WizardInv'
<1>1. step \in Nat /\ step >= 1
  BY InPlaceIsNat
<1>2. PICK i \in Nat : /\ i >= 1 /\ Move(i) /\ AtPage
                       /\ i > step => NextOffered /\ i = step + 1
  <2>1. CASE GoNext
    <3>1. Move(step + 1) /\ AtPage /\ NextOffered
      BY <2>1 DEF GoNext, NextOffered
    <3> QED BY <3>1, InPlaceIsNat
  <2>2. CASE HandleBack
    <3>1. step - 1 \in Nat /\ step - 1 >= 1 /\ ~(step - 1 > step) /\ Move(step - 1) /\ AtPage
      BY <1>1, <2>2 DEF HandleBack
    <3> QED BY <3>1
  <2> QED BY <2>1, <2>2
<1>3. ASSUME i > step, ~(i <= TierIndex) PROVE project # NoProject /\ form.type \in Catalog
  <2>1. NextOffered /\ i = step + 1
    BY <1>2, <1>3
  <2>2. TierIndex \in Nat
    BY StepIsNat, Zenon DEF WizardInv, InPlace
  <2>3. ~(step < TierIndex)
    BY <1>1, <1>3, <2>1, <2>2, NotBefore, Zenon
  <2>4. CASE step = TierIndex
    <3>1. CurrentStep = "tier"
      BY <2>4, PlaceFits DEF WizardInv, InPlace
    <3>2. project # NoProject /\ CanGoNext
      BY <2>1, <3>1 DEF NextOffered
    <3> QED BY <2>3, <3>2, GoOnFits
  <2>5. CASE step # TierIndex
    <3>1. step > TierIndex
      BY <1>1, <2>2, <2>3, <2>5, ThenAfter, Zenon
    <3> QED BY <3>1 DEF WizardInv, PastFits, Past
  <2> QED BY <2>4, <2>5
<1>4. UNCHANGED <<site, flowVars, making, modalVars, asking>> /\ Settle(i) /\ site = "open"
  BY <1>2 DEF Move, AtPage
<1>5. /\ asking \in Moves \cup {None} /\ (asking # None => project # NoProject)
      /\ asking = "next" => form.type \in Catalog
  BY DEF WizardInv, FieldsFit, ProjectFits, PastFits
<1> QED BY <1>2, <1>3, <1>4, <1>5, MovesFit

\* Another project comes with nothing known of it and nothing to go on.
LEMMA SelectFits ==
  ASSUME NEW p \in Projects \cup {NoProject}, NEW b, Select(p, b)
  PROVE  /\ project' = p /\ asking' \in Moves \cup {None} /\ asking' # "next"
         /\ asking' # None => p # NoProject
BY NoneAssumption DEF Select, Moves

LEMMA ListFits == ASSUME WizardInv, projects # None PROVE projects \subseteq Projects
BY DEF WizardInv, FieldsFit

LEMMA ProjectsArriveFits == ASSUME WizardInv, ProjectsArrive PROVE WizardInv'
<1>1. PICK ps \in SUBSET {First}, b \in BillingStates :
        projects' = ps /\ Select(IF ps = {} THEN NoProject ELSE First, b)
  BY DEF ProjectsArrive
<1>2. /\ site = "open" /\ projects = None /\ Settle(step)
      /\ UNCHANGED <<site, url, form, making, modal, setups>>
  BY DEF ProjectsArrive
<1> DEFINE p == IF ps = {} THEN NoProject ELSE First
<1>3. ps \in SUBSET Projects /\ ps # None /\ p \in Projects \cup {NoProject} /\ Select(p, b)
  BY <1>1, WizardBounds, NoneAssumption
<1> HIDE DEF p
<1>4. /\ project' = p /\ asking' \in Moves \cup {None} /\ asking' # "next"
      /\ asking' # None => p # NoProject
  BY <1>3, SelectFits
<1>5. project = NoProject /\ making = None
  BY <1>2 DEF WizardInv, ProjectFits
<1>6. FieldsFit'
  BY <1>1, <1>2, <1>3, <1>4 DEF WizardInv, FieldsFit
<1>7. SkuFits' /\ SpinnerEnds'
  BY <1>2, Zenon DEF WizardInv, SkuFits, SpinnerEnds
<1>8. ProjectFits'
  BY <1>1, <1>2, <1>3, <1>4, <1>5 DEF ProjectFits
<1>9. (modal'.open \/ modal'.paying # None) => Past
  BY <1>2 DEF Past
<1>10. (asking' = "next" \/ making' = "next") => form'.type \in Catalog
  BY <1>2, <1>4 DEF WizardInv, PastFits
<1> QED BY <1>2, <1>5, <1>6, <1>7, <1>8, <1>9, <1>10, InPlaceIsNat, OpenFits

LEMMA SelectProjectFits == ASSUME WizardInv, NEW p \in Projects, SelectProject(p) PROVE WizardInv'
<1>1. PICK b \in BillingStates : Select(p, b)
  BY DEF SelectProject
<1>2. /\ site = "open" /\ projects # None /\ Settle(step)
      /\ UNCHANGED <<site, url, form, projects, making, modal, setups>>
  BY DEF SelectProject, ChoosesProject, AtPage
<1>3. /\ project' = p /\ asking' \in Moves \cup {None} /\ asking' # "next"
      /\ p # NoProject
  BY <1>1, SelectFits, WizardBounds
<1>4. FieldsFit'
  BY <1>2, <1>3 DEF WizardInv, FieldsFit
<1>5. SkuFits' /\ SpinnerEnds'
  BY <1>2, Zenon DEF WizardInv, SkuFits, SpinnerEnds
<1>6. ProjectFits'
  BY <1>2, <1>3 DEF ProjectFits
<1>7. (modal'.open \/ modal'.paying # None) => Past
  BY <1>2 DEF Past
<1>8. (asking' = "next" \/ making' = "next") => form'.type \in Catalog
  BY <1>2, <1>3 DEF WizardInv, PastFits
<1> QED BY <1>2, <1>3, <1>4, <1>5, <1>6, <1>7, <1>8, InPlaceIsNat, OpenFits

\* A set-up attempt begins, beside those under way.
LEMMA HandleSetupFits ==
  ASSUME setups \in [Attempts -> Nat], NEW p \in Projects, HandleSetup(p)
  PROVE  setups' \in [Attempts -> Nat] /\ \E a \in Attempts : setups'[a] > 0
<1> DEFINE a == [customer |-> FALSE, of |-> p]
<1>1. a \in Attempts
  BY DEF Attempts
<1>2. setups' = [setups EXCEPT ![a] = @ + 1]
  BY DEF HandleSetup
<1> HIDE DEF a
<1>3. setups[a] \in Nat
  BY <1>1
<1>4. setups[a] + 1 \in Nat /\ setups[a] + 1 > 0
  BY <1>3
<1> QED BY <1>1, <1>2, <1>4

LEMMA ProjectCreatedFits == ASSUME WizardInv, ProjectCreated PROVE WizardInv'
<1> DEFINE i == IF making = "next" THEN step + 1 ELSE step
           m == [NoModal EXCEPT !.open = TRUE, !.paying = modal.paying]
<1>1. PICK p \in Projects \ projects :
        /\ Select(p, NothingSetUp) /\ projects' = projects \cup {p}
        /\ IF modal.open THEN HandleSetup(p) /\ modal' = m ELSE UNCHANGED modalVars
  BY DEF ProjectCreated
<1>2. /\ site = "open" /\ making # None /\ making' = None /\ Settle(i)
      /\ UNCHANGED <<site, url, form>>
  BY DEF ProjectCreated
<1>3. p \in Projects /\ p # NoProject
  BY WizardBounds
<1>4. projects' \in SUBSET Projects /\ projects' # None
  <2>1. projects # None
    BY <1>2 DEF WizardInv, ProjectFits
  <2> QED BY <1>1, <1>3, <2>1, ListFits, NoneAssumption
<1>5. project' = p /\ asking' \in Moves \cup {None} /\ asking' # "next"
  BY <1>1, <1>3, SelectFits
<1>6. /\ modal' \in Modal /\ setups' \in [Attempts -> Nat] /\ SpinnerEnds'
      /\ (modal'.open \/ modal'.paying # None) => Past
  <2>1. CASE modal.open
    <3>1. HandleSetup(p) /\ modal' = m
      BY <1>1, <2>1
    <3>2. m \in Modal
      BY DEF NoModal, WizardInv, FieldsFit, Modal
    <3>3. setups' \in [Attempts -> Nat] /\ \E a \in Attempts : setups'[a] > 0
      BY <1>3, <3>1, HandleSetupFits DEF WizardInv, FieldsFit
    <3>4. SpinnerEnds'
      BY <3>3, Zenon DEF SpinnerEnds
    <3> QED BY <2>1, <3>1, <3>2, <3>3, <3>4, Zenon DEF Past
  <2>2. CASE ~modal.open
    <3>1. modal' = modal /\ setups' = setups
      BY <1>1, <2>2
    <3> QED BY <3>1, Zenon DEF Past, WizardInv, SpinnerEnds, FieldsFit
  <2> QED BY <2>1, <2>2
<1> HIDE DEF m
<1>7. FieldsFit'
  BY <1>2, <1>3, <1>4, <1>5, <1>6 DEF WizardInv, FieldsFit
<1>8. SkuFits' /\ ProjectFits'
  BY <1>2, <1>3, <1>4, <1>5, Zenon DEF WizardInv, SkuFits, ProjectFits
<1>9. ~(asking' = "next" \/ making' = "next")
  BY <1>2, <1>5, NoneAssumption
<1>10. i \in Nat /\ i >= 1 /\ (i > step => form'.type \in Catalog)
  <2>1. making = "next" => form'.type \in Catalog
    BY <1>2 DEF WizardInv, PastFits
  <2> QED BY <2>1, InPlaceIsNat, Zenon
<1> HIDE DEF i
<1> QED BY <1>2, <1>3, <1>5, <1>6, <1>7, <1>8, <1>9, <1>10, OpenFits

LEMMA SubmitProjectFits == ASSUME WizardInv, SubmitProject \/ ProjectRefused PROVE WizardInv'
<1>1. /\ site = "open"
      /\ UNCHANGED <<site, url, form, project, projects, step, status, asking, modal, setups, shown>>
  BY DEF SubmitProject, ProjectRefused, ChoosesProject, AtPage
<1>2. /\ making' \in Moves \cup {None} /\ (making' # None => projects # None)
      /\ making' = "next" => form.type \in Catalog
  <2>1. CASE SubmitProject
    <3>1. making' = GoesOn /\ projects # None /\ CurrentStep = "tier"
      BY <2>1 DEF SubmitProject, ChoosesProject
    <3> QED BY <3>1, PastIsAfter, GoesOnFits
  <2>2. CASE ProjectRefused
    BY <2>2, NoneAssumption DEF ProjectRefused
  <2> QED BY <2>1, <2>2
<1>3. FieldsFit'
  BY <1>1, <1>2 DEF WizardInv, FieldsFit
<1>4. SpinnerEnds' /\ ((modal'.open \/ modal'.paying # None) => Past)
  BY <1>1, Zenon DEF WizardInv, SpinnerEnds, Past
<1>5. shown' \in Catalog \cup {""}
  BY <1>1 DEF WizardInv, InPlace
<1> QED BY <1>1, <1>2, <1>3, <1>4, <1>5, StayFits

\* A page that is not mounted.
Unmounted ==
  /\ site \in {"closed", "left", "created"}
  /\ url = Blank.url /\ form = NewForm /\ step = 1 /\ project = NoProject
  /\ projects = None /\ making = None /\ asking = None
  /\ modal = NoModal /\ setups = Blank.setups /\ shown = ""

LEMMA UnmountedFits == (Unmounted => WizardInv) /\ (Unmounted' => WizardInv')
<1>1. Unmounted => WizardInv
  <2> SUFFICES ASSUME Unmounted PROVE WizardInv
    OBVIOUS
  <2>1. NewForm \in Form /\ NewForm.type = "" /\ NoModal \in Modal /\ ~NoModal.open /\ NoModal.paying = None
    BY DEF NewForm, Form, FormType, FormSku, NoModal, Modal
  <2>2. Blank.setups \in [Attempts -> Nat] /\ Blank.url.type = ""
    BY DEF Blank
  <2>3. FieldsFit
    BY <2>1, <2>2 DEF Unmounted, FieldsFit
  <2>4. TierIndex = 2 /\ 1 \in 1..Len(Steps) /\ ~(1 > 2)
    <3>1. TierIndex = 2
      BY <2>2 DEF TierIndex, Unmounted
    <3>2. Len(Steps) \in Nat /\ Len(Steps) >= 1
      BY Lengths
    <3> QED BY <3>1, <3>2
  <2>5. InPlace
    BY <2>4 DEF InPlace, Unmounted
  <2>6. Closed /\ ProjectFits
    BY DEF Unmounted, Closed, ProjectFits
  <2>7. PastFits
    BY <2>1, <2>4, NoneAssumption DEF PastFits, Past, Unmounted
  <2>8. SkuFits /\ SpinnerEnds
    BY <2>1, CatalogFits DEF SkuFits, SpinnerEnds, Unmounted
  <2> QED BY <2>3, <2>5, <2>6, <2>7, <2>8 DEF WizardInv
<1>2. Unmounted' => WizardInv'
  BY <1>1, PTL
<1> QED BY <1>1, <1>2

LEMMA LeaveFits == ASSUME LeaveWizard \/ CreateSucceeds PROVE WizardInv'
<1>1. Unmounted'
  BY DEF LeaveWizard, CreateSucceeds, Unmount, Unmounted
<1> QED BY <1>1, UnmountedFits

LEMMA SentFits == ASSUME WizardInv, CreateResource \/ RowStored \/ CreateFails PROVE WizardInv'
<1>1. UNCHANGED <<site, flowVars, step, making, status, asking, modalVars, shown>>
  BY DEF CreateResource, RowStored, CreateFails
<1> QED BY <1>1, SameFits

\* The dialog: everything else on the page stays as it is.
LEMMA ModalFits ==
  ASSUME WizardInv, site = "open", InModal, modal' \in Modal, setups' \in [Attempts -> Nat],
         SpinnerEnds', (modal'.open \/ modal'.paying # None) => Past
  PROVE  WizardInv'
<1>1. UNCHANGED <<site, url, form, project, projects, step, making, status, asking, shown>>
  BY DEF InModal
<1>2. FieldsFit'
  BY <1>1 DEF WizardInv, FieldsFit
<1>3. shown' \in Catalog \cup {""}
  BY <1>1 DEF WizardInv, InPlace
<1>4. (making' # None => projects # None) /\ (making' = "next" => form.type \in Catalog)
  BY <1>1 DEF WizardInv, ProjectFits, PastFits
<1> QED BY <1>1, <1>2, <1>3, <1>4, StayFits

LEMMA BeginFits == ASSUME WizardInv, OpenModal \/ RetrySetup PROVE WizardInv'
<1>1. site = "open" /\ InModal /\ HandleSetup(project) /\ Past
  <2>1. CASE OpenModal
    BY <2>1, PastIsAfter DEF OpenModal, OffersSetup, AtPage
  <2>2. CASE RetrySetup
    BY <2>2 DEF RetrySetup, Past
  <2> QED BY <2>1, <2>2
<1>2. project \in Projects
  BY <1>1 DEF WizardInv, PastFits, FieldsFit
<1>3. setups' \in [Attempts -> Nat] /\ \E a \in Attempts : setups'[a] > 0
  BY <1>1, <1>2, HandleSetupFits DEF WizardInv, FieldsFit
<1>4. modal' \in Modal
  <2> DEFINE o == [modal EXCEPT !.open = TRUE, !.step = "creating", !.secret = "none"]
             r == [modal EXCEPT !.step = "creating"]
  <2>1. modal \in Modal
    BY DEF WizardInv, FieldsFit
  <2>2. o \in Modal /\ r \in Modal
    BY <2>1 DEF Modal
  <2>3. modal' = o \/ modal' = r
    BY DEF OpenModal, RetrySetup
  <2> QED BY <2>2, <2>3
<1>5. SpinnerEnds'
  BY <1>3, Zenon DEF SpinnerEnds
<1> QED BY <1>1, <1>3, <1>4, <1>5, ModalFits

LEMMA SecretFits ==
  ASSUME NEW s \in {"none", "new", "old", "other"}
  PROVE  Old(s) \in {"none", "new", "old", "other"}
BY DEF Old

LEMMA CustomerMadeFits ==
  ASSUME WizardInv, NEW a \in Attempts, CustomerMade(a) PROVE WizardInv'
<1> DEFINE b == [a EXCEPT !.customer = TRUE]
           y == OldCard(modal.paying)
           m == [modal EXCEPT !.secret = Old(modal.secret), !.paying = y]
<1>1. b \in Attempts /\ b # a
  <2>1. b \in Attempts /\ b.customer = TRUE
    BY DEF Attempts
  <2>2. ~a.customer
    BY DEF CustomerMade
  <2> QED BY <2>1, <2>2
<1>2. /\ site = "open" /\ InModal /\ setups[a] > 0
      /\ setups' = [setups EXCEPT ![a] = @ - 1, ![b] = @ + 1]
      /\ modal' = modal \/ modal' = m
  <2>1. a.of # project => modal' = modal
    BY DEF CustomerMade
  <2>2. a.of = project => modal' = m
    BY Zenon DEF CustomerMade
  <2>3. setups' = [setups EXCEPT ![a] = @ - 1, ![b] = @ + 1]
    BY Zenon DEF CustomerMade
  <2> QED BY <2>1, <2>2, <2>3 DEF CustomerMade
<1> HIDE DEF b
<1>3. setups \in [Attempts -> Nat] /\ modal \in Modal
  BY DEF WizardInv, FieldsFit
<1>4. setups' \in [Attempts -> Nat] /\ setups'[b] > 0
  <2>1. setups[a] \in Nat /\ setups[b] \in Nat
    BY <1>1, <1>3
  <2>2. setups[a] - 1 \in Nat /\ setups[b] + 1 \in Nat /\ setups[b] + 1 > 0
    BY <1>2, <2>1
  <2> QED BY <1>1, <1>2, <1>3, <2>2
<1>5. m \in Modal /\ m.open = modal.open /\ (m.paying # None => modal.paying # None)
  <2>1. modal.secret \in {"none", "new", "old", "other"} /\ modal.paying \in Paying \cup {None}
    BY <1>3 DEF Modal
  <2>2. Old(modal.secret) \in {"none", "new", "old", "other"}
    BY <2>1, SecretFits
  <2>3. y \in Paying \cup {None} /\ (y # None => modal.paying # None)
    <3>1. CASE modal.paying = None
      BY <3>1 DEF OldCard
    <3>2. CASE modal.paying # None
      <4>1. modal.paying \in Paying
        BY <2>1, <3>2
      <4>2. Old(modal.paying.secret) \in {"none", "new", "old", "other"}
        BY <4>1, SecretFits DEF Paying
      <4>3. y \in Paying
        BY <3>2, <4>1, <4>2 DEF Paying, OldCard
      <4> QED BY <3>2, <4>3
    <3> QED BY <3>1, <3>2
  <2> HIDE DEF y
  <2> QED BY <1>3, <2>2, <2>3 DEF Modal
<1> HIDE DEF m
<1>6. modal' \in Modal /\ ((modal'.open \/ modal'.paying # None) => Past)
  BY <1>2, <1>3, <1>5, Zenon DEF Past
<1>7. SpinnerEnds'
  BY <1>1, <1>4, Zenon DEF SpinnerEnds
<1> QED BY <1>2, <1>4, <1>6, <1>7, ModalFits

\* An attempt ends and tells the dialog, which no longer waits for it.
LEMMA TellFits ==
  ASSUME WizardInv, NEW a \in Attempts, NEW m \in Modal, Tell(a, m),
         m.open = modal.open, m.paying = modal.paying, m.step # "creating"
  PROVE  WizardInv'
<1>1. /\ site = "open" /\ InModal /\ setups[a] > 0
      /\ setups' = [setups EXCEPT ![a] = @ - 1]
      /\ modal' = IF modal.open THEN m ELSE modal
  BY DEF Tell
<1>2. setups \in [Attempts -> Nat] /\ modal \in Modal
  BY DEF WizardInv, FieldsFit
<1>3. setups' \in [Attempts -> Nat]
  <2>1. setups[a] \in Nat
    BY <1>2
  <2>2. setups[a] - 1 \in Nat
    BY <1>1, <2>1
  <2> QED BY <1>1, <1>2, <2>2
<1>4. modal' \in Modal /\ ((modal'.open \/ modal'.paying # None) => Past)
  BY <1>1, <1>2, Zenon DEF Past
<1>5. SpinnerEnds'
  BY <1>1, Zenon DEF SpinnerEnds
<1> QED BY <1>1, <1>3, <1>4, <1>5, ModalFits

LEMMA SetupEndsFits ==
  ASSUME WizardInv, NEW a \in Attempts, IntentMade(a) \/ SetupFails(a) PROVE WizardInv'
<1> DEFINE s == IF a.of = project THEN "new" ELSE "other"
           i == [modal EXCEPT !.step = "payment", !.secret = s]
           f == [modal EXCEPT !.step = "error"]
<1>1. modal \in Modal
  BY DEF WizardInv, FieldsFit
<1>2. s \in {"none", "new", "old", "other"}
  OBVIOUS
<1> HIDE DEF s
<1>3. /\ i \in Modal /\ i.open = modal.open /\ i.paying = modal.paying /\ i.step # "creating"
      /\ f \in Modal /\ f.open = modal.open /\ f.paying = modal.paying /\ f.step # "creating"
  BY <1>1, <1>2 DEF Modal
<1>4. Tell(a, i) \/ Tell(a, f)
  BY DEF IntentMade, SetupFails, s
<1> HIDE DEF i, f
<1> QED BY <1>3, <1>4, TellFits

LEMMA CardFits ==
  ASSUME WizardInv, SubmitCard \/ CardRefused \/ CloseModal PROVE WizardInv'
<1> DEFINE d == [secret |-> modal.secret, of |-> project, then |-> GoesOn]
           s == [modal EXCEPT !.paying = d]
           r == [modal EXCEPT !.paying = None]
           c == [NoModal EXCEPT !.paying = modal.paying]
<1>1. site = "open" /\ InModal /\ setups' = setups /\ Past
  BY DEF SubmitCard, CardRefused, CloseModal, Past
<1>2. modal \in Modal /\ setups \in [Attempts -> Nat] /\ project \in Projects \cup {NoProject}
  BY DEF WizardInv, FieldsFit
<1>3. GoesOn \in Moves
  BY DEF GoesOn, Moves
<1>4. d \in Paying
  BY <1>2, <1>3 DEF Modal, Paying
<1> HIDE DEF d
<1>5. /\ s \in Modal /\ s.open = modal.open /\ s.step = modal.step
      /\ r \in Modal /\ r.open = modal.open /\ r.step = modal.step
      /\ c \in Modal /\ ~c.open
  BY <1>2, <1>4 DEF Modal, NoModal
<1>6. modal' = s \/ modal' = r \/ modal' = c
  BY DEF SubmitCard, CardRefused, CloseModal, d
<1> HIDE DEF s, r, c
<1>7. modal' \in Modal /\ (modal'.open = TRUE => modal.open = TRUE /\ modal'.step = modal.step)
  BY <1>5, <1>6
<1>8. SpinnerEnds'
  BY <1>1, <1>7, Zenon DEF WizardInv, SpinnerEnds
<1> QED BY <1>1, <1>2, <1>7, <1>8, ModalFits

\* The dialog is done: the flow goes on by what the render knew.
LEMMA OnCompleteFits ==
  ASSUME WizardInv, site = "open", Past, NEW then \in Moves, OnComplete(then)
  PROVE  WizardInv'
<1>1. /\ modal' = NoModal /\ asking' = then /\ Settle(step) /\ setups' = setups
      /\ UNCHANGED <<site, url, form, project, projects, making>>
  BY DEF OnComplete
<1>2. project # NoProject /\ form.type \in Catalog
  BY DEF WizardInv, PastFits
<1>3. NoModal \in Modal /\ ~NoModal.open
  BY DEF NoModal, Modal
<1>4. FieldsFit'
  BY <1>1, <1>3 DEF WizardInv, FieldsFit
<1>5. SkuFits' /\ ProjectFits'
  BY <1>1, <1>2 DEF WizardInv, SkuFits, ProjectFits
<1>6. SpinnerEnds'
  BY <1>1, <1>3 DEF SpinnerEnds
<1> QED BY <1>1, <1>2, <1>4, <1>5, <1>6, InPlaceIsNat, OpenFits

LEMMA CompleteFits == ASSUME WizardInv, CardConfirmed \/ SkipPayment PROVE WizardInv'
<1>1. CASE CardConfirmed
  <2>1. modal.paying \in Paying /\ site = "open" /\ Past
    BY <1>1 DEF CardConfirmed, WizardInv, FieldsFit, Modal, Past
  <2>2. modal.paying.then \in Moves /\ OnComplete(modal.paying.then)
    BY <1>1, <2>1 DEF Paying, CardConfirmed
  <2> QED BY <2>1, <2>2, OnCompleteFits
<1>2. CASE SkipPayment
  <2>1. site = "open" /\ Past /\ OnComplete(GoesOn)
    BY <1>2 DEF SkipPayment, Past
  <2>2. GoesOn \in Moves
    BY DEF GoesOn, Moves
  <2> QED BY <2>1, <2>2, OnCompleteFits
<1> QED BY <1>1, <1>2

LEMMA NormalFits ==
  ASSUME NEW f \in Form
  PROVE  /\ Normal(f) \in Form /\ Normal(f).type = f.type
         /\ f.type \in Catalog => IsSkuValidForType(f.type, Normal(f).sku)
<1> DEFINE n == [f EXCEPT !.sku = SkusOf[f.type][1]]
<1>1. CASE f.type \in Catalog /\ ~IsSkuValidForType(f.type, f.sku)
  <2>1. SkusOf[f.type][1] = "standard" /\ IsSkuValidForType(f.type, SkusOf[f.type][1])
    BY <1>1, ValidFits
  <2>2. n \in Form /\ n.type = f.type /\ n.sku = SkusOf[f.type][1]
    BY <2>1 DEF Form, FormSku
  <2>3. Normal(f) = n
    BY <1>1, Zenon DEF Normal
  <2> HIDE DEF n
  <2> QED BY <2>1, <2>2, <2>3
<1>2. CASE ~(f.type \in Catalog /\ ~IsSkuValidForType(f.type, f.sku))
  <2>1. Normal(f) = f
    BY <1>2, Zenon DEF Normal
  <2> QED BY <1>2, <2>1
<1> QED BY <1>1, <1>2

LEMMA OpenWizardFits == ASSUME WizardInv, OpenWizard PROVE WizardInv'
<1>1. PICK p \in {First, NoProject}, t \in UrlTypes, s \in UrlSkus, b \in BillingStates :
        /\ url' = [project |-> p, type |-> t]
        /\ form' = Normal([form EXCEPT !.type = t, !.sku = s])
        /\ Select(p, b)
        /\ projects' = IF p = NoProject THEN None ELSE {p}
  BY DEF OpenWizard
<1>2. /\ site = "closed" /\ site' = "open" /\ step = 1 /\ making = None /\ modal = NoModal
      /\ UNCHANGED <<step, making, modal, setups, shown>>
  BY DEF OpenWizard, WizardInv, Closed
<1> DEFINE f == [form EXCEPT !.type = t, !.sku = s]
<1>3. f \in Form
  BY DEF WizardInv, FieldsFit, Form, FormType, FormSku
<1> HIDE DEF f
<1>4. form' = Normal(f)
  BY <1>1 DEF f
<1>5. form' \in Form /\ SkuFits'
  BY <1>3, <1>4, NormalFits DEF SkuFits
<1>6. p \in Projects \cup {NoProject}
  BY WizardBounds
<1>7. /\ project' = p /\ asking' \in Moves \cup {None} /\ asking' # "next"
      /\ asking' # None => p # NoProject
  BY <1>1, <1>6, SelectFits
<1>8. projects' \in (SUBSET Projects) \cup {None} /\ (projects' = None => p = NoProject)
  BY <1>1, <1>6, NoneAssumption
<1>9. FieldsFit'
  BY <1>2, <1>5, <1>6, <1>7, <1>8 DEF WizardInv, FieldsFit
<1>10. step' \in 1..Len(Steps') /\ ~(step' > TierIndex')
  <2>1. Len(Steps') \in Nat /\ Len(Steps') >= 1 /\ TierIndex' \in {1, 2}
    BY Lengths
  <2>2. step' = 1
    BY <1>2
  <2> QED BY <2>1, <2>2
<1>11. InPlace'
  BY <1>2, <1>10 DEF WizardInv, InPlace
<1>12. Closed' /\ ProjectFits'
  BY <1>2, <1>7, <1>8 DEF Closed, ProjectFits
<1>13. ~modal'.open /\ modal'.paying = None
  BY <1>2 DEF NoModal
<1>14. PastFits' /\ SpinnerEnds'
  <2>1. making' # "next"
    BY <1>2, NoneAssumption
  <2> QED BY <1>7, <1>10, <1>13, <2>1 DEF PastFits, Past, SpinnerEnds
<1> QED BY <1>5, <1>9, <1>11, <1>12, <1>14 DEF WizardInv
-----------------------------------------------------------------------------
(* The invariant.                                                            *)
LEMMA WizardInitFits == WizardInit => WizardInv
<1>1. WizardInit => Unmounted
  BY DEF WizardInit, Unmounted
<1> QED BY <1>1, UnmountedFits

LEMMA WizardNextFits == WizardInv /\ [WizardNext]_wizardVars => WizardInv'
<1> SUFFICES ASSUME WizardInv, [WizardNext]_wizardVars PROVE WizardInv'
  OBVIOUS
<1>1. CASE UNCHANGED wizardVars
  BY <1>1, SameFits DEF wizardVars
<1>2. CASE OpenWizard
  BY <1>2, OpenWizardFits
<1>3. CASE User
  <2>1. ASSUME NEW t \in Catalog, SelectType(t) PROVE WizardInv'
    BY <2>1, SelectTypeFits
  <2>2. ASSUME NEW s \in {"standard", "free"}, SelectSku(s) PROVE WizardInv'
    BY <2>2, SelectSkuFits
  <2>3. ASSUME NEW p \in Projects, SelectProject(p) PROVE WizardInv'
    BY <2>3, SelectProjectFits
  <2>4. CASE EditName \/ EditSettings
    BY <2>4, EditNameFits, EditSettingsFits
  <2>5. CASE SubmitProject
    BY <2>5, SubmitProjectFits
  <2>6. CASE GoNext \/ HandleBack
    BY <2>6, WalkFits
  <2>7. CASE LeaveWizard
    BY <2>7, LeaveFits
  <2>8. CASE CreateResource
    BY <2>8, SentFits
  <2>9. CASE OpenModal \/ RetrySetup
    BY <2>9, BeginFits
  <2>10. CASE SubmitCard \/ CloseModal
    BY <2>10, CardFits
  <2>11. CASE SkipPayment
    BY <2>11, CompleteFits
  <2>12. CASE Focus
    BY <2>12, FocusFits
  <2> QED BY <1>3, <2>1, <2>2, <2>3, <2>4, <2>5, <2>6, <2>7, <2>8, <2>9, <2>10, <2>11, <2>12 DEF User
<1>4. CASE Answers
  <2>1. ASSUME NEW a \in Attempts, CustomerMade(a) PROVE WizardInv'
    BY <2>1, CustomerMadeFits
  <2>2. ASSUME NEW a \in Attempts, IntentMade(a) \/ SetupFails(a) PROVE WizardInv'
    BY <2>2, SetupEndsFits
  <2>3. CASE ProjectsArrive \/ ProjectCreated
    BY <2>3, ProjectsArriveFits, ProjectCreatedFits
  <2>4. CASE ProjectRefused
    BY <2>4, SubmitProjectFits
  <2>5. CASE StatusArrives \/ StatusFails
    BY <2>5, StatusFits DEF StatusArrives, StatusFails
  <2>6. CASE RowStored \/ CreateFails
    BY <2>6, SentFits
  <2>7. CASE CreateSucceeds
    BY <2>7, LeaveFits
  <2>8. CASE CardConfirmed
    BY <2>8, CompleteFits
  <2>9. CASE CardRefused
    BY <2>9, CardFits
  <2> QED BY <1>4, <2>1, <2>2, <2>3, <2>4, <2>5, <2>6, <2>7, <2>8, <2>9 DEF Answers
<1> QED BY <1>1, <1>2, <1>3, <1>4 DEF WizardNext

LEMMA WizardAlways == WizardSpec => []WizardInv
BY WizardInitFits, WizardNextFits, PTL DEF WizardSpec

\* The page shows one of the steps that it lists (CreateResourcePage renders
\* steps[currentStepIndex] after every render's effects), and its fields keep
\* their types.
THEOREM WizardTyped == WizardSpec => []WizardTypeOK
<1>1. WizardInv => WizardTypeOK
  <2> SUFFICES ASSUME WizardInv PROVE WizardTypeOK
    OBVIOUS
  <2>1. form.settings \in {"", Secret} /\ modal.step \in {"creating", "payment", "done", "error"}
    BY DEF WizardInv, FieldsFit, Form, Modal
  <2> QED BY <2>1 DEF WizardInv, FieldsFit, InPlace, WizardTypeOK
<1> QED BY <1>1, WizardAlways, PTL

\* UnifiedBillingSetupModal's spinner is on the screen only while one of the
\* handleSetup calls is under way whose end takes it away, however many were
\* begun, for whichever projects, and whenever the dialog was closed and opened
\* again in between.
THEOREM SpinnerAlwaysEnds == WizardSpec => []SpinnerEnds
<1>1. WizardInv => SpinnerEnds
  BY DEF WizardInv
<1> QED BY <1>1, WizardAlways, PTL

LEMMA SendsComplete ==
  ASSUME WizardInv, NextOffered, IsLastStep
  PROVE  project \in Projects /\ IsSkuValidForType(form.type, form.sku)
<1>1. NextOffered /\ step = Len(Steps)
  BY DEF IsLastStep
<1>2. step \in Nat /\ TierIndex \in Nat /\ ~(step < TierIndex)
  BY <1>1, Lengths
<1>3. project # NoProject /\ form.type \in Catalog
  <2>1. CASE step = TierIndex
    <3>1. CurrentStep = "tier"
      BY <2>1, PlaceFits DEF WizardInv, InPlace
    <3> QED BY <1>1, <1>2, <3>1, GoOnFits DEF NextOffered
  <2>2. CASE step # TierIndex
    <3>1. step > TierIndex
      BY <1>2, <2>2, ThenAfter, Zenon
    <3> QED BY <3>1 DEF WizardInv, PastFits, Past
  <2> QED BY <2>1, <2>2
<1> QED BY <1>3 DEF WizardInv, FieldsFit, SkuFits

\* Where the user can create a resource, there is a project and a type with a sku
\* of its own, from whichever list of steps the last step was reached and however
\* the list changed on the way (useResourceCreationFlow computes it anew while the
\* index stays), so that handleCreateResource turns nobody down.
THEOREM SentIsComplete == WizardSpec => []SentComplete
<1>1. WizardInv => SentComplete
  BY SendsComplete DEF SentComplete
<1> QED BY <1>1, WizardAlways, PTL

\* A render before an answer and the render after it, at the place it settles.
LEMMA AnswerKeeps ==
  ASSUME WizardInv, NEW s, StatusAnswered(s), asking = "nothing"
  PROVE  CurrentStep' = CurrentStep \/ {CurrentStep, CurrentStep'} = {"billing", "settings"}
<1>1. /\ Settle(step) /\ url' = url /\ form' = form
  BY DEF StatusAnswered
<1>2. step \in Nat /\ step \in 1..Len(Steps) /\ TierIndex \in Nat /\ step >= 1
  BY StepIsNat, Zenon DEF WizardInv, InPlace
<1>3. step' = IF step > Len(Steps') THEN Len(Steps') ELSE step
  BY <1>1, Zenon DEF Settle
<1>4. TierIndex' = TierIndex
  BY <1>1 DEF TierIndex
<1>5. step' \in 1..Len(Steps')
  BY <1>1, <1>2, Settled, Zenon
<1>6. /\ CurrentStep = IF step < TierIndex THEN "resourceType"
                       ELSE IF step = TierIndex THEN "tier"
                       ELSE IF NeedsBilling /\ step = TierIndex + 1 THEN "billing" ELSE "settings"
      /\ CurrentStep' = IF step' < TierIndex THEN "resourceType"
                        ELSE IF step' = TierIndex THEN "tier"
                        ELSE IF NeedsBilling' /\ step' = TierIndex + 1 THEN "billing" ELSE "settings"
  BY <1>2, <1>4, <1>5, StepsShape, Zenon DEF Shape, CurrentStep
<1>7. CASE ~(step > TierIndex)
  <2>1. step' = step
    BY <1>2, <1>3, <1>4, <1>7, Lengths, NotCut, Zenon
  <2> QED BY <1>2, <1>6, <1>7, <2>1, NotAfter, Zenon
<1>8. CASE step > TierIndex
  <2>1. form.type \in Catalog
    BY <1>8 DEF WizardInv, PastFits, Past
  <2>2. Len(Steps') \in Nat /\ Len(Steps') > TierIndex
    <3>1. Len(Steps') = TierIndex + (IF NeedsBilling' THEN 1 ELSE 0) + 1
      BY <1>1, <1>4, <2>1, StepsShape, Zenon DEF Shape
    <3> QED BY <1>2, <3>1, OneMore, Zenon
  <2>3. step' > TierIndex
    BY <1>2, <1>3, <1>8, <2>2, StillAfter, Zenon
  <2>4. ~(step < TierIndex) /\ step # TierIndex
    BY <1>2, <1>8, AfterIs, Zenon
  <2>5. ~(step' < TierIndex) /\ step' # TierIndex
    <3>1. step' \in Nat
      BY <1>5, Lengths, InRange, Zenon
    <3> QED BY <1>2, <2>3, <3>1, AfterIs, Zenon
  <2>6. CurrentStep \in {"billing", "settings"} /\ CurrentStep' \in {"billing", "settings"}
    BY <1>6, <2>4, <2>5, Zenon
  <2> QED BY <2>6
<1> QED BY <1>7, <1>8

\* Nothing else ends a request that nothing waits for while the page shows the
\* same project.
LEMMA OnlyAnswersEnd ==
  ASSUME WizardInv, [WizardNext]_wizardVars, asking = "nothing", asking' = None,
         site' = "open", project' = project
  PROVE  \E s : StatusAnswered(s)
<1>1. asking # None /\ asking' # asking /\ project # NoProject
  BY NoneAssumption DEF WizardInv, ProjectFits
<1>2. ~UNCHANGED wizardVars
  BY <1>1 DEF wizardVars
<1>3. ~OpenWizard
  BY <1>1 DEF OpenWizard, WizardInv, Closed
<1>4. ASSUME NEW p, NEW b PROVE ~Select(p, b)
  BY <1>1 DEF Select
<1>5. ASSUME NEW then \in Moves PROVE ~OnComplete(then)
  BY <1>1, NoneAssumption DEF OnComplete, Moves
<1>6. ~User
  <2>1. ~((\E t \in Catalog : SelectType(t)) \/ \E s \in {"standard", "free"} : SelectSku(s))
    BY <1>1, Zenon DEF SelectType, SelectSku, Edit
  <2>2. ~((\E p \in Projects : SelectProject(p)) \/ EditName \/ SubmitProject \/ EditSettings)
    BY <1>1, <1>4, Zenon DEF SelectProject, EditName, SubmitProject, EditSettings, Edit
  <2>3. ~(GoNext \/ HandleBack \/ CreateResource \/ Focus)
    BY <1>1 DEF GoNext, HandleBack, CreateResource, Focus, Move
  <2>4. ~LeaveWizard
    BY DEF LeaveWizard
  <2>5. ~(OpenModal \/ RetrySetup \/ SubmitCard \/ CloseModal)
    BY <1>1, Zenon DEF OpenModal, RetrySetup, SubmitCard, CloseModal, InModal
  <2>6. ~SkipPayment
    <3>1. GoesOn \in Moves
      BY DEF GoesOn, Moves
    <3> QED BY <1>5, <3>1 DEF SkipPayment
  <2> QED BY <2>1, <2>2, <2>3, <2>4, <2>5, <2>6 DEF User
<1>7. Answers => \E s : StatusAnswered(s)
  <2>1. ~(ProjectsArrive \/ ProjectCreated)
    BY <1>4 DEF ProjectsArrive, ProjectCreated
  <2>2. ~(ProjectRefused \/ RowStored \/ CreateFails)
    BY <1>1 DEF ProjectRefused, RowStored, CreateFails
  <2>3. ~CreateSucceeds
    BY DEF CreateSucceeds
  <2>4. ~(\E a \in Attempts : CustomerMade(a) \/ IntentMade(a) \/ SetupFails(a))
    BY <1>1, Zenon DEF CustomerMade, IntentMade, SetupFails, Tell, InModal
  <2>5. ~CardRefused
    BY <1>1 DEF CardRefused, InModal
  <2>6. ~CardConfirmed
    <3> SUFFICES ASSUME CardConfirmed PROVE FALSE
      OBVIOUS
    <3>1. modal.paying.then \in Moves
      BY DEF CardConfirmed, WizardInv, FieldsFit, Modal, Paying
    <3> QED BY <1>5, <3>1 DEF CardConfirmed
  <2>7. StatusArrives \/ StatusFails => \E s : StatusAnswered(s)
    BY DEF StatusArrives, StatusFails
  <2> QED BY <2>1, <2>2, <2>3, <2>4, <2>5, <2>6, <2>7 DEF Answers
<1> QED BY <1>2, <1>3, <1>6, <1>7 DEF WizardNext

\* An answer about billing that arrives while the user is choosing a type or
\* configuring the resource leaves the step on the screen as it is: only the
\* billing step and the settings, where the list itself differs, follow one
\* another.  The index, which the answer does not touch, means another step in
\* a list that the answer makes longer or shorter.
THEOREM AnswersKeepThePlace == WizardSpec => AnswersKeepPlace
<1>1. WizardInv /\ [WizardNext]_wizardVars =>
        [asking = "nothing" /\ asking' = None /\ site' = "open" /\ project' = project
           => CurrentStep' = CurrentStep \/ {CurrentStep, CurrentStep'} = {"billing", "settings"}
        ]_wizardVars
  BY OnlyAnswersEnd, AnswerKeeps
<1> QED BY <1>1, WizardAlways, PTL DEF WizardSpec, AnswersKeepPlace
=============================================================================
