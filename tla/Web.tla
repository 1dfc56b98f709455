--------------------------------- MODULE Web ---------------------------------
(* The web application's pages together.  App.tsx mounts one page of a tab    *)
(* at a time and a page's state goes with it, so that the parts never act in  *)
(* the same tab at once: a tab visits one part, and the others stand still.   *)
(* The frame that leads to them, with its log-in, is a part itself.           *)
EXTENDS Wizard, Editor, Secrets, Grants, Watch, Account, Portal

CONSTANT Visits      \* the parts to consider

VARIABLE visited     \* the part of the application that the tab is used for

webVars == <<visited, wizardVars, editorVars, secretsVars, grantsVars, watchVars,
             accountVars, portalVars>>

Parts == {"wizard", "editor", "secrets", "grants", "watch", "account", "portal"}
ASSUME VisitsParts == Visits \subseteq Parts
-----------------------------------------------------------------------------
\* What the server has of a part matters only to the tab that visits it.
WebInit ==
  /\ visited \in Visits
  /\ WizardInit /\ EditorInit /\ SecretsInit /\ GrantsInit /\ WatchInit /\ AccountInit /\ PortalInit
  /\ visited # "secrets" => contents = [i \in Ids |-> Gone] /\ rows = [i \in Ids |-> Gone]
  /\ visited # "grants"  => assigned = [s \in Scopes |-> {}]
  /\ visited # "portal"  => existing = {} /\ lastProjectId = Nothing

VisitWizard ==
  /\ visited = "wizard" /\ WizardNext
  /\ UNCHANGED <<visited, editorVars, secretsVars, grantsVars, watchVars, accountVars, portalVars>>
VisitEditor ==
  /\ visited = "editor" /\ EditorNext
  /\ UNCHANGED <<visited, wizardVars, secretsVars, grantsVars, watchVars, accountVars, portalVars>>
VisitSecrets ==
  /\ visited = "secrets" /\ SecretsNext
  /\ UNCHANGED <<visited, wizardVars, editorVars, grantsVars, watchVars, accountVars, portalVars>>
VisitGrants ==
  /\ visited = "grants" /\ GrantsNext
  /\ UNCHANGED <<visited, wizardVars, editorVars, secretsVars, watchVars, accountVars, portalVars>>
VisitWatch ==
  /\ visited = "watch" /\ WatchNext
  /\ UNCHANGED <<visited, wizardVars, editorVars, secretsVars, grantsVars, accountVars, portalVars>>
VisitAccount ==
  /\ visited = "account" /\ AccountNext
  /\ UNCHANGED <<visited, wizardVars, editorVars, secretsVars, grantsVars, watchVars, portalVars>>
VisitFrame ==
  /\ visited = "portal" /\ PortalNext
  /\ UNCHANGED <<visited, wizardVars, editorVars, secretsVars, grantsVars, watchVars, accountVars>>

WebNext == \/ VisitWizard \/ VisitEditor \/ VisitSecrets \/ VisitGrants
           \/ VisitWatch \/ VisitAccount \/ VisitFrame

WebSpec == WebInit /\ [][WebNext]_webVars

\* The fairness of the parts.
WebFairSpec == WebSpec /\ EditorFairness /\ WatchFairness /\ AccountFairness
=============================================================================
