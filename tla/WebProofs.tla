------------------------------- MODULE WebProofs -------------------------------
(* A tab's parts do not disturb each other: every behaviour of the web        *)
(* application is one of each of its parts, and what is proved of a part      *)
(* holds of the application.                                                  *)
EXTENDS Web, WizardProofs, ListsProofs, PagesProofs

\* A step of the application is a step of the part that the tab visits, and the
\* other parts stand still.
LEMMA StepOfPart ==
  [WebNext]_webVars => /\ [WizardNext]_wizardVars
                       /\ [SecretsNext]_secretsVars
                       /\ [GrantsNext]_grantsVars
                       /\ [PortalNext]_portalVars
                       /\ [EditorNext]_editorVars
                       /\ [WatchNext]_watchVars
                       /\ [AccountNext]_accountVars
<1>1. ASSUME WebNext
      PROVE  /\ [WizardNext]_wizardVars
             /\ [SecretsNext]_secretsVars /\ [GrantsNext]_grantsVars /\ [PortalNext]_portalVars
             /\ [EditorNext]_editorVars /\ [WatchNext]_watchVars /\ [AccountNext]_accountVars
  BY <1>1 DEF WebNext, VisitWizard, VisitEditor, VisitSecrets, VisitGrants, VisitWatch,
              VisitAccount, VisitFrame
<1>2. ASSUME UNCHANGED webVars
      PROVE  /\ UNCHANGED wizardVars
             /\ UNCHANGED secretsVars /\ UNCHANGED grantsVars /\ UNCHANGED portalVars
             /\ UNCHANGED editorVars /\ UNCHANGED watchVars /\ UNCHANGED accountVars
  BY <1>2 DEF webVars
<1> QED BY <1>1, <1>2

\* The application is an instance of each part.
THEOREM WebOfParts ==
  WebSpec => /\ WizardSpec /\ SecretsSpec /\ GrantsSpec /\ PortalSpec
             /\ EditorSteps /\ WatchSteps /\ AccountSteps
<1>1. WebInit => /\ WizardInit /\ SecretsInit /\ GrantsInit /\ PortalInit
                 /\ EditorInit /\ WatchInit /\ AccountInit
  BY DEF WebInit
<1> QED BY <1>1, StepOfPart, PTL
        DEF WebSpec, WizardSpec, SecretsSpec, GrantsSpec, PortalSpec, EditorSteps, WatchSteps, AccountSteps

\* In the application no part breaks another's promises: what the wizard sends
\* is complete and its answers keep the place, the store of secrets loses no
\* value, lists settle on the server's, a grant goes where the user sees it go,
\* and the log-in comes back to where it left from.
THEOREM WebKeepsPromises ==
  WebSpec => /\ [](WizardTypeOK /\ SpinnerEnds /\ SentComplete) /\ AnswersKeepPlace
             /\ ValuesKept /\ CreatedRefResolves
             /\ [](SecretsTypeOK /\ GrantsTypeOK /\ AnswerFindsNoDialog)
             /\ []ListsOwnChanges /\ GrantsWhereItSays
             /\ []ListsOwnProjects /\ LoginReturns
             /\ [](EditorTypeOK /\ PollsWhileTransient) /\ EditsKept
             /\ [](WatchTypeOK /\ AccountTypeOK)
<1>0. WizardSpec => []WizardTypeOK /\ []SpinnerEnds /\ []SentComplete /\ AnswersKeepPlace
  BY WizardTyped, SpinnerAlwaysEnds, SentIsComplete, AnswersKeepThePlace
<1>1. SecretsSpec => ValuesKept /\ CreatedRefResolves /\ []SecretsTypeOK
  BY SecretsImplementStore, CreatedRefsResolve, SecretsTyped
<1>2. GrantsSpec => /\ []GrantsTypeOK /\ []AnswerFindsNoDialog
                    /\ []ListsOwnChanges /\ GrantsWhereItSays
  BY GrantsTyped, AnswersFindNoDialog, ListsSettle, GrantsGoWhereTheySay
<1>3. PortalSpec => []ListsOwnProjects /\ LoginReturns
  BY ProjectListsSettle, LoginsReturn
<1>4. EditorSteps => []EditorTypeOK /\ []PollsWhileTransient /\ EditsKept
  BY EditorTyped, IntervalWhileTransient, EditsAreKept
<1>5. (WatchSteps => []WatchTypeOK) /\ (AccountSteps => []AccountTypeOK)
  BY WatchTyped, AccountTyped
<1> QED BY <1>0, <1>1, <1>2, <1>3, <1>4, <1>5, WebOfParts, PTL
=============================================================================
