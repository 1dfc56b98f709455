----------------------------- MODULE SecretStore -----------------------------
(* What the web application promises of the values of the secrets: they are   *)
(* filled in where there are none, and replaced only at the request of        *)
(* someone who had them on the screen.  No failure, no retry, no request that *)
(* its page has left and no new secret of the same name replaces values that  *)
(* nobody looked at.                                                          *)
CONSTANTS
  Ids,                 \* secrets
  Gone                 \* no values
VARIABLES
  stored,              \* the values in the project's namespace, by id
  seen,                \* the secrets whose values are on the screen
  asked                \* those whose values somebody has asked to replace
storeVars == <<stored, seen, asked>>

StoreInit == seen = {} /\ asked = {}

\* Values come to the screen, or leave it.
Look ==
  /\ UNCHANGED <<stored, asked>>
  /\ seen' \subseteq {i \in Ids : stored[i] # Gone}

Ask(i) == i \in seen /\ asked' = asked \cup {i} /\ UNCHANGED <<stored, seen>>

Write(i) ==
  /\ stored[i] = Gone \/ i \in asked
  /\ stored'[i] # Gone
  /\ stored' = [stored EXCEPT ![i] = stored'[i]]
  /\ asked' \in {asked, asked \ {i}} /\ UNCHANGED seen

\* A request is refused, or lost.
Fail(i) == asked' = asked \ {i} /\ UNCHANGED <<stored, seen>>

StoreSpec == StoreInit /\ [][Look \/ \E i \in Ids : Ask(i) \/ Write(i) \/ Fail(i)]_storeVars
=============================================================================
