--------------------------- MODULE IdentityProofs ---------------------------
(***************************************************************************)
(* Theorems about Identity, for every set of subjects, addresses,          *)
(* processes, requests and grants.                                         *)
(***************************************************************************)
EXTENDS Identity, TLAPS

USE DEF InMerge, InUpsert, LoginPcs, GrantPcs

\* A request that is under way has all the fields of its record.
LEMMA ActiveFields ==
  ASSUME TypeOK, NEW q \in Requests, req[q].pc # "idle"
  PROVE  /\ req[q] \in ActiveRequest
         /\ req[q].pc \in LoginPcs
         /\ req[q].at \in Replicas
         /\ req[q].sub \in Subjects
         /\ req[q].email \in Emails \cup {NoEmail}
         /\ req[q].moved \in SUBSET Grants
<1>1. req[q] \in {IdleRequest} \cup ActiveRequest
  BY DEF TypeOK
<1>2. req[q] # IdleRequest
  BY DEF IdleRequest
<1> QED
  BY <1>1, <1>2 DEF ActiveRequest

\* A grant under way is for somebody, and only a grant to an address creates
\* a placeholder.
MadeForEmail ==
  \A g \in Grants :
    /\ grant[g].pc = "placeholder" \/ grant[g].made => grant[g].target \in Emails
    /\ grant[g].pc \in {"check", "placeholder", "insert", "commit"} => grant[g].target \in Ids

\* Only CheckUser leads to a placeholder, and only for an address.
LEMMA MadeForEmailInductive ==
  ASSUME TypeOK, MadeForEmail, [Next]_vars
  PROVE  MadeForEmail'
<1> USE DEF TypeOK, MadeForEmail
<1>1. ASSUME NEW g \in Grants, NEW t \in Ids, NEW r \in Roles, NEW route \in Routes,
             RequestGrant(g, t, r, route)
      PROVE  MadeForEmail'
  BY <1>1 DEF RequestGrant, Grant
<1>2. ASSUME NEW g \in Grants, CheckUser(g)
      PROVE  MadeForEmail'
  BY <1>2 DEF CheckUser, GrantGoto, Grant
<1>3. ASSUME NEW g \in Grants, CreatePlaceholder(g)
      PROVE  MadeForEmail'
  BY <1>3 DEF CreatePlaceholder, Grant
<1>4. ASSUME NEW g \in Grants, InsertAssignment(g)
      PROVE  MadeForEmail'
  BY <1>4 DEF InsertAssignment, GrantGoto, Grant
<1>5. ASSUME NEW g \in Grants, CommitGrant(g)
      PROVE  MadeForEmail'
  BY <1>5 DEF CommitGrant, Grant
<1>6. ASSUME NEW g \in Grants, GrantFails(g) \/ Revoke(g)
      PROVE  MadeForEmail'
  <2>1. PICK pc \in {"refused", "revoked"} : grant' = [grant EXCEPT ![g].pc = pc]
    BY <1>6 DEF GrantFails, Revoke, GrantGoto
  <2>2. grant[g] \in Grant
    OBVIOUS
  <2>3. /\ grant'[g].pc = pc
        /\ grant'[g].made = grant[g].made
        /\ grant'[g].target = grant[g].target
    BY <2>1, <2>2 DEF Grant
  <2>4. \A h \in Grants \ {g} : grant'[h] = grant[h]
    BY <2>1
  <2> QED
    BY <2>3, <2>4
<1>7. CASE UNCHANGED grant
  BY <1>7
<1> QED
  BY <1>1, <1>2, <1>3, <1>4, <1>5, <1>6, <1>7
  DEF Next, vars, Login, LoginStep, GrantStep, LoginFails, Restart, FindPlaceholder, MissPlaceholder,
      MissUser, CreateRealUser, TransferRoles, DeletePlaceholder, GetUser, CreateUser, UpdateEmail

\* The invitations made before have the type of grants.
LEMMA TypeInit == Init => TypeOK /\ MadeForEmail
<1> SUFFICES ASSUME Init PROVE TypeOK /\ MadeForEmail
  OBVIOUS
<1>1. PICK r \in Roles :
        grant = [g \in Grants |->
                   IF Invited[g] = NoOne THEN NoGrant
                   ELSE [pc |-> "granted", target |-> Invited[g], role |-> r,
                         made |-> TRUE, late |-> FALSE]]
  BY DEF Init
<1>2. NoGrant \in Grant
  BY DEF NoGrant, Grant
<1>3. \A g \in Grants : Invited[g] \in Emails \cup {NoOne}
  BY InvitedAssumption
<1>4. grant \in [Grants -> Grant]
  BY <1>1, <1>2, <1>3 DEF Grant, Ids
<1>5. users \in [Ids -> Emails \cup {NoEmail, Absent}]
  BY <1>3, IdsAssumption DEF Init, Ids
<1>6. MadeForEmail
  BY <1>1, <1>3 DEF MadeForEmail, NoGrant, Ids
<1> QED
  BY <1>3, <1>4, <1>5, <1>6, InvitedAssumption, BoundsAssumption DEF Init, TypeOK, Ids

\* Every step keeps the types.
LEMMA TypeStep ==
  ASSUME TypeOK, MadeForEmail, [Next]_vars
  PROVE  (TypeOK /\ MadeForEmail)'
<1> SUFFICES TypeOK'
  BY MadeForEmailInductive
<1> USE DEF TypeOK
<1>1. ASSUME NEW q \in Requests, NEW p \in Replicas, NEW s \in Subjects,
             NEW e \in Claims[s], Login(q, p, s, e)
      PROVE  TypeOK'
  BY <1>1, ClaimsAssumption DEF Login, ActiveRequest
<1>2. ASSUME NEW q \in Requests, LoginStep(q)
      PROVE  TypeOK'
  <2>0. /\ req[q] \in ActiveRequest /\ req[q].at \in Replicas
        /\ req[q].sub \in Subjects /\ req[q].email \in Emails \cup {NoEmail}
        /\ req[q].moved \in SUBSET Grants
    <3>1. req[q].pc # "idle"
      BY <1>2 DEF LoginStep, FindPlaceholder, CreateRealUser, TransferRoles,
                  DeletePlaceholder, GetUser, CreateUser, UpdateEmail
    <3> QED BY <3>1, ActiveFields
  <2>1. CASE FindPlaceholder(q)
    BY <2>0, <2>1 DEF FindPlaceholder, Goto, ActiveRequest
  <2>2. CASE CreateRealUser(q)
    BY <2>0, <2>2 DEF CreateRealUser, Goto, Leave, ActiveRequest
  <2>3. CASE TransferRoles(q)
    BY <2>0, <2>3 DEF TransferRoles, ActiveRequest
  <2>4. CASE DeletePlaceholder(q)
    BY <2>0, <2>4 DEF DeletePlaceholder, Admit, Leave, Ids
  <2>5. CASE GetUser(q)
    BY <2>0, <2>5 DEF GetUser, Goto, Admit, Leave, ActiveRequest
  <2>6. CASE CreateUser(q)
    BY <2>0, <2>6 DEF CreateUser, Admit, Leave, Ids
  <2>7. CASE UpdateEmail(q)
    BY <2>0, <2>7 DEF UpdateEmail, Admit, Leave, Ids
  <2> QED
    BY <1>2, <2>1, <2>2, <2>3, <2>4, <2>5, <2>6, <2>7 DEF LoginStep
<1>3. ASSUME NEW q \in Requests, LoginFails(q) \/ MissPlaceholder(q) \/ MissUser(q)
      PROVE  TypeOK'
  <2>1. CASE LoginFails(q)
    BY <2>1, BoundsAssumption DEF LoginFails, Leave
  <2>2. CASE MissPlaceholder(q) \/ MissUser(q)
    <3>1. PICK pc \in {"get", "insert"} : Goto(q, pc)
      BY <2>2 DEF MissPlaceholder, MissUser
    <3>2. req[q] \in ActiveRequest
      BY <2>2, ActiveFields DEF MissPlaceholder, MissUser
    <3>3. [req[q] EXCEPT !.pc = pc] \in ActiveRequest
      BY <3>2 DEF ActiveRequest
    <3>4. req' \in [Requests -> {IdleRequest} \cup ActiveRequest]
      BY <3>1, <3>3 DEF Goto
    <3> QED
      BY <2>2, <3>4, BoundsAssumption DEF MissPlaceholder, MissUser
  <2> QED
    BY <1>3, <2>1, <2>2
<1>4. ASSUME NEW p \in Replicas, Restart(p)
      PROVE  TypeOK'
  BY <1>4, BoundsAssumption DEF Restart
<1>5. ASSUME NEW g \in Grants, NEW t \in Ids, NEW r \in Roles, NEW route \in Routes,
             RequestGrant(g, t, r, route)
      PROVE  TypeOK'
  BY <1>5 DEF RequestGrant, Grant
<1>6. ASSUME NEW g \in Grants, GrantStep(g)
      PROVE  TypeOK'
  <2>1. CASE CheckUser(g)
    BY <2>1 DEF CheckUser, GrantGoto, Grant
  <2>2. CASE CreatePlaceholder(g)
    <3>1. [grant[g] EXCEPT !.pc = "insert", !.made = ~Exists(grant[g].target)] \in Grant
      BY DEF Grant, Exists
    <3> QED
      BY <2>2, <3>1 DEF CreatePlaceholder
  <2>3. CASE InsertAssignment(g)
    BY <2>3 DEF InsertAssignment, GrantGoto, Grant
  <2>4. CASE CommitGrant(g)
    <3>1. /\ [grant[g] EXCEPT !.pc = "granted", !.late = TRUE] \in Grant
          /\ [grant[g] EXCEPT !.pc = "granted", !.late = FALSE] \in Grant
      BY DEF Grant
    <3>2. grant' \in [Grants -> Grant]
      BY <2>4, <3>1 DEF CommitGrant
    <3>3. grant[g].target \in Ids \cup {NoOne}
      BY DEF Grant
    <3>4. users' \in [Ids -> Emails \cup {NoEmail, Absent}]
      BY <2>4 DEF CommitGrant, MadeForEmail, Ids
    <3>5. owner' \in [Grants -> Ids \cup {NoOne}]
      BY <2>4, <3>3 DEF CommitGrant
    <3> QED
      BY <2>4, <3>2, <3>4, <3>5 DEF CommitGrant
  <2> QED
    BY <1>6, <2>1, <2>2, <2>3, <2>4 DEF GrantStep
<1>7. ASSUME NEW g \in Grants, GrantFails(g)
      PROVE  TypeOK'
  BY <1>7, BoundsAssumption DEF GrantFails, GrantGoto, Grant
<1>8. ASSUME NEW g \in Grants, Revoke(g)
      PROVE  TypeOK'
  <2>1. [grant[g] EXCEPT !.pc = "revoked"] \in Grant
    BY DEF Grant
  <2>2. grant' \in [Grants -> Grant]
    BY <1>8, <2>1 DEF Revoke, GrantGoto
  <2> QED
    BY <1>8, <2>2 DEF Revoke
<1>9. CASE UNCHANGED vars
  BY <1>9 DEF vars
<1> QED
  BY <1>1, <1>2, <1>3, <1>4, <1>5, <1>6, <1>7, <1>8, <1>9 DEF Next

\* Types: every state of the specification has the tables, caches, requests
\* and grants that TypeOK names.
THEOREM TypeCorrect == Spec => [](TypeOK /\ MadeForEmail)
  BY TypeInit, TypeStep, PTL DEF Spec

-----------------------------------------------------------------------------
(* The inductive invariant behind the safety properties.                   *)

Merging(q) == req[q].pc \in {"transfer", "delete"}

\* The e-mail of a request is one its subject's tokens carry, and a request
\* that follows a placeholder has one.
ClaimsOfRequests ==
  \A q \in Requests : req[q].pc # "idle" =>
    /\ req[q].email \in Claims[req[q].sub]
    /\ req[q].pc \in InMerge => req[q].email \in Emails

\* While a merge is open its real user has no committed row, and no other
\* merge, in this process or another, is creating the same user.
MergeCreates ==
  /\ \A q \in Requests : Merging(q) => ~Exists(req[q].sub)
  /\ \A q, o \in Requests : Merging(q) /\ Merging(o) /\ req[q].sub = req[o].sub => q = o

\* The rows a merge has transferred are still the placeholder's until it
\* commits; what the placeholder has besides them was committed too late.
MergeMoves ==
  \A q \in Requests : req[q].pc = "delete" =>
    \A g \in Grants :
      /\ g \in req[q].moved => owner[g] = req[q].email
      /\ g \notin req[q].moved /\ owner[g] = req[q].email => grant[g].late

\* An assignment row is the outcome of an acknowledged grant.
RowsAreGranted == \A g \in Grants : owner[g] # NoOne => grant[g].pc = "granted"

\* A grant about to commit has met its foreign key and its unique key, and
\* no step of anybody else takes either away.
CommitReady ==
  \A g \in Grants : grant[g].pc = "commit" =>
    /\ grant[g].made \/ Exists(grant[g].target)
    /\ \A o \in Grants :
         /\ owner[o] = grant[g].target => grant[o].role # grant[g].role
         /\ /\ grant[o].pc = "commit"
            /\ grant[o].target = grant[g].target
            /\ grant[o].role = grant[g].role
            => o = g

\* A row that is about to be updated is there.
UpdateFindsRow == \A q \in Requests : req[q].pc = "update" => Exists(req[q].sub)

IInv ==
  /\ TypeOK /\ MadeForEmail
  /\ ClaimsOfRequests /\ MergeCreates /\ MergeMoves
  /\ RowsAreGranted /\ CommitReady /\ UpdateFindsRow
  /\ KeysHold /\ CacheSound /\ GrantsHonoured

\* The parts of IInv that speak of the two tables and the grants alone.
Tables == RowsAreGranted /\ CommitReady /\ KeysHold /\ GrantsHonoured

\* The parts that speak of the requests.
Sessions == ClaimsOfRequests /\ MergeCreates /\ MergeMoves /\ UpdateFindsRow

\* At the start nobody is logging in, and the rows are those of Invited.
LEMMA IInvInit == Init => IInv
<1> SUFFICES ASSUME Init PROVE IInv
  OBVIOUS
<1>1. PICK r \in Roles :
        grant = [g \in Grants |->
                   IF Invited[g] = NoOne THEN NoGrant
                   ELSE [pc |-> "granted", target |-> Invited[g], role |-> r,
                         made |-> TRUE, late |-> FALSE]]
  BY DEF Init
<1>2. \A q \in Requests : req[q].pc = "idle"
  BY DEF Init, IdleRequest
<1>3. \A g \in Grants : owner[g] = Invited[g] /\ Invited[g] \in Emails \cup {NoOne}
  BY InvitedAssumption DEF Init
<1>4. \A g \in Grants : Invited[g] # NoOne =>
        /\ Exists(Invited[g])
        /\ grant[g].pc = "granted" /\ grant[g].target = Invited[g]
  BY <1>1, <1>3, IdsAssumption DEF Init, Exists, Ids
<1>5. \A g \in Grants : grant[g].pc = IF Invited[g] = NoOne THEN "idle" ELSE "granted"
  BY <1>1 DEF NoGrant
<1>6. Sessions
  BY <1>2 DEF Sessions, ClaimsOfRequests, MergeCreates, Merging, MergeMoves, UpdateFindsRow
<1>7. RowsAreGranted /\ CommitReady
  BY <1>3, <1>4, <1>5 DEF RowsAreGranted, CommitReady
<1>8. KeysHold
  BY <1>3, <1>4, InvitedAssumption DEF KeysHold
<1>9. GrantsHonoured
  BY <1>3, <1>4, <1>5 DEF GrantsHonoured, Acknowledged, For
<1>10. CacheSound
  BY DEF Init, CacheSound
<1> QED
  BY TypeInit, <1>6, <1>7, <1>8, <1>9, <1>10 DEF IInv, Sessions

\* A step that touches neither table nor the grants keeps what is said of them.
LEMMA TablesFrame ==
  ASSUME Tables, UNCHANGED <<users, owner, grant>>
  PROVE  Tables'
BY DEF Tables, RowsAreGranted, CommitReady, KeysHold, GrantsHonoured, Exists, Acknowledged

\* A step that changes nothing but one request's record, and leaves it before
\* its merge has written or drops it, keeps what is said of the requests.
LEMMA SessionsFrame ==
  ASSUME TypeOK, Sessions, NEW q \in Requests, NEW rec,
         req' = [req EXCEPT ![q] = rec],
         UNCHANGED <<users, owner, grant>>,
         rec.pc # "idle" => /\ rec.email \in Claims[rec.sub]
                            /\ rec.pc \in InMerge => rec.email \in Emails,
         rec.pc \notin {"transfer", "delete"},
         rec.pc = "update" => Exists(rec.sub)
  PROVE  Sessions'
<1>1. \A o \in Requests : req'[o] = IF o = q THEN rec ELSE req[o]
  BY DEF TypeOK
<1>2. ClaimsOfRequests'
  BY <1>1 DEF Sessions, ClaimsOfRequests
<1>3. MergeCreates'
  BY <1>1 DEF Sessions, MergeCreates, Merging, Exists
<1>4. MergeMoves'
  BY <1>1 DEF Sessions, MergeMoves
<1>5. UpdateFindsRow'
  BY <1>1 DEF Sessions, UpdateFindsRow, Exists
<1> QED
  BY <1>2, <1>3, <1>4, <1>5 DEF Sessions

\* A request that moves to another statement leaves everything else alone.
LEMMA GotoFrame ==
  ASSUME TypeOK, Sessions, NEW q \in Requests, NEW pc \in LoginPcs,
         req[q].pc # "idle", Goto(q, pc),
         UNCHANGED <<users, owner, grant>>,
         pc \in InMerge => req[q].email \in Emails,
         pc \notin {"transfer", "delete"},
         pc = "update" => Exists(req[q].sub)
  PROVE  Sessions'
<1> DEFINE rec == [req[q] EXCEPT !.pc = pc]
<1>1. req[q] \in ActiveRequest
  BY ActiveFields
<1>2. rec.pc = pc /\ rec.email = req[q].email /\ rec.sub = req[q].sub
  BY <1>1 DEF ActiveRequest
<1>3. req' = [req EXCEPT ![q] = rec]
  BY DEF Goto
<1>4. rec.email \in Claims[rec.sub]
  BY <1>2 DEF Sessions, ClaimsOfRequests
<1> HIDE DEF rec
<1> QED
  BY <1>2, <1>3, <1>4, SessionsFrame

\* A request that leaves has no part in the invariant any more.
LEMMA LeaveFrame ==
  ASSUME TypeOK, Sessions, NEW q \in Requests, Leave(q),
         UNCHANGED <<users, owner, grant>>
  PROVE  Sessions'
<1>1. IdleRequest.pc = "idle"
  BY DEF IdleRequest
<1>2. req' = [req EXCEPT ![q] = IdleRequest]
  BY DEF Leave
<1> QED
  BY <1>1, <1>2, SessionsFrame

\* A request comes in.
LEMMA LoginPreserves ==
  ASSUME IInv, NEW q \in Requests, NEW p \in Replicas, NEW s \in Subjects,
         NEW e \in Claims[s], Login(q, p, s, e)
  PROVE  (Tables /\ Sessions /\ CacheSound)'
<1> DEFINE rec == [pc |-> "wait", at |-> p, sub |-> s, email |-> e, moved |-> {}]
<1>1. Sessions'
  <2>1. req' = [req EXCEPT ![q] = rec]
    BY DEF Login
  <2> QED
    BY <2>1, SessionsFrame DEF IInv, Sessions, Login
<1>2. CacheSound'
  BY DEF IInv, CacheSound, Login, Exists
<1> QED
  BY <1>1, <1>2, TablesFrame DEF IInv, Tables, Login

\* A request takes its lock and finds a placeholder, or none.
LEMMA FindPlaceholderPreserves ==
  ASSUME IInv, NEW q \in Requests, FindPlaceholder(q)
  PROVE  (Tables /\ Sessions /\ CacheSound)'
<1> DEFINE pc == IF req[q].email # NoEmail /\ Placeholder(req[q].email) THEN "create" ELSE "get"
<1>1. req[q].email \in Emails \cup {NoEmail}
  BY ActiveFields DEF FindPlaceholder, IInv
<1>2. Goto(q, pc)
  BY DEF FindPlaceholder
<1>3. pc \in {"create", "get"} /\ (pc \in InMerge => req[q].email \in Emails)
  BY <1>1
<1> HIDE DEF pc
<1>4. Sessions'
  BY <1>2, <1>3, GotoFrame DEF IInv, Sessions, FindPlaceholder
<1>5. CacheSound'
  BY DEF IInv, CacheSound, FindPlaceholder, Exists
<1> QED
  BY <1>4, <1>5, TablesFrame DEF IInv, Tables, FindPlaceholder

\* A request misses a placeholder or a user that is there: what it does not
\* see, it leaves as it is.
LEMMA MissPreserves ==
  ASSUME IInv, NEW q \in Requests, MissPlaceholder(q) \/ MissUser(q)
  PROVE  (Tables /\ Sessions /\ CacheSound)'
<1>1. PICK pc \in {"get", "insert"} : Goto(q, pc)
  BY DEF MissPlaceholder, MissUser
<1>2. req[q].pc # "idle" /\ UNCHANGED <<users, owner, cached, grant>>
  BY DEF MissPlaceholder, MissUser
<1>3. Sessions'
  BY <1>1, <1>2, GotoFrame DEF IInv, Sessions
<1>4. CacheSound'
  BY <1>2 DEF IInv, CacheSound, Exists
<1> QED
  BY <1>2, <1>3, <1>4, TablesFrame DEF IInv, Tables

\* A merge opens: no other merge creates this user, and no row is there.
LEMMA CreateRealUserPreserves ==
  ASSUME IInv, NEW q \in Requests, CreateRealUser(q)
  PROVE  (Tables /\ Sessions /\ CacheSound)'
<1>1. req[q] \in ActiveRequest
  BY ActiveFields DEF CreateRealUser, IInv
<1>2. Sessions'
  <2>1. CASE Leave(q)
    BY <2>1, LeaveFrame DEF IInv, Sessions, CreateRealUser
  <2>2. CASE ~Exists(req[q].sub) /\ Goto(q, "transfer")
    <3>1. \A o \in Requests :
            /\ o # q => req'[o] = req[o]
            /\ req'[q].pc = "transfer"
            /\ req'[q].sub = req[q].sub /\ req'[q].email = req[q].email
      BY <1>1, <2>2 DEF Goto, IInv, TypeOK, ActiveRequest
    <3>2. ClaimsOfRequests'
      BY <3>1 DEF IInv, ClaimsOfRequests, CreateRealUser
    <3>3. MergeCreates'
      BY <2>2, <3>1 DEF IInv, MergeCreates, Merging, CreateRealUser, PendingUser, Exists
    <3>4. MergeMoves'
      BY <3>1 DEF IInv, MergeMoves, CreateRealUser
    <3>5. UpdateFindsRow'
      BY <3>1 DEF IInv, UpdateFindsRow, CreateRealUser, Exists
    <3> QED
      BY <3>2, <3>3, <3>4, <3>5 DEF Sessions
  <2> QED
    BY <2>1, <2>2 DEF CreateRealUser
<1>3. CacheSound'
  BY DEF IInv, CacheSound, CreateRealUser, Exists
<1> QED
  BY <1>2, <1>3, TablesFrame DEF IInv, Tables, CreateRealUser

\* What a merge moves is the placeholder's, all of it.
LEMMA TransferRolesPreserves ==
  ASSUME IInv, NEW q \in Requests, TransferRoles(q)
  PROVE  (Tables /\ Sessions /\ CacheSound)'
<1> DEFINE rows == {g \in Grants : owner[g] = req[q].email}
<1>1. req[q] \in ActiveRequest
  BY ActiveFields DEF TransferRoles, IInv
<1>2. \A o \in Requests :
        /\ o # q => req'[o] = req[o]
        /\ req'[q].pc = "delete" /\ req'[q].moved = rows
        /\ req'[q].sub = req[q].sub /\ req'[q].email = req[q].email
  <2>1. req' = [req EXCEPT ![q] = [req[q] EXCEPT !.moved = rows, !.pc = "delete"]]
    BY DEF TransferRoles
  <2> HIDE DEF rows
  <2> QED
    BY <1>1, <2>1 DEF IInv, TypeOK, ActiveRequest
<1> HIDE DEF rows
<1>0. req[q].pc = "transfer" /\ UNCHANGED <<users, owner, cached, grant>>
  BY DEF TransferRoles
<1>3. ClaimsOfRequests'
  BY <1>0, <1>2 DEF IInv, ClaimsOfRequests
<1>4. MergeCreates'
  BY <1>0, <1>2 DEF IInv, MergeCreates, Merging, Exists
<1>5. MergeMoves'
  BY <1>0, <1>2 DEF IInv, MergeMoves, rows
<1>6. UpdateFindsRow'
  BY <1>0, <1>2 DEF IInv, UpdateFindsRow, Exists
<1>7. CacheSound'
  BY DEF IInv, CacheSound, TransferRoles, Exists
<1> QED
  BY <1>3, <1>4, <1>5, <1>6, <1>7, TablesFrame DEF IInv, Tables, Sessions, TransferRoles

\* The commit of a merge.
LEMMA DeletePlaceholderPreserves ==
  ASSUME IInv, NEW q \in Requests, DeletePlaceholder(q)
  PROVE  (Tables /\ Sessions /\ CacheSound)'
<1> DEFINE e == req[q].email
           s == req[q].sub
<1>0. req[q].pc = "delete" /\ UNCHANGED grant
  BY DEF DeletePlaceholder
<1>1. s \in Subjects /\ e \in Emails /\ e \in Claims[s] /\ s # e /\ req[q].at \in Replicas
  BY <1>0, ActiveFields, IdsAssumption DEF IInv, ClaimsOfRequests
<1>2. ~Exists(s)
  BY <1>0 DEF IInv, MergeCreates, Merging
<1>3. \A i \in Ids : users'[i] = IF i = s THEN e ELSE IF i = e THEN Absent ELSE users[i]
  BY <1>1 DEF DeletePlaceholder, IInv, TypeOK, Ids
<1>4. \A g \in Grants :
        owner'[g] = IF g \in req[q].moved THEN s
                    ELSE IF owner[g] = e THEN NoOne ELSE owner[g]
  BY DEF DeletePlaceholder
<1>5. \A g \in Grants : owner[g] \in Ids \cup {NoOne} /\ owner[g] # s
  BY <1>1, <1>2, IdsAssumption DEF IInv, TypeOK, KeysHold, Ids
<1>6. /\ \A g \in Grants : g \in req[q].moved => owner[g] = e
      /\ \A g \in Grants : g \notin req[q].moved /\ owner[g] = e => grant[g].late
  BY <1>0 DEF IInv, MergeMoves
<1>7. \A o \in Requests : req'[o] = IF o = q THEN IdleRequest ELSE req[o]
  BY DEF DeletePlaceholder, Admit, Leave, IInv, TypeOK
<1>8. IdleRequest.pc = "idle"
  BY DEF IdleRequest
<1>9. \A p \in Replicas : cached'[p] \subseteq cached[p] \cup {s}
  BY DEF DeletePlaceholder, Admit, IInv, TypeOK
<1>10. /\ ~LockedUser(e)
       /\ \A o \in Requests \ {q} : req[o].pc = "delete" => \A g \in req[o].moved : owner[g] # e
  BY DEF DeletePlaceholder
<1>11. e # Absent /\ s # NoOne /\ e # NoOne /\ NoOne \notin Ids
  BY <1>1, IdsAssumption DEF Ids
<1> HIDE DEF e, s
<1>12. RowsAreGranted'
  BY <1>0, <1>4, <1>6, <1>11 DEF IInv, RowsAreGranted
<1>13. CommitReady'
  <2> SUFFICES ASSUME NEW g \in Grants, grant[g].pc = "commit"
               PROVE  /\ grant[g].made \/ Exists(grant[g].target)'
                      /\ \A o \in Grants : owner'[o] = grant[g].target => grant[o].role # grant[g].role
    BY <1>0 DEF IInv, CommitReady
  <2>1. grant[g].target \in Ids \cup {NoOne}
    BY DEF IInv, TypeOK, Grant
  <2>2. grant[g].target # s
    BY <1>1, <1>2, IdsAssumption DEF IInv, CommitReady, MadeForEmail
  <2>3. \A o \in Grants : owner[o] = grant[g].target => grant[o].role # grant[g].role
    BY DEF IInv, CommitReady
  <2>4. CASE grant[g].made
    <3>1. grant[g].target \in Emails
      BY <2>4 DEF IInv, MadeForEmail
    <3> QED
      BY <2>2, <2>3, <2>4, <3>1, <1>4, <1>11, IdsAssumption DEF Ids
  <2>5. CASE ~grant[g].made
    <3>1. grant[g].target # e
      BY <2>5, <1>10 DEF LockedUser
    <3>2. Exists(grant[g].target)
      BY <2>5 DEF IInv, CommitReady
    <3>3. grant[g].target \in Ids
      BY DEF IInv, MadeForEmail
    <3>4. Exists(grant[g].target)'
      BY <2>2, <3>1, <3>2, <3>3, <1>0, <1>3 DEF Exists
    <3>5. \A o \in Grants : owner'[o] = grant[g].target => grant[o].role # grant[g].role
      BY <2>2, <2>3, <3>3, <1>4, <1>11
    <3> QED
      BY <3>4, <3>5
  <2> QED
    BY <2>4, <2>5
<1>14. KeysHold'
  BY <1>0, <1>1, <1>3, <1>4, <1>5, <1>6, <1>11 DEF IInv, KeysHold, Exists, Ids
<1>15. GrantsHonoured'
  <2> SUFFICES ASSUME NEW g \in Grants, grant[g].pc = "granted", ~grant[g].late
               PROVE  owner'[g] \in For(grant[g].target)
    BY <1>0 DEF GrantsHonoured, Acknowledged
  <2>1. owner[g] \in For(grant[g].target)
    BY DEF IInv, GrantsHonoured, Acknowledged
  <2>2. CASE g \in req[q].moved
    BY <2>1, <2>2, <1>1, <1>4, <1>6, IdsAssumption DEF For
  <2>3. CASE g \notin req[q].moved
    BY <2>1, <2>3, <1>4, <1>6
  <2> QED
    BY <2>2, <2>3
<1>16. ClaimsOfRequests'
  BY <1>7, <1>8 DEF IInv, ClaimsOfRequests
<1>17. MergeCreates'
  <2>1. ASSUME NEW o \in Requests, Merging(o)'
        PROVE  o # q /\ Merging(o) /\ req'[o] = req[o] /\ req[o].sub \in Subjects /\ req[o].sub # s
    <3>1. o # q /\ req'[o] = req[o] /\ Merging(o)
      BY <2>1, <1>7, <1>8 DEF Merging
    <3>2. req[o].sub \in Subjects
      BY <3>1, ActiveFields DEF IInv, Merging
    <3>3. Merging(q)
      BY <1>0 DEF Merging
    <3>4. req[o].sub # s
      BY <3>1, <3>3 DEF IInv, MergeCreates, s
    <3> QED
      BY <3>1, <3>2, <3>4
  <2>2. \A o \in Requests : Merging(o)' => (~Exists(req[o].sub))'
    <3> SUFFICES ASSUME NEW o \in Requests, Merging(o)' PROVE users'[req[o].sub] = Absent
      BY <2>1 DEF Exists
    <3>1. ~Exists(req[o].sub)
      BY <2>1 DEF IInv, MergeCreates
    <3> QED
      BY <2>1, <3>1, <1>3 DEF Exists, Ids
  <2> QED
    BY <2>1, <2>2 DEF IInv, MergeCreates
<1>18. MergeMoves'
  <2> SUFFICES ASSUME NEW o \in Requests, req'[o].pc = "delete", NEW g \in Grants
               PROVE  /\ g \in req'[o].moved => owner'[g] = req'[o].email
                      /\ g \notin req'[o].moved /\ owner'[g] = req'[o].email => grant[g].late
    BY <1>0 DEF MergeMoves
  <2>1. o # q /\ req'[o] = req[o] /\ req[o].pc = "delete"
    BY <1>7, <1>8
  <2>2. req[o].email \in Emails
    BY <2>1 DEF IInv, ClaimsOfRequests
  <2>3. req[o].email # s /\ req[o].email # NoOne
    BY <2>2, <1>1, IdsAssumption
  <2>4. /\ g \in req[o].moved => owner[g] = req[o].email
        /\ g \notin req[o].moved /\ owner[g] = req[o].email => grant[g].late
    BY <2>1 DEF IInv, MergeMoves
  <2>5. g \in req[o].moved => owner[g] # e
    BY <2>1, <1>10
  <2> QED
    BY <2>1, <2>3, <2>4, <2>5, <1>4, <1>6
<1>19. UpdateFindsRow'
  <2>1. ASSUME NEW o \in Requests, req'[o].pc = "update"
        PROVE  req'[o] = req[o] /\ Exists(req[o].sub) /\ req[o].sub \in Subjects
    BY <2>1, <1>7, <1>8, ActiveFields DEF IInv, UpdateFindsRow
  <2> QED
    BY <2>1, <1>3, <1>1, <1>11, IdsAssumption DEF UpdateFindsRow, Exists, Ids
<1>20. CacheSound'
  BY <1>1, <1>3, <1>9, <1>11, IdsAssumption DEF IInv, TypeOK, CacheSound, Exists, Ids
<1> QED
  BY <1>12, <1>13, <1>14, <1>15, <1>16, <1>17, <1>18, <1>19, <1>20 DEF Tables, Sessions

-----------------------------------------------------------------------------
(* Log-ins that follow no placeholder.                                     *)

\* Rows of users that are added or rewritten disturb neither table's keys.
LEMMA TablesGrow ==
  ASSUME TypeOK, MadeForEmail, Tables, UNCHANGED <<owner, grant>>,
         \A i \in Ids : Exists(i) => (Exists(i))'
  PROVE  Tables'
<1>1. \A g \in Grants : owner[g] \in Ids \cup {NoOne}
  BY DEF TypeOK
<1>2. \A g \in Grants : grant[g].pc = "commit" => grant[g].target \in Ids
  BY DEF MadeForEmail
<1>3. RowsAreGranted' /\ GrantsHonoured'
  BY DEF Tables, RowsAreGranted, GrantsHonoured, Acknowledged
<1>4. KeysHold'
  BY <1>1 DEF Tables, KeysHold
<1>5. CommitReady'
  BY <1>2 DEF Tables, CommitReady
<1> QED
  BY <1>3, <1>4, <1>5 DEF Tables

\* Requests that leave, while the rows of subjects only grow and none appears
\* that an open merge is creating.
LEMMA SessionsShrink ==
  ASSUME TypeOK, Sessions, UNCHANGED <<owner, grant>>,
         \A o \in Requests : req'[o] = req[o] \/ req'[o] = IdleRequest,
         \A i \in Subjects : Exists(i) => (Exists(i))',
         \A i \in Subjects : (Exists(i))' /\ ~Exists(i) => ~PendingUser(i)
  PROVE  Sessions'
<1>1. \A o \in Requests : req'[o].pc # "idle" => req'[o] = req[o] /\ req[o].sub \in Subjects
  BY ActiveFields DEF IdleRequest
<1>2. ClaimsOfRequests'
  BY <1>1 DEF Sessions, ClaimsOfRequests
<1>3. MergeCreates'
  <2>1. ASSUME NEW o \in Requests, Merging(o)'
        PROVE  req'[o] = req[o] /\ Merging(o) /\ req[o].sub \in Subjects
    BY <2>1, <1>1 DEF Merging
  <2>2. ASSUME NEW o \in Requests, Merging(o)'
        PROVE  (~Exists(req[o].sub))'
    <3>1. ~Exists(req[o].sub) /\ PendingUser(req[o].sub)
      BY <2>1, <2>2 DEF Sessions, MergeCreates, PendingUser, Merging
    <3> QED
      BY <2>1, <2>2, <3>1 DEF Exists
  <2> QED
    BY <2>1, <2>2 DEF Sessions, MergeCreates
<1>4. MergeMoves'
  BY <1>1 DEF Sessions, MergeMoves
<1>5. UpdateFindsRow'
  BY <1>1 DEF Sessions, UpdateFindsRow, Exists
<1> QED
  BY <1>2, <1>3, <1>4, <1>5 DEF Sessions

\* A request without a placeholder finds its user, or not.
LEMMA GetUserPreserves ==
  ASSUME IInv, NEW q \in Requests, GetUser(q)
  PROVE  (Tables /\ Sessions /\ CacheSound)'
<1>0. req[q].pc = "get" /\ UNCHANGED <<users, owner, grant>>
  BY DEF GetUser
<1>1. Tables'
  BY <1>0, TablesFrame DEF IInv, Tables
<1>2. CASE ~Exists(req[q].sub) /\ Goto(q, "insert") /\ UNCHANGED cached
  BY <1>0, <1>1, <1>2, GotoFrame DEF IInv, Sessions, CacheSound, Exists
<1>3. CASE Exists(req[q].sub) /\ Goto(q, "update") /\ UNCHANGED cached
  BY <1>0, <1>1, <1>3, GotoFrame DEF IInv, Sessions, CacheSound, Exists
<1>4. CASE Exists(req[q].sub) /\ Admit(q)
  <2>1. Sessions'
    BY <1>0, <1>4, LeaveFrame DEF Admit, IInv, Sessions
  <2>2. \A p \in Replicas : cached'[p] \subseteq cached[p] \cup {req[q].sub}
    BY <1>4 DEF Admit, IInv, TypeOK
  <2>3. CacheSound'
    BY <1>0, <1>4, <2>2 DEF IInv, CacheSound, Exists
  <2> QED
    BY <1>1, <2>1, <2>3
<1> QED
  BY <1>2, <1>3, <1>4 DEF GetUser

\* A subject's row is inserted or rewritten, and the request let in.
LEMMA AdmitPreserves ==
  ASSUME IInv, NEW q \in Requests, NEW e \in Emails \cup {NoEmail},
         req[q].sub \in Subjects, Admit(q), UNCHANGED <<owner, grant>>,
         users' = [users EXCEPT ![req[q].sub] = e],
         Exists(req[q].sub) \/ ~PendingUser(req[q].sub)
  PROVE  (Tables /\ Sessions /\ CacheSound)'
<1>1. \A i \in Ids : users'[i] = IF i = req[q].sub THEN e ELSE users[i]
  BY DEF IInv, TypeOK
<1>2. e # Absent
  BY IdsAssumption
<1>3. \A i \in Ids : (Exists(i))' <=> Exists(i) \/ i = req[q].sub
  BY <1>1, <1>2 DEF Exists
<1>4. Tables'
  BY <1>3, TablesGrow DEF IInv, Tables
<1>5. \A o \in Requests : req'[o] = req[o] \/ req'[o] = IdleRequest
  BY DEF Admit, Leave, IInv, TypeOK
<1>6. Sessions'
  BY <1>3, <1>5, SessionsShrink DEF IInv, Sessions, Ids
<1>7. \A p \in Replicas : cached'[p] \subseteq cached[p] \cup {req[q].sub}
  BY DEF Admit, IInv, TypeOK
<1>8. CacheSound'
  BY <1>3, <1>7 DEF IInv, TypeOK, CacheSound, Ids
<1> QED
  BY <1>4, <1>6, <1>8

\* A new user's row disturbs no merge of that user: none is open.
LEMMA CreateUserPreserves ==
  ASSUME IInv, NEW q \in Requests, CreateUser(q)
  PROVE  (Tables /\ Sessions /\ CacheSound)'
<1>1. req[q].sub \in Subjects /\ req[q].email \in Emails \cup {NoEmail}
  BY ActiveFields DEF CreateUser, IInv
<1>2. CASE Leave(q) /\ UNCHANGED <<users, cached>>
  BY <1>2, LeaveFrame, TablesFrame DEF CreateUser, IInv, Sessions, Tables, CacheSound, Exists
<1>3. CASE users' = [users EXCEPT ![req[q].sub] = req[q].email] /\ Admit(q)
  BY <1>1, <1>3, AdmitPreserves DEF CreateUser
<1> QED
  BY <1>2, <1>3 DEF CreateUser

\* The row that is updated is there.
LEMMA UpdateEmailPreserves ==
  ASSUME IInv, NEW q \in Requests, UpdateEmail(q)
  PROVE  (Tables /\ Sessions /\ CacheSound)'
<1>1. req[q].sub \in Subjects /\ req[q].email \in Emails \cup {NoEmail}
  BY ActiveFields DEF UpdateEmail, IInv
<1>2. Exists(req[q].sub)
  BY DEF UpdateEmail, IInv, UpdateFindsRow
<1>3. users' = [users EXCEPT ![req[q].sub] = req[q].email]
  BY <1>2 DEF UpdateEmail, Exists
<1> QED
  BY <1>1, <1>2, <1>3, AdmitPreserves DEF UpdateEmail

\* A failed statement, and a restart of a process.
LEMMA FaultsPreserve ==
  ASSUME IInv, (\E q \in Requests : LoginFails(q)) \/ (\E p \in Replicas : Restart(p))
  PROVE  (Tables /\ Sessions /\ CacheSound)'
<1>0. UNCHANGED <<users, owner, grant>>
  BY DEF LoginFails, Restart
<1>1. \A o \in Requests : req'[o] = req[o] \/ req'[o] = IdleRequest
  BY DEF LoginFails, Leave, Restart, IInv, TypeOK
<1>2. \A p \in Replicas : cached'[p] \subseteq cached[p]
  BY DEF LoginFails, Restart, IInv, TypeOK
<1>3. CacheSound'
  BY <1>0, <1>2 DEF IInv, CacheSound, Exists
<1>4. Sessions'
  BY <1>0, <1>1, SessionsShrink DEF IInv, Sessions, Exists
<1> QED
  BY <1>0, <1>3, <1>4, TablesFrame DEF IInv, Tables

-----------------------------------------------------------------------------
(* Grants.                                                                 *)

\* A step of a grant that is neither answered nor about to commit, before or
\* after, changes nothing that the invariant speaks of.
LEMMA GrantFrame ==
  ASSUME IInv, NEW g \in Grants, NEW rec, grant' = [grant EXCEPT ![g] = rec],
         grant[g].pc # "granted", rec.pc \notin {"granted", "commit"},
         UNCHANGED <<users, owner, cached, req>>
  PROVE  (Tables /\ Sessions /\ CacheSound)'
<1>1. \A h \in Grants : grant'[h] = IF h = g THEN rec ELSE grant[h]
  BY DEF IInv, TypeOK
<1>2. owner[g] = NoOne
  BY DEF IInv, RowsAreGranted
<1>3. RowsAreGranted'
  BY <1>1, <1>2 DEF IInv, RowsAreGranted
<1>4. CommitReady'
  <2>1. \A h \in Grants : grant[h].pc = "commit" => grant[h].target # NoOne
    BY IdsAssumption DEF IInv, MadeForEmail, Ids
  <2> QED
    BY <1>1, <1>2, <2>1 DEF IInv, CommitReady, Exists
<1>5. KeysHold'
  BY <1>1, <1>2 DEF IInv, KeysHold, Exists
<1>6. GrantsHonoured'
  BY <1>1 DEF IInv, GrantsHonoured, Acknowledged
<1>7. MergeMoves'
  <2>1. \A q \in Requests : req[q].pc = "delete" => req[q].email # NoOne
    BY IdsAssumption DEF IInv, ClaimsOfRequests
  <2> QED
    BY <1>1, <1>2, <2>1 DEF IInv, MergeMoves
<1>8. ClaimsOfRequests' /\ MergeCreates' /\ UpdateFindsRow' /\ CacheSound'
  BY DEF IInv, ClaimsOfRequests, MergeCreates, Merging, UpdateFindsRow, CacheSound, Exists
<1> QED
  BY <1>3, <1>4, <1>5, <1>6, <1>7, <1>8 DEF Tables, Sessions

\* A grant before its INSERT touches no row.
LEMMA EarlyGrantPreserves ==
  ASSUME IInv, NEW g \in Grants,
         \/ \E t \in Ids, r \in Roles, route \in Routes : RequestGrant(g, t, r, route)
         \/ CheckUser(g) \/ CreatePlaceholder(g) \/ GrantFails(g)
  PROVE  (Tables /\ Sessions /\ CacheSound)'
<1>0. grant[g] \in Grant
  BY DEF IInv, TypeOK
<1>1. ASSUME NEW t \in Ids, NEW r \in Roles, NEW route \in Routes, RequestGrant(g, t, r, route)
      PROVE  (Tables /\ Sessions /\ CacheSound)'
  <2> DEFINE rec == [pc |-> "check", target |-> t, role |-> r, made |-> FALSE, late |-> FALSE]
  <2>1. rec.pc = "check" /\ grant' = [grant EXCEPT ![g] = rec]
    BY <1>1 DEF RequestGrant
  <2> HIDE DEF rec
  <2> QED
    BY <1>1, <2>1, GrantFrame DEF RequestGrant
<1>2. ASSUME NEW pc \in GrantPcs, GrantGoto(g, pc), pc \notin {"granted", "commit"},
             grant[g].pc # "granted", UNCHANGED <<users, owner, cached, req>>
      PROVE  (Tables /\ Sessions /\ CacheSound)'
  <2> DEFINE rec == [grant[g] EXCEPT !.pc = pc]
  <2>1. rec.pc = pc /\ grant' = [grant EXCEPT ![g] = rec]
    BY <1>0, <1>2 DEF GrantGoto, Grant
  <2> HIDE DEF rec
  <2> QED
    BY <1>2, <2>1, GrantFrame
<1>3. CASE CheckUser(g)
  BY <1>2, <1>3 DEF CheckUser
<1>4. CASE CreatePlaceholder(g)
  <2> DEFINE rec == [grant[g] EXCEPT !.pc = "insert", !.made = ~Exists(grant[g].target)]
  <2>1. rec.pc = "insert" /\ grant' = [grant EXCEPT ![g] = rec]
    BY <1>0, <1>4 DEF CreatePlaceholder, Grant
  <2> HIDE DEF rec
  <2> QED
    BY <1>4, <2>1, GrantFrame DEF CreatePlaceholder
<1>5. CASE GrantFails(g)
  BY <1>2, <1>5 DEF GrantFails
<1> QED
  BY <1>1, <1>3, <1>4, <1>5

\* A grant that goes on to commit has met its keys.
LEMMA InsertAssignmentPreserves ==
  ASSUME IInv, NEW g \in Grants, InsertAssignment(g)
  PROVE  (Tables /\ Sessions /\ CacheSound)'
<1>0. /\ grant[g] \in Grant /\ grant[g].pc = "insert"
      /\ UNCHANGED <<users, owner, cached, req>>
  BY DEF IInv, TypeOK, InsertAssignment
<1>1. PICK pc \in {"present", "commit", "refused"} :
        /\ GrantGoto(g, pc)
        /\ pc = "commit" => /\ \A o \in Grants : ~Conflicts(g, o)
                            /\ grant[g].made \/ Exists(grant[g].target)
  BY DEF InsertAssignment
<1> DEFINE rec == [grant[g] EXCEPT !.pc = pc]
<1>2. /\ grant' = [grant EXCEPT ![g] = rec]
      /\ \A h \in Grants : grant'[h] = IF h = g THEN rec ELSE grant[h]
  BY <1>1 DEF GrantGoto, IInv, TypeOK
<1>3. /\ rec.pc = pc
      /\ rec.target = grant[g].target /\ rec.role = grant[g].role /\ rec.made = grant[g].made
  BY <1>0 DEF Grant
<1> HIDE DEF rec
<1>4. CASE pc # "commit"
  BY <1>0, <1>2, <1>3, <1>4, GrantFrame
<1>5. CASE pc = "commit"
  <2>1. owner[g] = NoOne
    BY <1>0 DEF IInv, RowsAreGranted
  <2>2. \A h \in Grants : /\ grant'[h].target = grant[h].target
                          /\ grant'[h].role = grant[h].role
                          /\ grant'[h].made = grant[h].made
                          /\ h # g => grant'[h] = grant[h]
                          /\ grant'[h].pc = IF h = g THEN "commit" ELSE grant[h].pc
    BY <1>2, <1>3, <1>5
  <2>3. RowsAreGranted' /\ KeysHold' /\ GrantsHonoured'
    BY <1>0, <2>1, <2>2
    DEF IInv, RowsAreGranted, KeysHold, GrantsHonoured, Acknowledged, Exists
  <2>4. CommitReady'
    <3>1. \A o \in Grants : grant[o].pc = "commit" => ~(/\ grant[o].target = grant[g].target
                                                       /\ grant[o].role = grant[g].role)
      BY <1>0 DEF InsertAssignment
    <3>2. \A o \in Grants : owner[o] = grant[g].target => grant[o].role # grant[g].role
      BY <1>1, <1>5 DEF Conflicts
    <3>3. grant[g].made \/ Exists(grant[g].target)
      BY <1>1, <1>5
    <3> QED
      BY <1>0, <2>2, <3>1, <3>2, <3>3 DEF IInv, CommitReady, Exists
  <2>5. MergeMoves'
    <3>1. \A q \in Requests : req[q].pc = "delete" => req[q].email # NoOne
      BY IdsAssumption DEF IInv, ClaimsOfRequests
    <3> QED
      BY <1>0, <2>1, <2>2, <3>1 DEF IInv, MergeMoves
  <2>6. ClaimsOfRequests' /\ MergeCreates' /\ UpdateFindsRow' /\ CacheSound'
    BY <1>0 DEF IInv, ClaimsOfRequests, MergeCreates, Merging, UpdateFindsRow, CacheSound, Exists
  <2> QED
    BY <2>3, <2>4, <2>5, <2>6 DEF Tables, Sessions
<1> QED
  BY <1>4, <1>5

\* The new row has its user and no equal; late tells whether a merge misses it.
LEMMA CommitGrantPreserves ==
  ASSUME IInv, NEW g \in Grants, CommitGrant(g)
  PROVE  (Tables /\ Sessions /\ CacheSound)'
<1> DEFINE t    == grant[g].target
           late == \E q \in Requests : req[q].pc = "delete" /\ req[q].email = t
<1>0. grant[g] \in Grant /\ grant[g].pc = "commit" /\ UNCHANGED <<cached, req>>
  BY DEF IInv, TypeOK, CommitGrant
<1>1. t \in Ids /\ t \notin {Absent} \cap Emails /\ t # NoOne /\ (grant[g].made => t \in Emails)
  BY <1>0, IdsAssumption DEF IInv, MadeForEmail, Ids
<1>2. \A i \in Ids : users'[i] = IF grant[g].made /\ i = t THEN t ELSE users[i]
  BY DEF CommitGrant, IInv, TypeOK
<1>3. \A h \in Grants : owner'[h] = IF h = g THEN t ELSE owner[h]
  BY DEF CommitGrant, IInv, TypeOK
<1>4. \A h \in Grants : /\ grant'[h].target = grant[h].target
                        /\ grant'[h].role = grant[h].role
                        /\ grant'[h].made = grant[h].made
                        /\ h # g => grant'[h] = grant[h]
                        /\ grant'[h].pc = IF h = g THEN "granted" ELSE grant[h].pc
                        /\ h = g => (grant'[h].late <=> late)
  <2>1. grant' = [grant EXCEPT ![g] = [grant[g] EXCEPT !.pc = "granted", !.late = late]]
    BY DEF CommitGrant
  <2>2. late \in BOOLEAN
    OBVIOUS
  <2> HIDE DEF late, t
  <2> QED
    BY <1>0, <2>1, <2>2 DEF IInv, TypeOK, Grant
<1>5. owner[g] = NoOne
  BY <1>0 DEF IInv, RowsAreGranted
<1>6. /\ grant[g].made \/ Exists(t)
      /\ \A o \in Grants :
           /\ owner[o] = t => grant[o].role # grant[g].role
           /\ grant[o].pc = "commit" /\ grant[o].target = t /\ grant[o].role = grant[g].role => o = g
  BY <1>0 DEF IInv, CommitReady
<1> HIDE DEF t, late
<1>7. \A i \in Ids : (Exists(i))' <=> Exists(i) \/ i = t
  BY <1>1, <1>2, <1>6 DEF Exists
<1>8. RowsAreGranted'
  BY <1>3, <1>4 DEF IInv, RowsAreGranted
<1>9. CommitReady'
  <2> SUFFICES ASSUME NEW h \in Grants, h # g, grant[h].pc = "commit"
               PROVE  /\ grant[h].made \/ (Exists(grant[h].target))'
                      /\ \A o \in Grants :
                           /\ owner'[o] = grant[h].target => grant[o].role # grant[h].role
                           /\ /\ o # g /\ grant[o].pc = "commit"
                              /\ grant[o].target = grant[h].target
                              /\ grant[o].role = grant[h].role
                              => o = h
    BY <1>4 DEF CommitReady
  <2>1. grant[h].target \in Ids
    BY DEF IInv, MadeForEmail
  <2>2. grant[h].target = t => grant[g].role # grant[h].role
    BY <1>6
  <2>3. grant[h].made \/ (Exists(grant[h].target))'
    <3>1. grant[h].made \/ Exists(grant[h].target)
      BY DEF IInv, CommitReady
    <3>2. grant'[h].target = grant[h].target
      BY <1>4
    <3> QED
      BY <1>2, <1>7, <2>1, <3>1, <3>2 DEF Exists
  <2> QED
    BY <1>3, <2>2, <2>3 DEF IInv, CommitReady
<1>10. KeysHold'
  <2>1. \A h \in Grants : owner[h] \in Ids \cup {NoOne}
    BY DEF IInv, TypeOK
  <2>2. \A h \in Grants : owner'[h] # NoOne => (Exists(owner[h]))'
    BY <1>1, <1>3, <1>7, <2>1 DEF IInv, KeysHold
  <2> QED
    BY <1>1, <1>3, <1>4, <1>6, <2>2 DEF IInv, KeysHold
<1>11. GrantsHonoured'
  BY <1>3, <1>4 DEF IInv, GrantsHonoured, Acknowledged, For, t
<1>12. MergeMoves'
  <2>1. \A q \in Requests : req[q].pc = "delete" => g \notin req[q].moved
    BY <1>5, IdsAssumption DEF IInv, MergeMoves, ClaimsOfRequests
  <2>2. \A q \in Requests : req[q].pc = "delete" /\ req[q].email = t => late
    BY DEF late
  <2> QED
    BY <1>0, <1>3, <1>4, <2>1, <2>2 DEF IInv, MergeMoves
<1>13. ClaimsOfRequests'
  BY <1>0 DEF IInv, ClaimsOfRequests
<1>14. \A i \in Subjects : (Exists(i))' <=> Exists(i)
  BY <1>1, <1>2, <1>6, <1>7, IdsAssumption DEF Exists, Ids
<1>15. MergeCreates' /\ UpdateFindsRow'
  <2>1. \A q \in Requests : Merging(q) \/ req[q].pc = "update" => req[q].sub \in Subjects
    BY ActiveFields DEF IInv, Merging
  <2> QED
    BY <1>0, <1>14, <2>1 DEF IInv, MergeCreates, Merging, UpdateFindsRow, Exists
<1>16. CacheSound'
  BY <1>0, <1>14 DEF IInv, TypeOK, CacheSound, Exists
<1> QED
  BY <1>8, <1>9, <1>10, <1>11, <1>12, <1>13, <1>15, <1>16 DEF Tables, Sessions

\* A row goes, and its grant is no longer acknowledged.
LEMMA RevokePreserves ==
  ASSUME IInv, NEW g \in Grants, Revoke(g)
  PROVE  (Tables /\ Sessions /\ CacheSound)'
<1>0. UNCHANGED <<users, cached, req>>
  BY DEF Revoke
<1>1. grant[g].pc = "granted" /\ grant[g] \in Grant
  BY DEF Revoke, IInv, TypeOK, RowsAreGranted
<1>2. \A h \in Grants : owner'[h] = IF h = g THEN NoOne ELSE owner[h]
  BY DEF Revoke, IInv, TypeOK
<1>3. \A h \in Grants : /\ h # g => grant'[h] = grant[h]
                        /\ grant'[h].target = grant[h].target
                        /\ grant'[h].role = grant[h].role
                        /\ grant'[h].made = grant[h].made
                        /\ grant'[g].pc = "revoked"
  BY <1>1 DEF Revoke, GrantGoto, IInv, TypeOK, Grant
<1>4. RowsAreGranted'
  BY <1>2, <1>3 DEF IInv, RowsAreGranted
<1>5. CommitReady'
  <2>1. \A h \in Grants : grant[h].pc = "commit" => grant[h].target # NoOne
    BY IdsAssumption DEF IInv, MadeForEmail, Ids
  <2> QED
    BY <1>0, <1>1, <1>2, <1>3, <2>1 DEF IInv, CommitReady, Exists
<1>6. KeysHold'
  BY <1>0, <1>2, <1>3 DEF IInv, KeysHold, Exists
<1>7. GrantsHonoured'
  BY <1>2, <1>3 DEF IInv, GrantsHonoured, Acknowledged
<1>8. MergeMoves'
  <2>1. \A q \in Requests : req[q].pc = "delete" => g \notin req[q].moved
    BY DEF Revoke, LockedAssignment
  <2>2. \A q \in Requests : req[q].pc = "delete" => req[q].email # NoOne
    BY IdsAssumption DEF IInv, ClaimsOfRequests
  <2> QED
    BY <1>0, <1>2, <1>3, <2>1, <2>2 DEF IInv, MergeMoves
<1>9. ClaimsOfRequests' /\ MergeCreates' /\ UpdateFindsRow' /\ CacheSound'
  BY <1>0 DEF IInv, ClaimsOfRequests, MergeCreates, Merging, UpdateFindsRow, CacheSound, Exists
<1> QED
  BY <1>4, <1>5, <1>6, <1>7, <1>8, <1>9 DEF Tables, Sessions

-----------------------------------------------------------------------------

\* IInv is inductive: one lemma for each action.
LEMMA IInvStep ==
  ASSUME IInv, [Next]_vars
  PROVE  IInv'
<1>1. (TypeOK /\ MadeForEmail)'
  BY TypeStep DEF IInv
<1>2. (Tables /\ Sessions /\ CacheSound)'
  <2>1. ASSUME NEW q \in Requests, NEW p \in Replicas, NEW s \in Subjects,
               NEW e \in Claims[s], Login(q, p, s, e)
        PROVE  (Tables /\ Sessions /\ CacheSound)'
    BY <2>1, LoginPreserves
  <2>2. ASSUME NEW q \in Requests, LoginStep(q)
        PROVE  (Tables /\ Sessions /\ CacheSound)'
    BY <2>2, FindPlaceholderPreserves, CreateRealUserPreserves, TransferRolesPreserves,
       DeletePlaceholderPreserves, GetUserPreserves, CreateUserPreserves, UpdateEmailPreserves
    DEF LoginStep
  <2>3. ASSUME \/ \E q \in Requests : MissPlaceholder(q) \/ MissUser(q) \/ LoginFails(q)
               \/ \E p \in Replicas : Restart(p)
        PROVE  (Tables /\ Sessions /\ CacheSound)'
    BY <2>3, FaultsPreserve, MissPreserves
  <2>4. ASSUME NEW g \in Grants, NEW t \in Ids, NEW r \in Roles, NEW route \in Routes,
               RequestGrant(g, t, r, route)
        PROVE  (Tables /\ Sessions /\ CacheSound)'
    BY <2>4, EarlyGrantPreserves
  <2>5. ASSUME NEW g \in Grants, GrantStep(g) \/ GrantFails(g) \/ Revoke(g)
        PROVE  (Tables /\ Sessions /\ CacheSound)'
    BY <2>5, EarlyGrantPreserves, InsertAssignmentPreserves, CommitGrantPreserves, RevokePreserves
    DEF GrantStep
  <2>6. CASE UNCHANGED vars
    BY <2>6 DEF vars, IInv, Tables, Sessions, RowsAreGranted, CommitReady, KeysHold, GrantsHonoured,
       Acknowledged, ClaimsOfRequests, MergeCreates, Merging, MergeMoves, UpdateFindsRow,
       CacheSound, Exists
  <2> QED
    BY <2>1, <2>2, <2>3, <2>4, <2>5, <2>6 DEF Next
<1> QED
  BY <1>1, <1>2 DEF IInv, Tables, Sessions

\* IInv is inductive.
THEOREM Inductive == Spec => []IInv
  BY IInvInit, IInvStep, PTL DEF Spec

\* No merge and no grant ever breaks the foreign key or the unique key of
\* role_assignments, whatever the interleaving.
THEOREM KeysAlwaysHold == Spec => []KeysHold
<1>1. IInv => KeysHold
  BY DEF IInv
<1> QED
  BY <1>1, Inductive, PTL

\* A process never has a user in its cache whose row is not there.
THEOREM CacheAlwaysSound == Spec => []CacheSound
<1>1. IInv => CacheSound
  BY DEF IInv
<1> QED
  BY <1>1, Inductive, PTL

\* A grant that was answered and not revoked keeps its row, for the user it
\* was made for, unless it committed between the two statements of a merge.
THEOREM GrantsAlwaysHonoured == Spec => []GrantsHonoured
<1>1. IInv => GrantsHonoured
  BY DEF IInv
<1> QED
  BY <1>1, Inductive, PTL
-----------------------------------------------------------------------------
(* The locks of subjects.                                                    *)
\* A request that is inside the lock.
Inside(q) == req[q].pc \in InMerge \cup InUpsert

LEMMA OneAtATimeStep ==
  ASSUME TypeOK, OneAtATime, [Next]_vars
  PROVE  OneAtATime'
\* Every other request stays where it is; the one that steps is inside already,
\* comes out, or finds nobody inside.
<1>1. ASSUME NEW q \in Requests,
             \A o \in Requests \ {q} : req'[o] = req[o],
             \/ ~Inside(q)'
             \/ req'[q].at = req[q].at /\ req'[q].sub = req[q].sub
                /\ (\/ Inside(q)
                    \/ \A o \in Requests : ~HoldsLock(o, req[q].at, req[q].sub))
      PROVE  OneAtATime'
  BY <1>1 DEF OneAtATime, HoldsLock, Inside
<1>2. ASSUME NEW q \in Requests, Leave(q)
      PROVE  OneAtATime'
  <2>1. ~Inside(q)' /\ \A o \in Requests \ {q} : req'[o] = req[o]
    BY <1>2 DEF Leave, IdleRequest, Inside, TypeOK
  <2> QED BY <1>1, <2>1
<1>3. ASSUME NEW q \in Requests, req[q].pc # "idle", NEW pc, Goto(q, pc),
             \/ Inside(q)
             \/ \A o \in Requests : ~HoldsLock(o, req[q].at, req[q].sub)
      PROVE  OneAtATime'
  <2>1. req[q] \in ActiveRequest
    BY <1>3, ActiveFields
  <2>2. /\ req'[q].at = req[q].at /\ req'[q].sub = req[q].sub
        /\ \A o \in Requests \ {q} : req'[o] = req[o]
    BY <1>3, <2>1 DEF Goto, ActiveRequest, TypeOK
  <2> QED BY <1>1, <1>3, <2>2
<1>4. ASSUME NEW q \in Requests, NEW p \in Replicas, NEW s \in Subjects,
             NEW e \in Claims[s], Login(q, p, s, e)
      PROVE  OneAtATime'
  <2>1. ~Inside(q)' /\ \A o \in Requests \ {q} : req'[o] = req[o]
    BY <1>4 DEF Login, Inside, TypeOK
  <2> QED BY <1>1, <2>1
<1>5. ASSUME NEW q \in Requests, LoginStep(q)
      PROVE  OneAtATime'
  <2>1. CASE FindPlaceholder(q)
    BY <1>3, <2>1 DEF FindPlaceholder
  <2>2. CASE CreateRealUser(q)
    BY <1>2, <1>3, <2>2 DEF CreateRealUser, Inside
  <2>3. CASE TransferRoles(q)
    <3>1. req[q] \in ActiveRequest /\ Inside(q)
      BY <2>3, ActiveFields DEF TransferRoles, Inside
    <3>2. /\ req'[q].at = req[q].at /\ req'[q].sub = req[q].sub
          /\ \A o \in Requests \ {q} : req'[o] = req[o]
      BY <2>3, <3>1 DEF TransferRoles, ActiveRequest, TypeOK
    <3> QED BY <1>1, <3>1, <3>2
  <2>4. CASE DeletePlaceholder(q) \/ UpdateEmail(q)
    BY <1>2, <2>4 DEF DeletePlaceholder, UpdateEmail, Admit
  <2>5. CASE GetUser(q)
    BY <1>2, <1>3, <2>5 DEF GetUser, Admit, Inside
  <2>6. CASE CreateUser(q)
    BY <1>2, <2>6 DEF CreateUser, Admit
  <2> QED BY <1>5, <2>1, <2>2, <2>3, <2>4, <2>5, <2>6 DEF LoginStep
<1>6. ASSUME NEW q \in Requests, LoginFails(q) \/ MissPlaceholder(q) \/ MissUser(q)
      PROVE  OneAtATime'
  BY <1>2, <1>3, <1>6 DEF LoginFails, MissPlaceholder, MissUser, Inside
<1>7. ASSUME NEW p \in Replicas, Restart(p)
      PROVE  OneAtATime'
  <2>1. \A q \in Requests : req'[q] = req[q] \/ ~Inside(q)'
    BY <1>7 DEF Restart, IdleRequest, Inside
  <2> QED BY <2>1 DEF OneAtATime, HoldsLock, Inside
<1>8. CASE UNCHANGED req
  BY <1>8 DEF OneAtATime, HoldsLock
<1> QED
  BY <1>4, <1>5, <1>6, <1>7, <1>8
  DEF Next, vars, RequestGrant, GrantStep, CheckUser, CreatePlaceholder, InsertAssignment,
      CommitGrant, GrantFails, Revoke

\* However many requests, processes and failures: two requests of one subject
\* never run ensureUserExists in one process at once (the per-subject mutex of
\* internal/auth, auth.go).
THEOREM OneAlwaysAtATime == Spec => []OneAtATime
<1>1. Init => OneAtATime
  BY DEF Init, IdleRequest, OneAtATime, HoldsLock
<1>2. TypeOK /\ OneAtATime /\ [Next]_vars => OneAtATime'
  BY OneAtATimeStep
<1> QED
  BY <1>1, <1>2, TypeCorrect, PTL DEF Spec
=============================================================================
