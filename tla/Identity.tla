------------------------------ MODULE Identity ------------------------------
(***************************************************************************)
(* Users, invitations and log-ins: ensureUserExists (internal/auth) run by *)
(* every authenticated request, against AssignRole (internal/service) run  *)
(* by whoever grants a role.  Both work on the tables users and            *)
(* role_assignments, one SQL statement at a time, and the two meet in the  *)
(* placeholder: a users row whose user_id is the invited e-mail address.   *)
(*                                                                         *)
(* A step is one statement.  A row written by an open transaction is seen  *)
(* by nobody else, and PostgreSQL (READ COMMITTED) makes the statements    *)
(* that need it wait: that is the meaning of the Pending... and Locked...  *)
(* guards.  A transaction's last statement and its COMMIT are one step.    *)
(***************************************************************************)

EXTENDS Integers

CONSTANTS
  Subjects,    \* user ids of the identity provider (JWT subjects)
  Emails,      \* addresses; a placeholder's user id is one of them
  NoEmail,     \* the empty e-mail claim
  Absent,      \* marks a user id that has no row
  NoOne,       \* owner of an assignment that has no row
  Replicas,    \* server processes, each with its own cache and locks
  Requests,    \* requests in ensureUserExists at the same time (bound)
  Grants,      \* role grants, each with its assignment id (bound)
  Roles,       \* a role at a scope
  Claims,      \* the e-mail claims the tokens of a subject carry
  Routes,      \* how a grant reaches AssignRole: "handler", "service"
  Invited,     \* Invited[g]: address that grant g has invited already, or NoOne
  MaxFaults    \* bound on process restarts and failed statements

ASSUME IdsAssumption ==
  /\ Subjects \cap Emails = {}
  /\ Absent \notin Emails \cup {NoEmail}
  /\ NoEmail \notin Emails
  /\ NoOne \notin Subjects \cup Emails

ASSUME InvitedAssumption ==
  /\ Invited \in [Grants -> Emails \cup {NoOne}]
  /\ \A g, h \in Grants : Invited[g] = Invited[h] /\ Invited[g] # NoOne => g = h

ASSUME ClaimsAssumption == Claims \in [Subjects -> SUBSET (Emails \cup {NoEmail})]

ASSUME BoundsAssumption == Routes \subseteq {"handler", "service"} /\ MaxFaults \in Nat

VARIABLES
  users,    \* users[id]: the email column of the row, or Absent
  owner,    \* owner[g]: user_id of the role_assignments row of grant g
  cached,   \* cached[p]: processedUsers of process p
  req,      \* the requests inside ensureUserExists
  grant,    \* the grants, from the request to its outcome
  faults    \* faults so far

vars == <<users, owner, cached, req, grant, faults>>

Ids == Subjects \cup Emails

InMerge   == {"create", "transfer", "delete"}    \* placeholder found: 228-267
InUpsert  == {"get", "insert", "update"}         \* no placeholder: 272-329
LoginPcs  == {"wait"} \cup InMerge \cup InUpsert
GrantPcs  == {"idle", "check", "placeholder", "insert", "commit",
              "granted", "present", "refused", "revoked"}

IdleRequest == [pc |-> "idle"]

ActiveRequest == [pc : LoginPcs, at : Replicas, sub : Subjects,
                  email : Emails \cup {NoEmail}, moved : SUBSET Grants]

Grant == [pc : GrantPcs, target : Ids \cup {NoOne}, role : Roles \cup {NoOne},
          made : BOOLEAN, late : BOOLEAN]

TypeOK ==
  /\ users \in [Ids -> Emails \cup {NoEmail, Absent}]
  /\ owner \in [Grants -> Ids \cup {NoOne}]
  /\ cached \in [Replicas -> SUBSET Subjects]
  /\ req \in [Requests -> {IdleRequest} \cup ActiveRequest]
  /\ grant \in [Grants -> Grant]
  /\ faults \in 0..MaxFaults

NoGrant == [pc |-> "idle", target |-> NoOne, role |-> NoOne, made |-> FALSE, late |-> FALSE]

\* The invitations of Invited have been made; nobody has logged in.
Init ==
  /\ users = [i \in Ids |-> IF \E g \in Grants : Invited[g] = i THEN i ELSE Absent]
  /\ owner = Invited
  /\ cached = [p \in Replicas |-> {}]
  /\ req = [q \in Requests |-> IdleRequest]
  /\ \E r \in Roles :
       grant = [g \in Grants |->
                  IF Invited[g] = NoOne THEN NoGrant
                  ELSE [pc |-> "granted", target |-> Invited[g], role |-> r,
                        made |-> TRUE, late |-> FALSE]]
  /\ faults = 0

Exists(i)      == users[i] # Absent
Placeholder(e) == users[e] = e

-----------------------------------------------------------------------------
(* Row and key locks held by open transactions.                            *)

\* A merge has inserted the users row of subject s and not committed it.
PendingUser(s) == \E q \in Requests : req[q].pc \in {"transfer", "delete"} /\ req[q].sub = s

\* A grant has inserted a placeholder row for e and not committed it.
PendingPlaceholder(e) ==
  \E g \in Grants : grant[g].pc \in {"insert", "commit"} /\ grant[g].target = e /\ grant[g].made

\* The foreign-key check of an uncommitted assignment holds a key-share lock
\* on the committed users row i.
LockedUser(i) == \E g \in Grants : grant[g].pc = "commit" /\ grant[g].target = i /\ ~grant[g].made

\* A merge has updated the assignment row g and not committed.
LockedAssignment(g) == \E q \in Requests : req[q].pc = "delete" /\ g \in req[q].moved

-----------------------------------------------------------------------------
(* ensureUserExists.                                                       *)

\* The lock of userLocks that the rest of the function runs under.
HoldsLock(q, p, s) ==
  req[q].pc \in InMerge \cup InUpsert /\ req[q].at = p /\ req[q].sub = s

Goto(q, pc) == req' = [req EXCEPT ![q].pc = pc]

\* Mutant: a request that is over keeps what it had read.
LeaveStale(q) == req' = [req EXCEPT ![q].pc = "idle"]
Leave(q)    == req' = [req EXCEPT ![q] = IdleRequest]

\* processedUsers[userID] = true and return nil.
Admit(q) == /\ cached' = [cached EXCEPT ![req[q].at] = @ \cup {req[q].sub}]
            /\ Leave(q)

\* A request whose subject the process has not yet seen; one that it has seen
\* passes at once and changes nothing.
Login(q, p, s, e) ==
  /\ req[q].pc = "idle"
  /\ s \notin cached[p]
  /\ req' = [req EXCEPT ![q] = [pc |-> "wait", at |-> p, sub |-> s, email |-> e, moved |-> {}]]
  /\ UNCHANGED <<users, owner, cached, grant, faults>>

\* Mutants: the lock is not taken; any user with the address is taken for its
\* placeholder, the real one of an earlier log-in too.
FindUnlocked(q) ==
  /\ req[q].pc = "wait"
  /\ Goto(q, IF req[q].email # NoEmail /\ Placeholder(req[q].email) THEN "create" ELSE "get")
  /\ UNCHANGED <<users, owner, cached, grant, faults>>

FindByEmail(q) ==
  /\ req[q].pc = "wait"
  /\ \A o \in Requests : ~HoldsLock(o, req[q].at, req[q].sub)
  /\ Goto(q, IF req[q].email # NoEmail /\ \E i \in Ids : users[i] = req[q].email THEN "create" ELSE "get")
  /\ UNCHANGED <<users, owner, cached, grant, faults>>

\* Take the subject's lock (the cache is not read again) and look for a
\* placeholder of the e-mail claim.
FindPlaceholder(q) ==
  /\ req[q].pc = "wait"
  /\ \A o \in Requests : ~HoldsLock(o, req[q].at, req[q].sub)
  /\ Goto(q, IF req[q].email # NoEmail /\ Placeholder(req[q].email) THEN "create" ELSE "get")
  /\ UNCHANGED <<users, owner, cached, grant, faults>>

\* The query breaks off before its row: nothing asks the rows for their error,
\* and there seems to be no placeholder.
MissPlaceholder(q) ==
  /\ req[q].pc = "wait" /\ req[q].email # NoEmail
  /\ \A o \in Requests : ~HoldsLock(o, req[q].at, req[q].sub)
  /\ faults < MaxFaults
  /\ faults' = faults + 1
  /\ Goto(q, "get")
  /\ UNCHANGED <<users, owner, cached, grant>>

\* Mutant: a row that is there is waited for to go.
CreateRealUserWaiting(q) ==
  /\ req[q].pc = "create"
  /\ ~PendingUser(req[q].sub) /\ ~Exists(req[q].sub)
  /\ Goto(q, "transfer")
  /\ UNCHANGED <<users, owner, cached, grant, faults>>

\* BEGIN; INSERT the real user.  The statement has no ON CONFLICT: a row that
\* is there already fails the request.
CreateRealUser(q) ==
  /\ req[q].pc = "create"
  /\ ~PendingUser(req[q].sub)
  /\ IF Exists(req[q].sub) THEN Leave(q) ELSE Goto(q, "transfer")
  /\ UNCHANGED <<users, owner, cached, grant, faults>>

\* Mutant: nothing is transferred.
TransferNothing(q) ==
  /\ req[q].pc = "transfer"
  /\ Goto(q, "delete")
  /\ UNCHANGED <<users, owner, cached, grant, faults>>

\* UPDATE role_assignments SET user_id = sub WHERE user_id = email: the rows
\* committed by now, after waiting for those another merge has locked.
TransferRoles(q) ==
  /\ req[q].pc = "transfer"
  /\ LET rows == {g \in Grants : owner[g] = req[q].email}
     IN  /\ \A g \in rows : ~LockedAssignment(g)
         /\ req' = [req EXCEPT ![q].moved = rows, ![q].pc = "delete"]
  /\ UNCHANGED <<users, owner, cached, grant, faults>>

\* DELETE the placeholder and COMMIT.  The assignments that still name it go
\* with it (ON DELETE CASCADE), the transferred ones now name the real user.
DeletePlaceholder(q) ==
  /\ req[q].pc = "delete"
  /\ LET e == req[q].email
         s == req[q].sub
     IN  /\ ~LockedUser(e)
         /\ \A o \in Requests \ {q} :
              req[o].pc = "delete" => \A g \in req[o].moved : owner[g] # e
         /\ users' = [users EXCEPT ![s] = e, ![e] = Absent]
         /\ owner' = [g \in Grants |-> IF g \in req[q].moved THEN s
                                       ELSE IF owner[g] = e THEN NoOne ELSE owner[g]]
  /\ Admit(q)
  /\ UNCHANGED <<grant, faults>>

\* No placeholder: read the user's own row.
GetUser(q) ==
  /\ req[q].pc = "get"
  /\ \/ /\ ~Exists(req[q].sub)
        /\ Goto(q, "insert")
        /\ UNCHANGED cached
     \/ /\ Exists(req[q].sub)
        /\ req[q].email \notin {NoEmail, users[req[q].sub]}
        /\ Goto(q, "update")
        /\ UNCHANGED cached
     \/ /\ Exists(req[q].sub)
        /\ req[q].email \in {NoEmail, users[req[q].sub]}
        /\ Admit(q)
  /\ UNCHANGED <<users, owner, grant, faults>>

\* Here too: the query breaks off, and there seems to be no such user.
MissUser(q) ==
  /\ req[q].pc = "get"
  /\ faults < MaxFaults
  /\ faults' = faults + 1
  /\ Goto(q, "insert")
  /\ UNCHANGED <<users, owner, cached, grant>>

\* INSERT the user; a row that is there already fails the request.
CreateUser(q) ==
  /\ req[q].pc = "insert"
  /\ ~PendingUser(req[q].sub)
  /\ \/ /\ Exists(req[q].sub)
        /\ Leave(q)
        /\ UNCHANGED <<users, cached>>
     \/ /\ ~Exists(req[q].sub)
        /\ users' = [users EXCEPT ![req[q].sub] = req[q].email]
        /\ Admit(q)
  /\ UNCHANGED <<owner, grant, faults>>

\* UPDATE users SET email.
UpdateEmail(q) ==
  /\ req[q].pc = "update"
  /\ users' = [users EXCEPT ![req[q].sub] = IF @ = Absent THEN Absent ELSE req[q].email]
  /\ Admit(q)
  /\ UNCHANGED <<owner, grant, faults>>

\* Mutant: the user is cached although the statement failed.
FailsButCached(q) ==
  /\ req[q].pc # "idle"
  /\ faults < MaxFaults
  /\ faults' = faults + 1
  /\ Admit(q)
  /\ UNCHANGED <<users, owner, grant>>

\* A statement fails (lost connection, deadlock victim) and the code sees it:
\* the transaction is rolled back and the request answered with a server error.
LoginFails(q) ==
  /\ req[q].pc # "idle"
  /\ faults < MaxFaults
  /\ faults' = faults + 1
  /\ Leave(q)
  /\ UNCHANGED <<users, owner, cached, grant>>

\* A process restarts: its cache and its requests are gone.
Restart(p) ==
  /\ faults < MaxFaults
  /\ faults' = faults + 1
  /\ cached' = [cached EXCEPT ![p] = {}]
  /\ req' = [q \in Requests |->
               IF req[q].pc # "idle" /\ req[q].at = p THEN IdleRequest ELSE req[q]]
  /\ UNCHANGED <<users, owner, grant>>

-----------------------------------------------------------------------------
(* AssignRole, behind a Create...RoleAssignment handler or called directly. *)

GrantGoto(g, pc) == grant' = [grant EXCEPT ![g].pc = pc]

\* SearchUsers, for a user id or an address given in full.
Matches(t) == {i \in Ids : Exists(i) /\ (i = t \/ users[i] = t)}

\* The handlers go on only when the search finds exactly one user; they then
\* pass on the user_id of the request, not the one that was found.
RequestGrant(g, t, r, route) ==
  /\ grant[g].pc = "idle"
  /\ route = "handler" => \E i \in Ids : Matches(t) = {i}
  /\ grant' = [grant EXCEPT ![g] = [pc |-> "check", target |-> t, role |-> r,
                                     made |-> FALSE, late |-> FALSE]]
  /\ UNCHANGED <<users, owner, cached, req, faults>>

\* BEGIN; does the user exist?  If not, only an e-mail address may go on.
CheckUser(g) ==
  /\ grant[g].pc = "check"
  /\ GrantGoto(g, IF Exists(grant[g].target) THEN "insert"
                  ELSE IF grant[g].target \in Emails THEN "placeholder" ELSE "refused")
  /\ UNCHANGED <<users, owner, cached, req, faults>>

\* INSERT the placeholder ON CONFLICT DO NOTHING.
CreatePlaceholder(g) ==
  /\ grant[g].pc = "placeholder"
  /\ ~PendingPlaceholder(grant[g].target)
  /\ grant' = [grant EXCEPT ![g].pc = "insert", ![g].made = ~Exists(grant[g].target)]
  /\ UNCHANGED <<users, owner, cached, req, faults>>

\* The UNIQUE (user_id, role_id, scope) key of the row to insert is taken.
Conflicts(g, o) == owner[o] = grant[g].target /\ grant[o].role = grant[g].role

\* Mutant: the unique key is not looked at.
InsertDuplicate(g) ==
  /\ grant[g].pc = "insert"
  /\ GrantGoto(g, IF grant[g].made \/ Exists(grant[g].target) THEN "commit" ELSE "refused")
  /\ UNCHANGED <<users, owner, cached, req, faults>>

\* INSERT the assignment ON CONFLICT DO NOTHING; its foreign key must hold.
InsertAssignment(g) ==
  /\ grant[g].pc = "insert"
  /\ \A o \in Grants : Conflicts(g, o) => ~LockedAssignment(o)
  /\ \A o \in Grants \ {g} :
       ~(/\ grant[o].pc = "commit"
         /\ grant[o].target = grant[g].target
         /\ grant[o].role = grant[g].role)
  /\ GrantGoto(g, IF \E o \in Grants : Conflicts(g, o) THEN "present"
                  ELSE IF grant[g].made \/ Exists(grant[g].target) THEN "commit"
                  ELSE "refused")
  /\ UNCHANGED <<users, owner, cached, req, faults>>

\* COMMIT.  late records that a merge of this placeholder had already
\* transferred its roles.
CommitGrant(g) ==
  /\ grant[g].pc = "commit"
  /\ LET t == grant[g].target
     IN  /\ users' = IF grant[g].made THEN [users EXCEPT ![t] = t] ELSE users
         /\ owner' = [owner EXCEPT ![g] = t]
         /\ grant' = [grant EXCEPT
                        ![g].pc = "granted",
                        ![g].late = \E q \in Requests : req[q].pc = "delete" /\ req[q].email = t]
  /\ UNCHANGED <<cached, req, faults>>

\* A statement of the grant fails, or its process restarts.
GrantFails(g) ==
  /\ grant[g].pc \in {"check", "placeholder", "insert", "commit"}
  /\ faults < MaxFaults
  /\ faults' = faults + 1
  /\ GrantGoto(g, "refused")
  /\ UNCHANGED <<users, owner, cached, req>>

\* DeleteRoleAssignment, by assignment id.
Revoke(g) ==
  /\ owner[g] # NoOne
  /\ ~LockedAssignment(g)
  /\ owner' = [owner EXCEPT ![g] = NoOne]
  /\ GrantGoto(g, "revoked")
  /\ UNCHANGED <<users, cached, req, faults>>

-----------------------------------------------------------------------------

LoginStep(q) ==
  \/ FindPlaceholder(q) \/ CreateRealUser(q) \/ TransferRoles(q) \/ DeletePlaceholder(q)
  \/ GetUser(q) \/ CreateUser(q) \/ UpdateEmail(q)

GrantStep(g) ==
  CheckUser(g) \/ CreatePlaceholder(g) \/ InsertAssignment(g) \/ CommitGrant(g)

Next ==
  \/ \E q \in Requests, p \in Replicas, s \in Subjects : \E e \in Claims[s] : Login(q, p, s, e)
  \/ \E q \in Requests : LoginStep(q) \/ MissPlaceholder(q) \/ MissUser(q) \/ LoginFails(q)
  \/ \E p \in Replicas : Restart(p)
  \/ \E g \in Grants, t \in Ids, r \in Roles, route \in Routes : RequestGrant(g, t, r, route)
  \/ \E g \in Grants : GrantStep(g) \/ GrantFails(g) \/ Revoke(g)

Spec == Init /\ [][Next]_vars

\* The server runs the statements of a request it has accepted to the end, and
\* neither Go's mutex nor PostgreSQL's lock queues starve a waiter for ever.
FairSpec == /\ Spec
            /\ \A q \in Requests : SF_vars(LoginStep(q))
            /\ \A g \in Grants : WF_vars(GrantStep(g))

-----------------------------------------------------------------------------
(* Properties.                                                             *)

\* The rows of role_assignments respect their keys: the owner exists, and no
\* two rows give one user the same role.  Nothing in TransferRoles or
\* DeletePlaceholder may run into either constraint.
KeysHold ==
  \A g \in Grants : owner[g] # NoOne =>
    /\ Exists(owner[g])
    /\ \A h \in Grants : owner[h] = owner[g] /\ grant[h].role = grant[g].role => g = h

\* A user a process has let in (processedUsers) has a row: the cache never
\* vouches for a user whose row is gone.
CacheSound == \A p \in Replicas : \A s \in cached[p] : Exists(s)

\* The user an assignment is for: the target itself, or, for an address, a
\* subject whose tokens carry it.
For(t) == {t} \cup {s \in Subjects : t \in Claims[s]}

Acknowledged(g) == grant[g].pc = "granted"

\* A grant that was answered with success and not revoked keeps its row, and
\* the row belongs to the user it was for, through every merge, concurrent
\* log-in, failure and restart; the grants that commit between the transfer
\* and the delete of a merge of their own placeholder are left out.
GrantsHonoured ==
  \A g \in Grants : Acknowledged(g) /\ ~grant[g].late => owner[g] \in For(grant[g].target)

\* "Role assignments are transferred from placeholder to real user": every
\* acknowledged grant, those of the window included.
InvitationKept ==
  \A g \in Grants : Acknowledged(g) => owner[g] \in For(grant[g].target)

\* Requests of one subject in one process never run ensureUserExists at once.
OneAtATime ==
  \A q, o \in Requests : \A p \in Replicas, s \in Subjects :
    HoldsLock(q, p, s) /\ HoldsLock(o, p, s) => q = o

\* Every request in ensureUserExists is answered: the subject locks, the row
\* locks of merges and grants and the waits between them never form a cycle.
LoginAnswered == \A q \in Requests : req[q].pc # "idle" ~> req[q].pc = "idle"

\* A subject has a users row beside a placeholder of its address: the log-ins
\* of a process that has not seen it fail on the row at every attempt.
LockedOut(s) == Exists(s) /\ \E e \in Claims[s] : e # NoEmail /\ Placeholder(e)

KeepsAsking(p, s) == []<>(\E q \in Requests : req[q].pc # "idle" /\ req[q].at = p /\ req[q].sub = s)

\* A subject who keeps sending requests to a process and is not locked out for
\* ever is let in at some point, whatever failed before and whoever shares its
\* address (ensureUserExists: the merge, the insert and the cache).
AdmittedUnlessLockedOut ==
  \A p \in Replicas, s \in Subjects :
    KeepsAsking(p, s) /\ <>[]~LockedOut(s) => <>(s \in cached[p])

\* The same of every subject.
EventuallyAdmitted ==
  \A p \in Replicas, s \in Subjects : KeepsAsking(p, s) => <>(s \in cached[p])
=============================================================================
