------------------------------- MODULE Access -------------------------------
(***************************************************************************)
(* Organizations, projects, resources and the role assignments on them:    *)
(* who may do what, by the SQL of internal/db/rbac_queries.go, while the   *)
(* services of internal/service create and delete the scopes.              *)
(*                                                                         *)
(* Every operation checks a permission in one statement and acts in        *)
(* another; any other request may come in between.  The table              *)
(* role_assignments names its scope by type and id, without a foreign key, *)
(* so that nothing the database does to a scope reaches its assignments.   *)
(* Assignments do not expire: nothing in the program sets expires_at.      *)
(* Names, settings and billing are left out (for billing, see Billing).    *)
(*                                                                         *)
(* Organizations are there from the start.  CreateOrganization assigns the *)
(* role_id "Owner", which no migration inserts, so that its transaction    *)
(* always rolls back: it has no action here.                               *)
(***************************************************************************)
EXTENDS Integers

CONSTANTS
  Users,
  Orgs,         \* organization ids
  Projects,     \* project ids
  Resources,    \* resource ids
  Roles,        \* role ids
  Holds,        \* Holds[r]: the actions of the permissions of role r
  Owner,        \* the role "Owner"
  DataOwner,    \* the role "Konnektr.Data.Owner"
  None,         \* the org_id of a project without an organization
  Gone,         \* marks an id that has no row
  Requests,     \* requests served at the same time (bound)
  MaxGrants     \* bound on role assignments made

\* manage_billing, which guards the requests of Billing, is left out.
Actions == {"read", "write", "delete", "manage_access"}

ASSUME RolesAssumption ==
  /\ {Owner, DataOwner} \subseteq Roles
  /\ Holds \in [Roles -> SUBSET Actions]

ASSUME IdsAssumption ==
  /\ Orgs \cap Nat = {} /\ None \notin Orgs /\ Gone \notin Orgs \cup Projects \cup {None}

ASSUME BoundsAssumption == MaxGrants \in Nat

VARIABLES
  orgs,       \* the rows of organizations
  projects,   \* projects[p]: org_id of the row, or Gone
  resources,  \* resources[r]: project_id of the row, or Gone
  assigned,   \* the rows of role_assignments
  granted,    \* assignments made so far, the next assignment_id
  req         \* requests between their check and their statement

vars == <<orgs, projects, resources, assigned, granted, req>>

Scopes == ({"organization"} \X Orgs) \cup ({"project"} \X Projects) \cup ({"resource"} \X Resources)

Org(o)      == <<"organization", o>>
Project(p)  == <<"project", p>>
Resource(r) == <<"resource", r>>

Assignment == [id : Nat \cup Orgs, user : Users, role : Roles, scope : Scopes]

IdleRequest == [op |-> "idle"]

ActiveRequest ==
  [op : {"createResource", "getResource", "deleteResource"}, user : Users,
   project : Projects, resource : Resources]
  \cup [op : {"deleteProject"}, project : Projects]
  \cup [op : {"deleteOrganization"}, org : Orgs]
  \cup [op : {"removeAssignment"}, id : Nat \cup Orgs]

TypeOK ==
  /\ orgs \subseteq Orgs
  /\ projects \in [Projects -> Orgs \cup {None, Gone}]
  /\ resources \in [Resources -> Projects \cup {Gone}]
  /\ assigned \subseteq Assignment
  /\ granted \in 0..MaxGrants
  /\ req \in [Requests -> {IdleRequest} \cup ActiveRequest]

\* Some organizations exist, each with one owner, put there by an operator.
Init ==
  /\ orgs \in SUBSET Orgs
  /\ \E founder \in Users :
       assigned = {[id |-> o, user |-> founder, role |-> Owner, scope |-> Org(o)] : o \in orgs}
  /\ projects = [p \in Projects |-> Gone]
  /\ resources = [r \in Resources |-> Gone]
  /\ granted = 0
  /\ req = [q \in Requests |-> IdleRequest]

Exists(s) ==
  \/ s[1] = "organization" /\ s[2] \in orgs
  \/ s[1] = "project"      /\ projects[s[2]] # Gone
  \/ s[1] = "resource"     /\ resources[s[2]] # Gone

-----------------------------------------------------------------------------
(* The queries on role_assignments.                                        *)

On(s) == {x \in assigned : x.scope = s}

\* AllPermissionsWithInheritanceCTE: the assignments it joins, on the scope
\* itself and, through the rows of projects and resources, on its parents.
Direct(s) == On(s)
OrgOfProject(s) == IF s[1] = "project" THEN On(Org(projects[s[2]])) ELSE {}
ProjectOfResource(s) ==
  IF s[1] = "resource" /\ resources[s[2]] # Gone THEN On(Project(resources[s[2]])) ELSE {}
OrgOfResource(s) ==
  IF s[1] = "resource" /\ resources[s[2]] # Gone THEN On(Org(projects[resources[s[2]]])) ELSE {}

\* Mutant: a resource inherits from its project alone.
InForceOneLevel(s) == Direct(s) \cup OrgOfProject(s) \cup ProjectOfResource(s)

InForce(s) == Direct(s) \cup OrgOfProject(s) \cup ProjectOfResource(s) \cup OrgOfResource(s)

\* CheckPermission.
Permitted(u, a, s) == \E x \in InForce(s) : x.user = u /\ a \in Holds[x.role]

\* Mutant: the assignments on the scope itself.
AccessListDirect(s) == On(s)

\* GetRoleAssignmentsWithInheritance, and GetRoleAssignmentsForScope for an
\* organization: the rows of the Access page.  Unlike the check, its branches
\* join organizations.
AccessList(s) ==
  On(s)
  \cup {x \in assigned :
          /\ s[1] = "resource" /\ resources[s[2]] # Gone
          /\ projects[resources[s[2]]] # Gone
          /\ x.scope = Project(resources[s[2]])}
  \cup {x \in assigned :
          /\ s[1] = "resource" /\ resources[s[2]] # Gone
          /\ projects[resources[s[2]]] \in orgs
          /\ x.scope = Org(projects[resources[s[2]]])}
  \cup {x \in assigned :
          /\ s[1] = "project" /\ projects[s[2]] \in orgs
          /\ x.scope = Org(projects[s[2]])}

\* Mutant: the organization's assignments are left out.
ListedByProject(u) ==
  {r \in Resources :
     /\ resources[r] # Gone
     /\ \E x \in assigned : /\ x.user = u /\ "read" \in Holds[x.role]
                           /\ x.scope \in {Resource(r), Project(resources[r])}}

\* ListAllUserResources.
ListedResources(u) ==
  {r \in Resources :
     /\ resources[r] # Gone /\ projects[resources[r]] # Gone
     /\ \E x \in assigned :
          /\ x.user = u /\ "read" \in Holds[x.role]
          /\ x.scope \in {Resource(r), Project(resources[r]), Org(projects[resources[r]])}}

-----------------------------------------------------------------------------
(* Operations of one transaction.                                          *)

\* INSERT ... ON CONFLICT (user_id, role_id, scope_type, scope_id) DO NOTHING.
Grant(table, n, u, role, s) ==
  IF \E x \in table : x.user = u /\ x.role = role /\ x.scope = s THEN table
  ELSE table \cup {[id |-> n, user |-> u, role |-> role, scope |-> s]}

\* CreateProject: the row and the creator's two roles, or nothing.
CreateProject(u, p, o) ==
  /\ projects[p] = Gone
  /\ o \in orgs \cup {None}
  /\ granted + 2 <= MaxGrants
  /\ projects' = [projects EXCEPT ![p] = o]
  /\ assigned' = Grant(Grant(assigned, granted + 1, u, Owner, Project(p)),
                       granted + 2, u, DataOwner, Project(p))
  /\ granted' = granted + 2
  /\ UNCHANGED <<orgs, resources, req>>

\* AssignRole.  The scope need not exist.
AssignRole(u, role, s) ==
  /\ granted < MaxGrants
  /\ assigned' = Grant(assigned, granted + 1, u, role, s)
  /\ granted' = granted + 1
  /\ UNCHANGED <<orgs, projects, resources, req>>

-----------------------------------------------------------------------------
(* Operations that check first.  A request that is refused changes nothing. *)

Checked(q, u, a, s, rec) ==
  /\ req[q] = IdleRequest
  /\ Permitted(u, a, s)
  /\ req' = [req EXCEPT ![q] = rec]
  /\ UNCHANGED <<orgs, projects, resources, assigned, granted>>

CheckCreateResource(q, u, p, r) ==
  Checked(q, u, "write", Project(p),
          [op |-> "createResource", user |-> u, project |-> p, resource |-> r])

CheckDeleteResource(q, u, p, r) ==
  Checked(q, u, "delete", Project(p),
          [op |-> "getResource", user |-> u, project |-> p, resource |-> r])

CheckDeleteProject(q, u, p) ==
  Checked(q, u, "delete", Project(p), [op |-> "deleteProject", project |-> p])

CheckDeleteOrganization(q, u, o) ==
  Checked(q, u, "delete", Org(o), [op |-> "deleteOrganization", org |-> o])

\* The handlers check the scope of the URL and delete by assignment id.
CheckRemoveAssignment(q, u, x, s) ==
  Checked(q, u, "manage_access", s, [op |-> "removeAssignment", id |-> x.id])

Doing(q, op) == req[q].op = op
Answer(q)    == req' = [req EXCEPT ![q] = IdleRequest]

\* INSERT: the id must be free and the project there.
CreateResource(q) ==
  /\ Doing(q, "createResource")
  /\ IF resources[req[q].resource] = Gone /\ projects[req[q].project] # Gone
     THEN resources' = [resources EXCEPT ![req[q].resource] = req[q].project]
     ELSE UNCHANGED resources
  /\ Answer(q)
  /\ UNCHANGED <<orgs, projects, assigned, granted>>

\* GetResourceByID, before a delete: a second check, and the row.
GetResource(q) ==
  /\ Doing(q, "getResource")
  /\ IF /\ Permitted(req[q].user, "read", Project(req[q].project))
        /\ resources[req[q].resource] = req[q].project
     THEN req' = [req EXCEPT ![q].op = "deleteResource"]
     ELSE Answer(q)
  /\ UNCHANGED <<orgs, projects, resources, assigned, granted>>

DeleteResource(q) ==
  /\ Doing(q, "deleteResource")
  /\ resources' = [r \in Resources |->
                     IF r = req[q].resource /\ resources[r] = req[q].project
                     THEN Gone ELSE resources[r]]
  /\ Answer(q)
  /\ UNCHANGED <<orgs, projects, assigned, granted>>

\* Mutant: ON DELETE SET NULL on the resources of a project.
WithoutDetach(ps) ==
  /\ projects'  = [p \in Projects |-> IF p \in ps THEN Gone ELSE projects[p]]
  /\ resources' = [r \in Resources |-> IF resources[r] \in ps THEN None ELSE resources[r]]

\* Mutant: the resources of a deleted project stay.
WithoutProjects(ps) ==
  /\ projects' = [p \in Projects |-> IF p \in ps THEN Gone ELSE projects[p]]
  /\ UNCHANGED resources

\* ON DELETE CASCADE, from organizations to projects to resources.
Without(ps) ==
  /\ projects'  = [p \in Projects |-> IF p \in ps THEN Gone ELSE projects[p]]
  /\ resources' = [r \in Resources |-> IF resources[r] \in ps THEN Gone ELSE resources[r]]

DeleteProject(q) ==
  /\ Doing(q, "deleteProject")
  /\ Without({req[q].project})
  /\ Answer(q)
  /\ UNCHANGED <<orgs, assigned, granted>>

\* Mutant: ON DELETE SET NULL on the projects of an organization.
DeleteOrganizationDetaching(q) ==
  /\ Doing(q, "deleteOrganization")
  /\ orgs' = orgs \ {req[q].org}
  /\ projects' = [p \in Projects |-> IF projects[p] = req[q].org THEN None ELSE projects[p]]
  /\ Answer(q)
  /\ UNCHANGED <<resources, assigned, granted>>

DeleteOrganization(q) ==
  /\ Doing(q, "deleteOrganization")
  /\ orgs' = orgs \ {req[q].org}
  /\ Without({p \in Projects : projects[p] = req[q].org})
  /\ Answer(q)
  /\ UNCHANGED <<assigned, granted>>

RemoveAssignment(q) ==
  /\ Doing(q, "removeAssignment")
  /\ assigned' = {x \in assigned : x.id # req[q].id}
  /\ Answer(q)
  /\ UNCHANGED <<orgs, projects, resources, granted>>

-----------------------------------------------------------------------------

Step(q) ==
  \/ CreateResource(q) \/ GetResource(q) \/ DeleteResource(q)
  \/ DeleteProject(q) \/ DeleteOrganization(q) \/ RemoveAssignment(q)

Check(q, u) ==
  \/ \E p \in Projects, r \in Resources : CheckCreateResource(q, u, p, r)
  \/ \E p \in Projects, r \in Resources : CheckDeleteResource(q, u, p, r)
  \/ \E p \in Projects : CheckDeleteProject(q, u, p)
  \/ \E o \in Orgs : CheckDeleteOrganization(q, u, o)
  \/ \E x \in assigned, s \in Scopes : CheckRemoveAssignment(q, u, x, s)

Next ==
  \/ \E u \in Users, p \in Projects, o \in Orgs \cup {None} : CreateProject(u, p, o)
  \/ \E u \in Users, role \in Roles, s \in Scopes : AssignRole(u, role, s)
  \/ \E q \in Requests, u \in Users : Check(q, u)
  \/ \E q \in Requests : Step(q)

Spec == Init /\ [][Next]_vars

-----------------------------------------------------------------------------
(* Properties.                                                             *)

\* The foreign keys of projects and resources, and the keys of role_assignments.
ProjectsHaveOrgs      == \A p \in Projects : projects[p] \in orgs \cup {None, Gone}
ResourcesHaveProjects == \A r \in Resources : resources[r] # Gone => projects[resources[r]] # Gone
AssignmentKeys ==
  \A x, y \in assigned :
    x.id = y.id \/ (x.user = y.user /\ x.role = y.role /\ x.scope = y.scope) => x = y

\* These keys hold through every cascade and every request that made its check
\* before the cascade: no row outlives its parent, and no user has a role twice
\* at a scope, however often it was granted.
TreeHolds == ProjectsHaveOrgs /\ ResourcesHaveProjects /\ AssignmentKeys

\* The parent of a scope, and the scopes whose assignments count for it.
Parents(s) ==
  {t \in Scopes : \/ s[1] = "project" /\ t = Org(projects[s[2]])
                  \/ s[1] = "resource" /\ t = Project(resources[s[2]])}
Lineage(s) == {s} \cup Parents(s) \cup UNION {Parents(t) : t \in Parents(s)}

\* "Permissions are additive and hierarchical" (docs/concepts): the four
\* branches of the permission query, which reach a parent through the rows of
\* projects and resources, allow exactly what walking up the tree does.
ChecksFollowTree ==
  \A s \in Scopes :
    LET counted == UNION {On(t) : t \in Lineage(s)}
    IN  \A u \in Users, a \in Actions :
          Permitted(u, a, s) <=> \E x \in counted : x.user = u /\ a \in Holds[x.role]

\* The Access page of a scope, a query of its own with other joins, shows for
\* every user exactly the assignments the permission check goes by.
AccessListExplains == \A s \in Scopes : AccessList(s) = InForce(s)

\* The list of a user's resources, a third query, holds exactly the resources
\* on which the check allows that user to read.
ListMatchesCheck ==
  \A u \in Users :
    ListedResources(u) = {r \in Resources : resources[r] # Gone /\ Permitted(u, "read", Resource(r))}

\* The assignments of a user.
Held(u) == {x \in assigned : x.user = u}

\* What a user may do at a scope that stays changes only when an assignment of
\* that user is made or removed: no deletion elsewhere in the tree, by whoever
\* was allowed to when they asked, takes access away or gives it.
AccessMovesWithGrants ==
  [][\A u \in Users : Held(u)' = Held(u) =>
       \A s \in Scopes : Exists(s) /\ Exists(s)' =>
         \A a \in Actions : Permitted(u, a, s)' <=> Permitted(u, a, s)]_vars

\* "Delete organization (cascades to projects, resources, role assignments)",
\* "Delete the project (this will cascade delete resources, role assignments,
\* etc.)": a step that deletes a scope leaves no assignment on it.
DeletesCascade ==
  [][\A s \in Scopes : Exists(s) /\ ~Exists(s)' => \A x \in assigned' : x.scope # s]_vars
=============================================================================
