---------------------------- MODULE AccessProofs ----------------------------
(***************************************************************************)
(* For every set of users, organizations, projects, resources and roles:   *)
(* the types, the keys of the tables, the agreement of the three queries   *)
(* on role_assignments, and that access moves with assignments alone.      *)
(*                                                                         *)
(* The inductive invariant adds to TreeHolds that assignment ids are those *)
(* of the founders or numbers used so far, so that a new one is new.       *)
(***************************************************************************)
EXTENDS Access, TLAPS

USE RolesAssumption, IdsAssumption, BoundsAssumption

IdsUsed == \A x \in assigned : x.id \in Orgs \/ x.id \in 1..granted

IInv == TypeOK /\ TreeHolds /\ IdsUsed

\* The scopes are the pairs Org, Project and Resource make, and no two of
\* different kinds are equal.
LEMMA ScopeForms ==
  /\ \A o \in Orgs : Org(o) \in Scopes
  /\ \A p \in Projects : Project(p) \in Scopes
  /\ \A r \in Resources : Resource(r) \in Scopes
  /\ \A s \in Scopes : \/ \E o \in Orgs : s = Org(o)
                       \/ \E p \in Projects : s = Project(p)
                       \/ \E r \in Resources : s = Resource(r)
BY DEF Scopes, Org, Project, Resource

\* A grant keeps the table's type and, under a fresh number, its keys.
LEMMA GrantKeeps ==
  ASSUME NEW table \in SUBSET Assignment, NEW n \in Nat, NEW u \in Users, NEW role \in Roles,
         NEW s \in Scopes, NEW g \in Nat, g < n,
         \A x \in table : x.id \in Orgs \/ x.id \in 1..g,
         \A x, y \in table :
           x.id = y.id \/ (x.user = y.user /\ x.role = y.role /\ x.scope = y.scope) => x = y
  PROVE  /\ Grant(table, n, u, role, s) \in SUBSET Assignment
         /\ \A x \in Grant(table, n, u, role, s) : x.id \in Orgs \/ x.id \in 1..n
         /\ \A x, y \in Grant(table, n, u, role, s) :
              x.id = y.id \/ (x.user = y.user /\ x.role = y.role /\ x.scope = y.scope) => x = y
<1> DEFINE new == [id |-> n, user |-> u, role |-> role, scope |-> s]
<1>1. new \in Assignment /\ new.id = n /\ new.user = u /\ new.role = role /\ new.scope = s
  BY DEF Assignment
<1>2. CASE \E x \in table : x.user = u /\ x.role = role /\ x.scope = s
  BY <1>2 DEF Grant
<1>3. CASE ~\E x \in table : x.user = u /\ x.role = role /\ x.scope = s
  <2>1. Grant(table, n, u, role, s) = table \cup {new}
    BY <1>3 DEF Grant
  <2>2. \A x \in table : x.id # n
    BY DEF Assignment
  <2> HIDE DEF new
  <2>3. \A x \in table \cup {new} : x.id \in Orgs \/ x.id \in 1..n
    BY <1>1
  <2>4. \A x, y \in table \cup {new} :
          x.id = y.id \/ (x.user = y.user /\ x.role = y.role /\ x.scope = y.scope) => x = y
    BY <1>1, <1>3, <2>2
  <2> QED
    BY <1>1, <2>1, <2>3, <2>4
<1> QED
  BY <1>2, <1>3

-----------------------------------------------------------------------------

\* The founders' assignments are one for each organization, under its id.
LEMMA InitHolds == Init => IInv
<1> SUFFICES ASSUME Init PROVE IInv
  OBVIOUS
<1>1. PICK founder \in Users :
        assigned = {[id |-> o, user |-> founder, role |-> Owner, scope |-> Org(o)] : o \in orgs}
  BY DEF Init
<1>2. orgs \subseteq Orgs
  BY DEF Init
<1>3. assigned \subseteq Assignment
  BY <1>1, <1>2, ScopeForms DEF Assignment
<1>4. TypeOK
  BY <1>2, <1>3 DEF Init, TypeOK
<1>5. ProjectsHaveOrgs /\ ResourcesHaveProjects
  BY DEF Init, ProjectsHaveOrgs, ResourcesHaveProjects
<1>6. AssignmentKeys
  BY <1>1, <1>2 DEF AssignmentKeys, Org
<1>7. IdsUsed
  BY <1>1, <1>2 DEF IdsUsed
<1> QED
  BY <1>4, <1>5, <1>6, <1>7 DEF IInv, TreeHolds

\* Deleting projects with their resources keeps the types and the foreign keys.
LEMMA WithoutKeeps ==
  ASSUME TypeOK, ResourcesHaveProjects, NEW ps \in SUBSET Projects, Without(ps)
  PROVE  /\ projects' \in [Projects -> Orgs \cup {None, Gone}]
         /\ resources' \in [Resources -> Projects \cup {Gone}]
         /\ ResourcesHaveProjects'
         /\ \A p \in Projects : projects'[p] = IF p \in ps THEN Gone ELSE projects[p]
BY DEF TypeOK, ResourcesHaveProjects, Without

\* Both of the creator's roles get new ids or are there already.
LEMMA CreateProjectKeeps ==
  ASSUME IInv, NEW u \in Users, NEW p \in Projects, NEW o \in Orgs \cup {None}, CreateProject(u, p, o)
  PROVE  IInv'
<1> DEFINE one == Grant(assigned, granted + 1, u, Owner, Project(p))
<1>1. granted \in Nat /\ assigned \in SUBSET Assignment /\ Project(p) \in Scopes
  BY ScopeForms DEF IInv, TypeOK
<1>2. /\ one \in SUBSET Assignment
      /\ \A x \in one : x.id \in Orgs \/ x.id \in 1..(granted + 1)
      /\ \A x, y \in one :
           x.id = y.id \/ (x.user = y.user /\ x.role = y.role /\ x.scope = y.scope) => x = y
  <2>1. Owner \in Roles /\ granted + 1 \in Nat /\ granted < granted + 1
    BY <1>1
  <2>2. \A x \in assigned : x.id \in Orgs \/ x.id \in 1..granted
    BY DEF IInv, IdsUsed
  <2>3. \A x, y \in assigned :
          x.id = y.id \/ (x.user = y.user /\ x.role = y.role /\ x.scope = y.scope) => x = y
    BY DEF IInv, TreeHolds, AssignmentKeys
  <2> QED
    BY <1>1, <2>1, <2>2, <2>3, GrantKeeps
<1>3. assigned' = Grant(one, granted + 2, u, DataOwner, Project(p)) /\ granted' = granted + 2
  BY DEF CreateProject
<1> HIDE DEF one
<1>4. /\ assigned' \in SUBSET Assignment
      /\ \A x \in assigned' : x.id \in Orgs \/ x.id \in 1..(granted + 2)
      /\ \A x, y \in assigned' :
           x.id = y.id \/ (x.user = y.user /\ x.role = y.role /\ x.scope = y.scope) => x = y
  <2>1. DataOwner \in Roles /\ granted + 2 \in Nat /\ granted + 1 \in Nat /\ granted + 1 < granted + 2
    BY <1>1
  <2> QED
    BY <1>1, <1>2, <1>3, <2>1, GrantKeeps
<1>5. TypeOK'
  BY <1>1, <1>3, <1>4 DEF IInv, TypeOK, CreateProject
<1>6. ProjectsHaveOrgs' /\ ResourcesHaveProjects'
  BY DEF IInv, TypeOK, TreeHolds, ProjectsHaveOrgs, ResourcesHaveProjects, CreateProject
<1> QED
  BY <1>3, <1>4, <1>5, <1>6 DEF IInv, TreeHolds, AssignmentKeys, IdsUsed

\* A grant adds a row under a new id, or nothing.
LEMMA AssignRoleKeeps ==
  ASSUME IInv, NEW u \in Users, NEW role \in Roles, NEW s \in Scopes, AssignRole(u, role, s)
  PROVE  IInv'
<1>1. granted \in Nat /\ granted + 1 \in Nat /\ granted < granted + 1 /\ assigned \in SUBSET Assignment
  BY DEF IInv, TypeOK
<1>2. assigned' = Grant(assigned, granted + 1, u, role, s) /\ granted' = granted + 1
  BY DEF AssignRole
<1>3. /\ assigned' \in SUBSET Assignment
      /\ \A x \in assigned' : x.id \in Orgs \/ x.id \in 1..(granted + 1)
      /\ \A x, y \in assigned' :
           x.id = y.id \/ (x.user = y.user /\ x.role = y.role /\ x.scope = y.scope) => x = y
  <2>1. \A x \in assigned : x.id \in Orgs \/ x.id \in 1..granted
    BY DEF IInv, IdsUsed
  <2>2. \A x, y \in assigned :
          x.id = y.id \/ (x.user = y.user /\ x.role = y.role /\ x.scope = y.scope) => x = y
    BY DEF IInv, TreeHolds, AssignmentKeys
  <2> QED
    BY <1>1, <1>2, <2>1, <2>2, GrantKeeps
<1>4. TypeOK'
  BY <1>1, <1>2, <1>3 DEF IInv, TypeOK, AssignRole
<1>5. ProjectsHaveOrgs' /\ ResourcesHaveProjects'
  BY DEF IInv, TreeHolds, ProjectsHaveOrgs, ResourcesHaveProjects, AssignRole
<1> QED
  BY <1>2, <1>3, <1>4, <1>5 DEF IInv, TreeHolds, AssignmentKeys, IdsUsed

\* A step that leaves the tables alone keeps their keys.
LEMMA TablesAlone ==
  ASSUME IInv, TypeOK', UNCHANGED <<orgs, projects, resources, assigned, granted>>
  PROVE  IInv'
BY DEF IInv, TreeHolds, ProjectsHaveOrgs, ResourcesHaveProjects, AssignmentKeys, IdsUsed

\* A permission check changes nothing but the request.
LEMMA CheckKeeps ==
  ASSUME IInv, NEW q \in Requests, NEW u \in Users, Check(q, u)
  PROVE  IInv'
<1>1. CASE \E p \in Projects, r \in Resources : CheckCreateResource(q, u, p, r)
  <2>1. TypeOK'
    BY <1>1 DEF IInv, TypeOK, CheckCreateResource, Checked, ActiveRequest
  <2> QED
    BY <1>1, <2>1, TablesAlone DEF CheckCreateResource, Checked
<1>2. CASE \E p \in Projects, r \in Resources : CheckDeleteResource(q, u, p, r)
  <2>1. TypeOK'
    BY <1>2 DEF IInv, TypeOK, CheckDeleteResource, Checked, ActiveRequest
  <2> QED
    BY <1>2, <2>1, TablesAlone DEF CheckDeleteResource, Checked
<1>3. CASE \E p \in Projects : CheckDeleteProject(q, u, p)
  <2>1. TypeOK'
    BY <1>3 DEF IInv, TypeOK, CheckDeleteProject, Checked, ActiveRequest
  <2> QED
    BY <1>3, <2>1, TablesAlone DEF CheckDeleteProject, Checked
<1>4. CASE \E o \in Orgs : CheckDeleteOrganization(q, u, o)
  <2>1. TypeOK'
    BY <1>4 DEF IInv, TypeOK, CheckDeleteOrganization, Checked, ActiveRequest
  <2> QED
    BY <1>4, <2>1, TablesAlone DEF CheckDeleteOrganization, Checked
<1>5. CASE \E x \in assigned, s \in Scopes : CheckRemoveAssignment(q, u, x, s)
  <2>1. PICK x \in assigned, s \in Scopes : CheckRemoveAssignment(q, u, x, s)
    BY <1>5
  <2>2. x.id \in Nat \cup Orgs
    BY DEF IInv, TypeOK, Assignment
  <2>3. TypeOK'
    BY <2>1, <2>2 DEF IInv, TypeOK, CheckRemoveAssignment, Checked, ActiveRequest
  <2> QED
    BY <2>1, <2>3, TablesAlone DEF CheckRemoveAssignment, Checked
<1> QED
  BY <1>1, <1>2, <1>3, <1>4, <1>5 DEF Check

\* The statement of a request that was checked, after anything in between.
LEMMA StepKeeps ==
  ASSUME IInv, NEW q \in Requests, Step(q)
  PROVE  IInv'
<1>1. req[q] \in {IdleRequest} \cup ActiveRequest
  BY DEF IInv, TypeOK
<1>2. CASE CreateResource(q)
  <2>1. req[q].resource \in Resources /\ req[q].project \in Projects
    BY <1>1, <1>2 DEF CreateResource, Doing, IdleRequest, ActiveRequest
  <2>2. TypeOK'
    BY <1>2, <2>1 DEF IInv, TypeOK, CreateResource, Answer
  <2>3. ProjectsHaveOrgs' /\ AssignmentKeys' /\ IdsUsed'
    BY <1>2 DEF IInv, TreeHolds, ProjectsHaveOrgs, AssignmentKeys, IdsUsed, CreateResource
  <2>4. ResourcesHaveProjects'
    BY <1>2, <2>1 DEF IInv, TypeOK, TreeHolds, ResourcesHaveProjects, CreateResource
  <2> QED
    BY <2>2, <2>3, <2>4 DEF IInv, TreeHolds
<1>3. CASE GetResource(q)
  <2>1. req[q] \in ActiveRequest /\ req[q].op = "getResource"
    BY <1>1, <1>3 DEF GetResource, Doing, IdleRequest
  <2>2. [req[q] EXCEPT !.op = "deleteResource"] \in ActiveRequest
    BY <2>1 DEF ActiveRequest
  <2>3. TypeOK'
    BY <1>3, <2>2 DEF IInv, TypeOK, GetResource, Answer
  <2> QED
    BY <1>3, <2>3, TablesAlone DEF GetResource
<1>4. CASE DeleteResource(q)
  <2>1. TypeOK'
    BY <1>4 DEF IInv, TypeOK, DeleteResource, Answer
  <2>2. ProjectsHaveOrgs' /\ AssignmentKeys' /\ IdsUsed'
    BY <1>4 DEF IInv, TreeHolds, ProjectsHaveOrgs, AssignmentKeys, IdsUsed, DeleteResource
  <2>3. ResourcesHaveProjects'
    BY <1>4 DEF IInv, TreeHolds, ResourcesHaveProjects, DeleteResource
  <2> QED
    BY <2>1, <2>2, <2>3 DEF IInv, TreeHolds
<1>5. CASE DeleteProject(q)
  <2>1. req[q].project \in Projects /\ Without({req[q].project})
    BY <1>1, <1>5 DEF DeleteProject, Doing, IdleRequest, ActiveRequest
  <2>2. /\ projects' \in [Projects -> Orgs \cup {None, Gone}]
        /\ resources' \in [Resources -> Projects \cup {Gone}]
        /\ ResourcesHaveProjects'
        /\ \A p \in Projects : projects'[p] = IF p \in {req[q].project} THEN Gone ELSE projects[p]
    BY <2>1, WithoutKeeps DEF IInv, TreeHolds
  <2>3. TypeOK'
    BY <1>5, <2>2 DEF IInv, TypeOK, DeleteProject, Answer
  <2>4. ProjectsHaveOrgs'
    BY <1>5, <2>2 DEF IInv, TreeHolds, ProjectsHaveOrgs, DeleteProject
  <2>5. AssignmentKeys' /\ IdsUsed'
    BY <1>5 DEF IInv, TreeHolds, AssignmentKeys, IdsUsed, DeleteProject
  <2> QED
    BY <2>2, <2>3, <2>4, <2>5 DEF IInv, TreeHolds
<1>6. CASE DeleteOrganization(q)
  <2> DEFINE ps == {p \in Projects : projects[p] = req[q].org}
  <2>1. ps \in SUBSET Projects /\ Without(ps)
    BY <1>6 DEF DeleteOrganization
  <2>2. /\ projects' \in [Projects -> Orgs \cup {None, Gone}]
        /\ resources' \in [Resources -> Projects \cup {Gone}]
        /\ ResourcesHaveProjects'
        /\ \A p \in Projects : projects'[p] = IF p \in ps THEN Gone ELSE projects[p]
    <3> HIDE DEF ps
    <3> QED
      BY <2>1, WithoutKeeps DEF IInv, TreeHolds
  <2>3. orgs' = orgs \ {req[q].org}
    BY <1>6 DEF DeleteOrganization
  <2>4. TypeOK'
    BY <1>6, <2>2, <2>3 DEF IInv, TypeOK, DeleteOrganization, Answer
  <2>5. ProjectsHaveOrgs'
    BY <2>2, <2>3 DEF IInv, TreeHolds, ProjectsHaveOrgs
  <2>6. AssignmentKeys' /\ IdsUsed'
    BY <1>6 DEF IInv, TreeHolds, AssignmentKeys, IdsUsed, DeleteOrganization
  <2> QED
    BY <2>2, <2>4, <2>5, <2>6 DEF IInv, TreeHolds
<1>7. CASE RemoveAssignment(q)
  <2>1. TypeOK'
    BY <1>7 DEF IInv, TypeOK, RemoveAssignment, Answer
  <2>2. ProjectsHaveOrgs' /\ ResourcesHaveProjects'
    BY <1>7 DEF IInv, TreeHolds, ProjectsHaveOrgs, ResourcesHaveProjects, RemoveAssignment
  <2>3. AssignmentKeys' /\ IdsUsed'
    BY <1>7 DEF IInv, TreeHolds, AssignmentKeys, IdsUsed, RemoveAssignment
  <2> QED
    BY <2>1, <2>2, <2>3 DEF IInv, TreeHolds
<1> QED
  BY <1>2, <1>3, <1>4, <1>5, <1>6, <1>7 DEF Step

\* IInv is inductive.
LEMMA NextKeeps == IInv /\ [Next]_vars => IInv'
<1> SUFFICES ASSUME IInv, [Next]_vars PROVE IInv'
  OBVIOUS
<1>1. CASE \E u \in Users, p \in Projects, o \in Orgs \cup {None} : CreateProject(u, p, o)
  BY <1>1, CreateProjectKeeps
<1>2. CASE \E u \in Users, role \in Roles, s \in Scopes : AssignRole(u, role, s)
  BY <1>2, AssignRoleKeeps
<1>3. CASE \E q \in Requests, u \in Users : Check(q, u)
  BY <1>3, CheckKeeps
<1>4. CASE \E q \in Requests : Step(q)
  BY <1>4, StepKeeps
<1>5. CASE UNCHANGED vars
  BY <1>5 DEF vars, IInv, TypeOK, TreeHolds, ProjectsHaveOrgs, ResourcesHaveProjects,
              AssignmentKeys, IdsUsed
<1> QED
  BY <1>1, <1>2, <1>3, <1>4, <1>5 DEF Next

\* The tables and the requests in flight keep their types, foreign keys and
\* unique keys under every interleaving of checks, deletions and grants.
THEOREM Inductive == Spec => []IInv
BY InitHolds, NextKeeps, PTL DEF Spec

\* Type correctness of rows, assignments and requests.
THEOREM TypeCorrect == Spec => []TypeOK
<1>1. IInv => TypeOK
  BY DEF IInv
<1> QED
  BY <1>1, Inductive, PTL

\* No row outlives its parent, and no role is held twice at a scope.
THEOREM TreeAlwaysHolds == Spec => []TreeHolds
<1>1. IInv => TreeHolds
  BY DEF IInv
<1> QED
  BY <1>1, Inductive, PTL

-----------------------------------------------------------------------------
(* The three queries.                                                      *)

\* The scope above a project, and those above a resource, in terms of rows.
LEMMA LineageForms ==
  ASSUME IInv
  PROVE  /\ \A o \in Orgs : Lineage(Org(o)) = {Org(o)}
         /\ \A p \in Projects :
              Lineage(Project(p)) = {Project(p)} \cup {Org(o) : o \in {projects[p]} \cap Orgs}
         /\ \A r \in Resources :
              Lineage(Resource(r)) =
                {Resource(r)} \cup {Project(p) : p \in {resources[r]} \cap Projects}
                \cup {Org(o) : o \in {x \in Orgs : resources[r] \in Projects
                                                 /\ x = projects[resources[r]]}}
<1>1. \A o \in Orgs : Parents(Org(o)) = {}
  BY DEF Parents, Org
<1>2. \A p \in Projects : Parents(Project(p)) = {Org(o) : o \in {projects[p]} \cap Orgs}
  BY DEF Parents, Scopes, Org, Project
<1>3. \A r \in Resources : Parents(Resource(r)) = {Project(p) : p \in {resources[r]} \cap Projects}
  BY DEF Parents, Scopes, Project, Resource
<1>4. ASSUME NEW o \in Orgs PROVE Lineage(Org(o)) = {Org(o)}
  BY <1>1 DEF Lineage
<1>5. ASSUME NEW p \in Projects
      PROVE  Lineage(Project(p)) = {Project(p)} \cup {Org(o) : o \in {projects[p]} \cap Orgs}
  BY <1>1, <1>2 DEF Lineage
<1>6. ASSUME NEW r \in Resources
      PROVE  Lineage(Resource(r)) =
                {Resource(r)} \cup {Project(p) : p \in {resources[r]} \cap Projects}
                \cup {Org(o) : o \in {x \in Orgs : resources[r] \in Projects
                                                 /\ x = projects[resources[r]]}}
  BY <1>2, <1>3 DEF Lineage
<1> QED
  BY <1>4, <1>5, <1>6

\* Only scopes have assignments.
LEMMA OnScopes ==
  ASSUME IInv, NEW o, o \notin Orgs
  PROVE  On(Org(o)) = {}
BY DEF IInv, TypeOK, Assignment, On, Scopes, Org

\* What the permission query joins is what is assigned along the lineage.
LEMMA InForceIsLineage ==
  ASSUME IInv, NEW s \in Scopes
  PROVE  InForce(s) = UNION {On(t) : t \in Lineage(s)}
<1>1. CASE \E o \in Orgs : s = Org(o)
  <2>1. PICK o \in Orgs : s = Org(o)
    BY <1>1
  <2>2. InForce(s) = On(s)
    BY <2>1 DEF InForce, Direct, OrgOfProject, ProjectOfResource, OrgOfResource, Org
  <2> QED
    BY <2>1, <2>2, LineageForms
<1>2. CASE \E p \in Projects : s = Project(p)
  <2>1. PICK p \in Projects : s = Project(p)
    BY <1>2
  <2>2. InForce(s) = On(s) \cup On(Org(projects[p]))
    BY <2>1 DEF InForce, Direct, OrgOfProject, ProjectOfResource, OrgOfResource, Project
  <2>3. CASE projects[p] \in Orgs
    <3>1. Lineage(s) = {s, Org(projects[p])}
      BY <2>1, <2>3, LineageForms
    <3> QED
      BY <2>2, <3>1
  <2>4. CASE projects[p] \notin Orgs
    <3>1. Lineage(s) = {s}
      BY <2>1, <2>4, LineageForms
    <3>2. On(Org(projects[p])) = {}
      BY <2>4, OnScopes
    <3> QED
      BY <2>2, <3>1, <3>2
  <2> QED
    BY <2>3, <2>4
<1>3. CASE \E r \in Resources : s = Resource(r)
  <2>1. PICK r \in Resources : s = Resource(r)
    BY <1>3
  <2>2. resources[r] \in Projects \cup {Gone}
    BY DEF IInv, TypeOK
  <2>3. CASE resources[r] = Gone
    <3>1. InForce(s) = On(s)
      BY <2>1, <2>3 DEF InForce, Direct, OrgOfProject, ProjectOfResource, OrgOfResource, Resource
    <3>2. Lineage(s) = {s}
      BY <2>1, <2>3, LineageForms
    <3> QED
      BY <3>1, <3>2
  <2>4. CASE resources[r] \in Projects
    <3> DEFINE p == resources[r]
    <3>1. InForce(s) = On(s) \cup On(Project(p)) \cup On(Org(projects[p]))
      BY <2>1, <2>4 DEF InForce, Direct, OrgOfProject, ProjectOfResource, OrgOfResource, Resource
    <3>2. CASE projects[p] \in Orgs
      <4>1. Lineage(s) = {s, Project(p), Org(projects[p])}
        BY <2>1, <2>4, <3>2, LineageForms
      <4> QED
        BY <3>1, <4>1
    <3>3. CASE projects[p] \notin Orgs
      <4>1. Lineage(s) = {s, Project(p)}
        BY <2>1, <2>4, <3>3, LineageForms
      <4>2. On(Org(projects[p])) = {}
        BY <3>3, OnScopes
      <4> QED
        BY <3>1, <4>1, <4>2
    <3> QED
      BY <3>2, <3>3
  <2> QED
    BY <2>2, <2>3, <2>4
<1> QED
  BY <1>1, <1>2, <1>3, ScopeForms

\* What the check allows is what the assignments of the lineage allow.
LEMMA PermittedByLineage ==
  ASSUME IInv, NEW u, NEW a, NEW s \in Scopes
  PROVE  Permitted(u, a, s)
           <=> \E x \in UNION {On(t) : t \in Lineage(s)} : x.user = u /\ a \in Holds[x.role]
BY InForceIsLineage DEF Permitted

\* The permission query walks up the tree, whatever the tree.
THEOREM ChecksAlwaysFollowTree == Spec => []ChecksFollowTree
<1>1. IInv => ChecksFollowTree
  BY PermittedByLineage DEF ChecksFollowTree
<1> QED
  BY <1>1, Inductive, PTL

\* The Access page and the permission check read the same assignments: the
\* joins that only the page makes lose nothing, by the foreign keys.
THEOREM AccessListAlwaysExplains == Spec => []AccessListExplains
<1>1. ASSUME IInv, NEW s \in Scopes PROVE AccessList(s) = InForce(s)
  <2>1. CASE \E o \in Orgs : s = Org(o)
    BY <2>1 DEF AccessList, InForce, Direct, OrgOfProject, ProjectOfResource, OrgOfResource, Org
  <2>2. CASE \E p \in Projects : s = Project(p)
    <3>1. PICK p \in Projects : s = Project(p)
      BY <2>2
    <3>2. AccessList(s) = On(s) \cup (IF projects[p] \in orgs THEN On(Org(projects[p])) ELSE {})
      BY <3>1 DEF AccessList, On, Project
    <3>3. InForce(s) = On(s) \cup On(Org(projects[p]))
      BY <3>1 DEF InForce, Direct, OrgOfProject, ProjectOfResource, OrgOfResource, Project
    <3>4. projects[p] \notin orgs => projects[p] \notin Orgs
      BY <1>1 DEF IInv, TreeHolds, ProjectsHaveOrgs
    <3>5. projects[p] \notin orgs => On(Org(projects[p])) = {}
      BY <1>1, <3>4, OnScopes
    <3> QED
      BY <3>2, <3>3, <3>5
  <2>3. CASE \E r \in Resources : s = Resource(r)
    <3>1. PICK r \in Resources : s = Resource(r)
      BY <2>3
    <3>2. CASE resources[r] = Gone
      BY <3>1, <3>2 DEF AccessList, On, Resource, InForce, Direct, OrgOfProject,
                        ProjectOfResource, OrgOfResource
    <3>3. CASE resources[r] # Gone
      <4> DEFINE p == resources[r]
      <4>1. p \in Projects /\ projects[p] # Gone /\ projects[p] \in orgs \cup {None}
        BY <1>1, <3>3 DEF IInv, TypeOK, TreeHolds, ResourcesHaveProjects, ProjectsHaveOrgs
      <4>2. AccessList(s) = On(s) \cup On(Project(p))
                              \cup (IF projects[p] \in orgs THEN On(Org(projects[p])) ELSE {})
        BY <3>1, <3>3, <4>1 DEF AccessList, On, Resource
      <4>3. InForce(s) = On(s) \cup On(Project(p)) \cup On(Org(projects[p]))
        BY <3>1, <3>3 DEF InForce, Direct, OrgOfProject, ProjectOfResource, OrgOfResource, Resource
      <4>4. projects[p] \notin orgs => On(Org(projects[p])) = {}
        BY <1>1, <4>1, OnScopes
      <4> QED
        BY <4>2, <4>3, <4>4
    <3> QED
      BY <3>2, <3>3
  <2> QED
    BY <2>1, <2>2, <2>3, ScopeForms
<1>2. IInv => AccessListExplains
  BY <1>1 DEF AccessListExplains
<1> QED
  BY <1>2, Inductive, PTL

\* The list of resources shows a resource exactly when the check on it allows
\* reading.
THEOREM ListAlwaysMatchesCheck == Spec => []ListMatchesCheck
<1>1. ASSUME IInv, NEW u \in Users, NEW r \in Resources, resources[r] # Gone
      PROVE  r \in ListedResources(u) <=> Permitted(u, "read", Resource(r))
  <2>1. resources[r] \in Projects /\ projects[resources[r]] # Gone
    BY <1>1 DEF IInv, TypeOK, TreeHolds, ResourcesHaveProjects
  <2>2. InForce(Resource(r)) = On(Resource(r)) \cup On(Project(resources[r]))
                                 \cup On(Org(projects[resources[r]]))
    BY <1>1 DEF InForce, Direct, OrgOfProject, ProjectOfResource, OrgOfResource, Resource
  <2> QED
    BY <1>1, <2>1, <2>2 DEF ListedResources, Permitted, On
<1>2. IInv => ListMatchesCheck
  BY <1>1 DEF ListMatchesCheck, ListedResources
<1> QED
  BY <1>2, Inductive, PTL

-----------------------------------------------------------------------------
(* Access moves with assignments.                                          *)

\* A row that stays keeps its parent: no statement moves one.
LEMMA RowsStay ==
  ASSUME IInv, [Next]_vars
  PROVE  /\ \A p \in Projects : projects[p] # Gone /\ projects'[p] # Gone => projects'[p] = projects[p]
         /\ \A r \in Resources :
              resources[r] # Gone /\ resources'[r] # Gone => resources'[r] = resources[r]
<1> DEFINE Stay == /\ \A p \in Projects :
                        projects[p] # Gone /\ projects'[p] # Gone => projects'[p] = projects[p]
                   /\ \A r \in Resources :
                        resources[r] # Gone /\ resources'[r] # Gone => resources'[r] = resources[r]
<1>1. ASSUME UNCHANGED <<projects, resources>> PROVE Stay
  BY <1>1
<1>2. CASE \E u \in Users, p \in Projects, o \in Orgs \cup {None} : CreateProject(u, p, o)
  BY <1>2 DEF CreateProject, IInv, TypeOK
<1>3. CASE \E u \in Users, role \in Roles, s \in Scopes : AssignRole(u, role, s)
  BY <1>1, <1>3 DEF AssignRole
<1>4. CASE \E q \in Requests, u \in Users : Check(q, u)
  BY <1>1, <1>4 DEF Check, CheckCreateResource, CheckDeleteResource, CheckDeleteProject,
                    CheckDeleteOrganization, CheckRemoveAssignment, Checked
<1>5. ASSUME NEW q \in Requests, Step(q) PROVE Stay
  <2>1. CASE CreateResource(q)
    BY <2>1 DEF CreateResource, IInv, TypeOK
  <2>2. CASE GetResource(q) \/ RemoveAssignment(q)
    BY <1>1, <2>2 DEF GetResource, RemoveAssignment
  <2>3. CASE DeleteResource(q)
    BY <2>3 DEF DeleteResource
  <2>4. CASE DeleteProject(q)
    BY <2>4 DEF DeleteProject, Without
  <2>5. CASE DeleteOrganization(q)
    BY <2>5 DEF DeleteOrganization, Without
  <2> QED
    BY <1>5, <2>1, <2>2, <2>3, <2>4, <2>5 DEF Step
<1>6. CASE UNCHANGED vars
  BY <1>1, <1>6 DEF vars
<1> QED
  BY <1>2, <1>3, <1>4, <1>5, <1>6 DEF Next

\* So a scope that stays keeps its lineage.
LEMMA LineageStays ==
  ASSUME IInv, IInv', [Next]_vars, NEW s \in Scopes, Exists(s), Exists(s)'
  PROVE  Lineage(s)' = Lineage(s)
<1>1. CASE \E o \in Orgs : s = Org(o)
  <2>1. Parents(s) = {} /\ Parents(s)' = {}
    BY <1>1 DEF Parents, Org
  <2> QED
    BY <2>1 DEF Lineage
<1>2. CASE \E p \in Projects : s = Project(p)
  <2>1. PICK p \in Projects : s = Project(p)
    BY <1>2
  <2>2. projects'[p] = projects[p]
    BY <2>1, RowsStay DEF Exists, Project
  <2>3. Parents(s)' = Parents(s)
    BY <2>1, <2>2 DEF Parents, Project
  <2>4. \A t \in Parents(s) : Parents(t) = {} /\ Parents(t)' = {}
    BY <2>1 DEF Parents, Project, Org
  <2> QED
    BY <2>3, <2>4 DEF Lineage
<1>3. CASE \E r \in Resources : s = Resource(r)
  <2>1. PICK r \in Resources : s = Resource(r)
    BY <1>3
  <2>2. resources'[r] = resources[r] /\ resources[r] # Gone
    BY <2>1, RowsStay DEF Exists, Resource
  <2>3. PICK p \in Projects : p = resources[r] /\ p = resources'[r]
    BY <2>2 DEF IInv, TypeOK
  <2>4. projects[p] # Gone /\ projects'[p] # Gone
    BY <2>2, <2>3 DEF IInv, TreeHolds, ResourcesHaveProjects
  <2>5. projects'[p] = projects[p]
    BY <2>4, RowsStay
  <2>6. Parents(s) = {Project(p)} /\ Parents(s)' = {Project(p)}
    BY <2>1, <2>3, ScopeForms DEF Parents, Resource, Project
  <2>7. Parents(Project(p))' = Parents(Project(p))
    BY <2>5 DEF Parents, Project
  <2> QED
    BY <2>6, <2>7 DEF Lineage
<1> QED
  BY <1>1, <1>2, <1>3, ScopeForms

\* No deletion, creation or grant to somebody else changes what a user may do
\* at a scope that stays.
THEOREM AccessAlwaysMovesWithGrants == Spec => AccessMovesWithGrants
<1> DEFINE Moves ==
      \A u \in Users : Held(u)' = Held(u) =>
        \A s \in Scopes : Exists(s) /\ Exists(s)' =>
          \A a \in Actions : Permitted(u, a, s)' <=> Permitted(u, a, s)
<1>1. ASSUME IInv, IInv', ChecksFollowTree, ChecksFollowTree', [Next]_vars PROVE Moves
  <2>1. SUFFICES ASSUME NEW u \in Users, NEW s \in Scopes, NEW a \in Actions,
                        Held(u)' = Held(u), Exists(s), Exists(s)'
                 PROVE  Permitted(u, a, s)' <=> Permitted(u, a, s)
    OBVIOUS
  <2>2. Lineage(s)' = Lineage(s)
    BY <1>1, <2>1, LineageStays
  <2>3. \A x : x.user = u => (x \in assigned <=> x \in assigned')
    BY <2>1 DEF Held
  <2>4. \A t : \A x : x.user = u => (x \in On(t) <=> x \in On(t)')
    BY <2>3 DEF On
  <2>5. Permitted(u, a, s)
          <=> \E t \in Lineage(s) : \E x \in On(t) : x.user = u /\ a \in Holds[x.role]
    BY <1>1 DEF ChecksFollowTree
  <2>6. Permitted(u, a, s)'
          <=> \E t \in Lineage(s)' : \E x \in On(t)' : x.user = u /\ a \in Holds[x.role]
    BY <1>1 DEF ChecksFollowTree
  <2> QED
    BY <2>2, <2>4, <2>5, <2>6
<1>2. IInv /\ IInv' /\ ChecksFollowTree /\ ChecksFollowTree' /\ [Next]_vars => [Moves]_vars
  BY <1>1
<1> QED
  BY <1>2, Inductive, ChecksAlwaysFollowTree, PTL DEF Spec, AccessMovesWithGrants
=============================================================================
