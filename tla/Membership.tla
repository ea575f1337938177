----------------------------- MODULE Membership -----------------------------
(***************************************************************************)
(* Accounts, projects and their members in the werd API: every request is  *)
(* let through by the role its caller had when it began, reads what its    *)
(* checks need, and writes in a later statement.  Requests interleave      *)
(* between these statements, and a restart of the process drops them.      *)
(*                                                                         *)
(* A request that is refused by its first reads leaves no trace and is no  *)
(* step; one that is refused later, or fails, ends in Refuse.              *)
(***************************************************************************)
EXTENDS FiniteSets

CONSTANTS
    Users,      \* e-mail addresses
    Projects,   \* identifiers of projects
    Slugs,      \* slugs of projects
    Passwords,  \* passwords
    Plain,      \* roles that no check here tells apart: member and viewer
    Requests,   \* requests that are handled at a time
    Mixes,      \* sets of operations that occur together, see Ops
    None        \* no account, no role, no value

Managers == {"owner", "admin"}
Roles == Managers \cup Plain

\* A start is an operation of the administrator, not a request.
Ops == {"create", "update", "delete", "add", "role", "remove", "password", "start"}

ASSUME MixesAssumption == Mixes \subseteq SUBSET Ops
ASSUME SomeAssumption == Passwords # {} /\ Slugs # {}
ASSUME NoneAssumption ==
    None \notin Users \cup Projects \cup Slugs \cup Passwords \cup Roles \cup Ops

VARIABLES
    mix,         \* the operations that occur in this behaviour
    account,     \* account[u]: the password of u in users, or None
    project,     \* project[p]: the row of projects
    role,        \* role[p][u]: the row of project_members, or None
    request,     \* request[r]: a request under way
    configured,  \* the user and the password of the last start
    changed,     \* the configured user has changed the password since
    founder,     \* founder[p]: who created p
    abdicated,   \* projects where an owner took the ownership from an owner
    steady       \* requests whose target owns the project ever since they began

rows == <<account, project, role>>
history == <<configured, changed, founder, abdicated>>
vars == <<mix, rows, request, history, steady>>

ProjectState == [life : {"unused", "kept", "deleted"}, slug : Slugs \cup {None}]

\* The target of a request to create a project or change a password is its caller.
RequestState ==
    [op : Ops \cup {None}, pc : {"idle", "check", "write"},
     project : Projects \cup {None}, target : Users \cup {None},
     arg : Roles \cup Slugs \cup Passwords \cup {None}, role : Roles \cup {None}]

Idle == [op |-> None, pc |-> "idle", project |-> None, target |-> None,
         arg |-> None, role |-> None]

TypeOK ==
    /\ mix \in Mixes
    /\ account \in [Users -> Passwords \cup {None}]
    /\ project \in [Projects -> ProjectState]
    /\ role \in [Projects -> [Users -> Roles \cup {None}]]
    /\ request \in [Requests -> RequestState]
    /\ configured \in [user : Users, password : Passwords] \cup {None}
    /\ changed \in BOOLEAN
    /\ founder \in [Projects -> Users \cup {None}]
    /\ abdicated \subseteq Projects
    /\ steady \subseteq Requests

Absent == [life |-> "unused", slug |-> None]

\* An empty database, or, where starts are left out, one with every account, and
\* where creation is left out, one with a project.
Init ==
    /\ mix \in Mixes
    /\ changed = FALSE
    /\ configured = None
    /\ abdicated = {}
    /\ request = [r \in Requests |-> Idle]
    /\ steady = {}
    /\ account = [u \in Users |-> IF "start" \in mix THEN None
                                  ELSE CHOOSE w \in Passwords : TRUE]
    /\ IF mix \cap {"create", "start"} # {}
       THEN /\ project = [p \in Projects |-> Absent]
            /\ role = [p \in Projects |-> [u \in Users |-> None]]
            /\ founder = [p \in Projects |-> None]
       ELSE LET first == CHOOSE p \in Projects : TRUE IN
            /\ project = [p \in Projects |-> IF p # first THEN Absent ELSE
                             [life |-> "kept", slug |-> CHOOSE slug \in Slugs : TRUE]]
            /\ \E user \in Users :
                  /\ role = [p \in Projects |-> [u \in Users |->
                                IF p = first /\ u = user THEN "owner" ELSE None]]
                  /\ founder = [p \in Projects |-> IF p = first THEN user ELSE None]

Kept(p) == project[p].life = "kept"
Owners(p) == {u \in Users : role[p][u] = "owner"}

-----------------------------------------------------------------------------
(***************************************************************************)
(* Statements on projects and members.                                     *)
(***************************************************************************)

SlugTaken(slug) == \E p \in Projects : Kept(p) /\ project[p].slug = slug

SlugTakenByOther(slug, p) == \E q \in Projects \ {p} : Kept(q) /\ project[q].slug = slug

\* Roles with the row of u in p changed to value.
WithRow(p, u, value) == [role EXCEPT ![p][u] = value]

\* Variant: the key of the table does not stop a second row.
InsertedMember_Upsert(p, u, value) ==
    IF Kept(p) THEN WithRow(p, u, value) ELSE role

\* INSERT: the project must exist, and there is one row of a user.
InsertedMember(p, u, value) ==
    IF Kept(p) /\ role[p][u] = None THEN WithRow(p, u, value) ELSE role

\* UPDATE: a row that is gone stays gone.
UpdatedRole(p, u, value) ==
    IF role[p][u] # None THEN WithRow(p, u, value) ELSE role

\* Variant: the row stays, with an empty role.
DeletedMember_Empty(p, u) == WithRow(p, u, "")

DeletedMember(p, u) == WithRow(p, u, None)

\* DELETE of a project takes its members with it.
WithoutProject(p) == [role EXCEPT ![p] = [u \in Users |-> None]]

-----------------------------------------------------------------------------
(***************************************************************************)
(* Accounts.                                                               *)
(***************************************************************************)

\* Variant: an account that exists is left alone.
SeedAdmin_Keep(u, w) == [account EXCEPT ![u] = IF @ = None THEN w ELSE @]

\* The configured user gets an account, or the configured password.
SeedAdmin(u, w) == [account EXCEPT ![u] = w]

\* The process starts, after another one died with the requests it handled.
Start(u, w) ==
    /\ "start" \in mix
    /\ account' = SeedAdmin(u, w)
    /\ configured' = [user |-> u, password |-> w]
    /\ changed' = FALSE
    /\ request' = [r \in Requests |-> Idle]
    /\ steady' = {}
    /\ UNCHANGED <<mix, project, role, founder, abdicated>>

\* Request r begins with what it asks and the role its caller has.
Begin(r, op, u, p, t, arg, pc) ==
    /\ op \in mix
    /\ account[u] # None
    /\ request[r] = Idle
    /\ request' = [request EXCEPT ![r] =
          [op |-> op, pc |-> pc, project |-> p, target |-> t, arg |-> arg,
           role |-> IF p = None THEN None ELSE role[p][u]]]
    /\ steady' = IF p # None /\ t \in Owners(p) THEN steady \cup {r} ELSE steady
    /\ UNCHANGED <<mix, rows, history>>

\* The password that is in force has been read and given.
ChangePassword(r, u, new) == Begin(r, "password", u, None, u, new, "write")

UpdateUserPassword(r) ==
    LET q == request[r] IN
    /\ q.op = "password"
    /\ account' = [account EXCEPT ![q.target] = q.arg]
    /\ changed' = (changed \/ q.target = configured.user)
    /\ UNCHANGED <<project, role, configured, founder, abdicated>>

-----------------------------------------------------------------------------
(***************************************************************************)
(* Requests begin: the membership of the caller and the handlers' guards.  *)
(***************************************************************************)

\* The caller's row lets the request in.
Member(p, u, roles) == role[p][u] \in roles

CreateProject(r, u, slug) == Begin(r, "create", u, None, u, slug, "check")

UpdateProject(r, u, p, slug) ==
    Member(p, u, Managers) /\ Begin(r, "update", u, p, None, slug, "check")

DeleteProject(r, u, p) ==
    Member(p, u, {"owner"}) /\ Begin(r, "delete", u, p, None, None, "write")

\* Nobody is added as an owner.
AddMember(r, u, p, t, new) ==
    /\ Member(p, u, Managers)
    /\ new # "owner"
    /\ Begin(r, "add", u, p, t, new, "check")

UpdateMemberRole(r, u, p, t, new) ==
    Member(p, u, Managers) /\ Begin(r, "role", u, p, t, new, "check")

\* Members may remove themselves.
RemoveMember(r, u, p, t) ==
    /\ Member(p, u, IF t = u THEN Roles ELSE Managers)
    /\ Begin(r, "remove", u, p, t, None, "check")

-----------------------------------------------------------------------------
(***************************************************************************)
(* The services: what a request reads before it writes.                    *)
(***************************************************************************)

SlugFree(q) ==
    \/ q.op = "create" /\ ~SlugTaken(q.arg)
    \/ q.op = "update" /\ ~SlugTakenByOther(q.arg, q.project)

\* A row of the target that cannot be read counts as none.
MayAdd(q) == q.op = "add" /\ account[q.target] # None

\* Variant: ownership is taken for a role like the others.
MayChange_AnyRole(q) == q.op = "role" /\ role[q.project][q.target] # None

\* Only an owner changes the role of an owner, or makes one.
MayChange(q) ==
    /\ q.op = "role"
    /\ role[q.project][q.target] # None
    /\ "owner" \in {role[q.project][q.target], q.arg} => q.role = "owner"

\* Variant: owners are members like the others.
MayRemove_Owner(q) == q.op = "remove" /\ role[q.project][q.target] # None

\* No owner is removed, and none leaves.
MayRemove(q) ==
    /\ q.op = "remove"
    /\ role[q.project][q.target] \notin {None, "owner"}

Check(r) ==
    LET q == request[r] IN
    /\ q.pc = "check"
    /\ SlugFree(q) \/ MayAdd(q) \/ MayChange(q) \/ MayRemove(q)
    /\ request' = [request EXCEPT ![r].pc = "write"]
    /\ UNCHANGED <<mix, rows, history, steady>>

\* A check or a statement fails.
Refuse(r) ==
    /\ request[r].pc # "idle"
    /\ request' = [request EXCEPT ![r] = Idle]
    /\ steady' = steady \ {r}
    /\ UNCHANGED <<mix, rows, history>>

-----------------------------------------------------------------------------
(***************************************************************************)
(* The services: what a request writes.                                    *)
(***************************************************************************)

\* The table keeps slugs unique.
SlugStillFree(slug, p) == ~SlugTakenByOther(slug, p)

\* The project and its owner, in one transaction.
InsertProject(r) ==
    LET q == request[r] IN
    /\ q.op = "create"
    /\ \E p \in Projects :
          /\ project[p].life = "unused"
          /\ SlugStillFree(q.arg, p)
          /\ project' = [project EXCEPT ![p] = [life |-> "kept", slug |-> q.arg]]
          /\ role' = WithRow(p, q.target, "owner")
          /\ founder' = [founder EXCEPT ![p] = q.target]
    /\ UNCHANGED <<account, configured, changed, abdicated>>

ChangeProject(r) ==
    LET q == request[r] IN
    /\ q.op = "update"
    /\ Kept(q.project)
    /\ SlugStillFree(q.arg, q.project)
    /\ project' = [project EXCEPT ![q.project].slug = q.arg]
    /\ UNCHANGED <<account, role, history>>

RemoveProject(r) ==
    LET q == request[r] IN
    /\ q.op = "delete"
    /\ project' = [project EXCEPT ![q.project] = [life |-> "deleted", slug |-> None]]
    /\ role' = WithoutProject(q.project)
    /\ UNCHANGED <<account, history>>

InsertMember(r) ==
    LET q == request[r] IN
    /\ q.op = "add"
    /\ role' = InsertedMember(q.project, q.target, q.arg)
    /\ UNCHANGED <<account, project, history>>

\* The row is changed as it is now, whatever was read.
ChangeRole(r) ==
    LET q == request[r] IN
    /\ q.op = "role"
    /\ role' = UpdatedRole(q.project, q.target, q.arg)
    /\ abdicated' = IF q.role = "owner" /\ q.target \in Owners(q.project)
                    THEN abdicated \cup {q.project} ELSE abdicated
    /\ UNCHANGED <<account, project, configured, changed, founder>>

DeleteRow(r) ==
    LET q == request[r] IN
    /\ q.op = "remove"
    /\ role' = DeletedMember(q.project, q.target)
    /\ UNCHANGED <<account, project, history>>

Write(r) ==
    /\ request[r].pc = "write"
    /\ \/ UpdateUserPassword(r)
       \/ InsertProject(r) \/ ChangeProject(r) \/ RemoveProject(r)
       \/ InsertMember(r) \/ ChangeRole(r) \/ DeleteRow(r)
    /\ request' = [request EXCEPT ![r] = Idle]
    /\ steady' = {s \in steady \ {r} :
                     role'[request[s].project][request[s].target] = "owner"}
    /\ UNCHANGED mix

-----------------------------------------------------------------------------

Next ==
    \/ \E u \in Users, w \in Passwords : Start(u, w)
    \/ \E r \in Requests :
          \/ Check(r) \/ Write(r) \/ Refuse(r)
          \/ \E u \in Users :
                \/ \E w \in Passwords : ChangePassword(r, u, w)
                \/ \E slug \in Slugs : CreateProject(r, u, slug)
                \/ \E p \in Projects :
                      \/ \E slug \in Slugs : UpdateProject(r, u, p, slug)
                      \/ DeleteProject(r, u, p)
                      \/ \E t \in Users :
                            \/ RemoveMember(r, u, p, t)
                            \/ \E new \in Roles :
                                  AddMember(r, u, p, t, new) \/ UpdateMemberRole(r, u, p, t, new)

Spec == Init /\ [][Next]_vars

-----------------------------------------------------------------------------
(***************************************************************************)
(* Properties.                                                             *)
(***************************************************************************)

\* Until an owner takes the ownership from an owner, by a role change, who
\* created a project still owns it, whatever admins had begun.
FounderOwns ==
    \A p \in Projects : Kept(p) /\ p \notin abdicated => role[p][founder[p]] = "owner"

\* The write of r, which reads role[p][u] as old and leaves new.
Writes(r, p, u) ==
    /\ request[r].pc = "write"
    /\ request'[r] = Idle
    /\ request[r].project = p
    /\ role'[p][u] # role[p][u]

\* Who owned a project all through a request of someone else does not lose the
\* ownership by it, unless the caller was an owner; and only owners make
\* owners.  (Roles are read once, at the start of a request.)
OwnershipWithOwners ==
    [][\A r \in Requests, p \in Projects, u \in Users :
          Writes(r, p, u) /\ (r \in steady \/ role'[p][u] = "owner") =>
              request[r].role = "owner"]_vars

\* The row of a member changes its role only by a request to change it: not by
\* being added twice; and who was removed comes back only by being added, not by
\* a role change that was under way.
RowsAsRequested ==
    [][\A r \in Requests, p \in Projects, u \in Users :
          Writes(r, p, u) =>
              \/ request[r].op = "add" /\ role[p][u] = None
              \/ request[r].op = "role" /\ role[p][u] # None
              \/ request[r].op \in {"remove", "delete"} /\ role'[p][u] = None]_vars

\* "If the user already exists, it updates the password hash to match the
\* configured password" (service/auth.go): after a start the configured password
\* is in force until a request of this process changes it; what an earlier
\* process had under way does not.
ConfiguredPasswordHolds ==
    configured # None /\ ~changed => account[configured.user] = configured.password

\* "cannot demote or remove the project owner" (service/project.go): no row that
\* makes an owner is changed or deleted for an admin.
OwnersNotTouched ==
    [][\A r \in Requests, p \in Projects, u \in Users :
          Writes(r, p, u) /\ role[p][u] = "owner" => request[r].role # "admin"]_vars
=============================================================================
