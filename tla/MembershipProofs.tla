-------------------------- MODULE MembershipProofs --------------------------
(***************************************************************************)
(* Proofs about Membership, for every set of users, projects, slugs,       *)
(* passwords, plain roles and requests.                                    *)
(*                                                                         *)
(* MemberInv says what is known of the requests under way: what they ask   *)
(* for, that what their checks have found of founders and of lasting       *)
(* owners is still true, and that members belong to projects that exist.   *)
(***************************************************************************)
EXTENDS Membership, TLAPS

\* What a request asks for, by its operation.
Shaped(q) ==
    /\ q.op \in {"add", "role", "remove"} => q.project \in Projects /\ q.target \in Users
    /\ q.op = "add" => q.arg \in Roles \ {"owner"}
    /\ q.op = "role" => q.arg \in Roles
    /\ q.op \in {"update", "delete"} => q.project \in Projects /\ q.target = None
    /\ q.op = "delete" => q.role = "owner"
    /\ q.op \in {"create", "update"} => q.arg \in Slugs
    /\ q.op = "create" => q.project = None /\ q.target \in Users
    /\ q.op = "password" => q.project = None /\ q.target \in Users /\ q.arg \in Passwords

\* Members and requests are of projects that were created.
PlaceInv ==
    /\ \A p \in Projects, u \in Users : role[p][u] # None => Kept(p)
    /\ \A r \in Requests : request[r].project # None =>
          project[request[r].project].life # "unused"

\* A request that will be carried out on the row of user u of project p.
Pending(r, op, p, u) ==
    /\ request[r].pc = "write"
    /\ request[r].op = op
    /\ request[r].project = p
    /\ request[r].target = u

\* No one is about to remove the founder, and only an owner to change its role.
FounderInv ==
    \A p \in Projects : Kept(p) /\ p \notin abdicated =>
        /\ founder[p] \in Users
        /\ role[p][founder[p]] = "owner"
        /\ \A r \in Requests :
              /\ ~Pending(r, "remove", p, founder[p])
              /\ Pending(r, "role", p, founder[p]) => request[r].role = "owner"

\* The same of those who own a project all through the request.
SteadyInv ==
    \A r \in steady :
        /\ request[r].pc # "idle"
        /\ request[r].project \in Projects
        /\ request[r].target \in Users
        /\ role[request[r].project][request[r].target] = "owner"
        /\ request[r].pc = "write" /\ request[r].op = "remove" => FALSE
        /\ request[r].pc = "write" /\ request[r].op = "role" => request[r].role = "owner"

\* Only an owner is about to make an owner.
MakerInv ==
    \A r \in Requests :
        request[r].pc = "write" /\ request[r].op = "role" /\ request[r].arg = "owner"
            => request[r].role = "owner"

MemberInv ==
    /\ TypeOK
    /\ \A r \in Requests : Shaped(request[r])
    /\ PlaceInv
    /\ FounderInv
    /\ SteadyInv
    /\ MakerInv

-----------------------------------------------------------------------------
(***************************************************************************)
(* What the operators do.                                                  *)
(***************************************************************************)

LEMMA IdleFacts ==
  /\ Idle \in RequestState
  /\ Shaped(Idle)
  /\ Idle.pc = "idle" /\ Idle.project = None /\ Idle.op = None
  BY NoneAssumption DEF Idle, RequestState, Shaped, Ops

\* One row of project_members is changed, and no other.
LEMMA WithRowFacts ==
  ASSUME TypeOK, NEW p \in Projects, NEW u \in Users, NEW value \in Roles \cup {None}
  PROVE  /\ WithRow(p, u, value) \in [Projects -> [Users -> Roles \cup {None}]]
         /\ WithRow(p, u, value)[p][u] = value
         /\ \A q \in Projects, v \in Users :
               q # p \/ v # u => WithRow(p, u, value)[q][v] = role[q][v]
  BY DEF TypeOK, WithRow

LEMMA InitInv == Init => MemberInv
  <1> SUFFICES ASSUME Init PROVE MemberInv
    OBVIOUS
  <1>1. (CHOOSE w \in Passwords : TRUE) \in Passwords /\ (CHOOSE slug \in Slugs : TRUE) \in Slugs
    BY SomeAssumption
  <1>2. account \in [Users -> Passwords \cup {None}]
    BY <1>1 DEF Init
  <1>3. /\ project \in [Projects -> ProjectState]
        /\ role \in [Projects -> [Users -> Roles \cup {None}]]
        /\ founder \in [Projects -> Users \cup {None}]
        /\ \A p \in Projects, u \in Users : role[p][u] # None => Kept(p)
        /\ \A p \in Projects : Kept(p) => founder[p] \in Users /\ role[p][founder[p]] = "owner"
    <2>1. CASE mix \cap {"create", "start"} # {}
      BY <2>1 DEF Init, Absent, ProjectState, Kept
    <2>2. CASE ~(mix \cap {"create", "start"} # {})
      <3> DEFINE first == CHOOSE p \in Projects : TRUE
      <3>1. PICK user \in Users :
              /\ role = [p \in Projects |-> [u \in Users |->
                           IF p = first /\ u = user THEN "owner" ELSE None]]
              /\ founder = [p \in Projects |-> IF p = first THEN user ELSE None]
        BY <2>2 DEF Init
      <3>2. project = [p \in Projects |-> IF p # first THEN Absent ELSE
                         [life |-> "kept", slug |-> CHOOSE slug \in Slugs : TRUE]]
        BY <2>2 DEF Init
      <3> HIDE DEF first
      <3> QED
        BY <1>1, <3>1, <3>2, NoneAssumption DEF Absent, ProjectState, Kept, Roles, Managers
    <2> QED
      BY <2>1, <2>2
  <1>4. \A r \in Requests : request[r] = Idle
    BY DEF Init
  <1>5. TypeOK
    BY <1>2, <1>3, IdleFacts DEF Init, TypeOK
  <1> QED
    BY <1>3, <1>4, <1>5, IdleFacts
    DEF Init, MemberInv, PlaceInv, FounderInv, SteadyInv, MakerInv, Pending

-----------------------------------------------------------------------------
(***************************************************************************)
(* Steps that write no row of a project.                                   *)
(***************************************************************************)

\* A request begins.
LEMMA BeginStep ==
  ASSUME MemberInv, NEW r \in Requests, NEW op \in Ops \ {"start"}, NEW u \in Users,
         NEW p \in Projects \cup {None}, NEW t \in Users \cup {None},
         NEW arg \in Roles \cup Slugs \cup Passwords \cup {None},
         NEW pc \in {"check", "write"},
         Begin(r, op, u, p, t, arg, pc),
         p # None => role[p][u] # None,
         pc = "write" => op \in {"delete", "password"},
         Shaped([op |-> op, pc |-> pc, project |-> p, target |-> t, arg |-> arg,
                 role |-> IF p = None THEN None ELSE role[p][u]])
  PROVE  MemberInv'
  <1> DEFINE q == [op |-> op, pc |-> pc, project |-> p, target |-> t, arg |-> arg,
                   role |-> IF p = None THEN None ELSE role[p][u]]
  <1>1. /\ request' = [request EXCEPT ![r] = q]
        /\ steady' \subseteq steady \cup {r}
        /\ r \in steady' => r \in steady \/ (p \in Projects /\ t \in Owners(p))
        /\ request[r] = Idle
        /\ UNCHANGED <<mix, account, project, role, configured, changed, founder, abdicated>>
    BY DEF Begin, rows, history
  <1>2. q \in RequestState /\ Shaped(q)
    BY DEF RequestState, MemberInv, TypeOK
  <1>3. r \notin steady
    BY <1>1, IdleFacts DEF MemberInv, SteadyInv
  <1>4. q.pc = pc /\ q.op = op /\ q.project = p /\ q.target = t /\ q.arg = arg
    OBVIOUS
  <1> HIDE DEF q
  <1>5. TypeOK'
    BY <1>1, <1>2 DEF MemberInv, TypeOK
  <1>6. \A s \in Requests : request'[s] = IF s = r THEN q ELSE request[s]
    BY <1>1 DEF MemberInv, TypeOK
  <1>7. PlaceInv'
    BY <1>1, <1>4, <1>6 DEF MemberInv, PlaceInv, Kept
  <1>8. FounderInv'
    BY <1>1, <1>4, <1>6 DEF MemberInv, FounderInv, Pending, Kept
  <1>9. SteadyInv'
    BY <1>1, <1>3, <1>4, <1>6 DEF MemberInv, SteadyInv, Owners, TypeOK
  <1>10. MakerInv'
    BY <1>4, <1>6 DEF MemberInv, MakerInv
  <1> QED
    BY <1>2, <1>5, <1>6, <1>7, <1>8, <1>9, <1>10 DEF MemberInv

\* The seven operations of requests, as they begin.
LEMMA Begins ==
  ASSUME MemberInv, NEW r \in Requests, NEW u \in Users,
         \/ \E w \in Passwords : ChangePassword(r, u, w)
         \/ \E slug \in Slugs : CreateProject(r, u, slug)
         \/ \E p \in Projects :
               \/ \E slug \in Slugs : UpdateProject(r, u, p, slug)
               \/ DeleteProject(r, u, p)
               \/ \E t \in Users :
                     \/ RemoveMember(r, u, p, t)
                     \/ \E new \in Roles :
                           AddMember(r, u, p, t, new) \/ UpdateMemberRole(r, u, p, t, new)
  PROVE  MemberInv'
  <1> None \notin Projects /\ None \notin Roles
    BY NoneAssumption
  <1>1. ASSUME NEW w \in Passwords, ChangePassword(r, u, w)
        PROVE  MemberInv'
    BY <1>1, BeginStep DEF ChangePassword, Shaped, Ops
  <1>2. ASSUME NEW slug \in Slugs, CreateProject(r, u, slug)
        PROVE  MemberInv'
    BY <1>2, BeginStep DEF CreateProject, Shaped, Ops
  <1>3. ASSUME NEW p \in Projects
        PROVE  Managers \subseteq Roles /\ "owner" \in Roles
    BY DEF Roles, Managers
  <1>4. ASSUME NEW p \in Projects, NEW slug \in Slugs, UpdateProject(r, u, p, slug)
        PROVE  MemberInv'
    <2>1. role[p][u] # None
      BY <1>3, <1>4 DEF UpdateProject, Member
    <2> QED
      <3>1. Begin(r, "update", u, p, None, slug, "check")
        BY <1>4 DEF UpdateProject
      <3>2. Shaped([op |-> "update", pc |-> "check", project |-> p, target |-> None,
                    arg |-> slug, role |-> IF p = None THEN None ELSE role[p][u]])
        BY <2>1 DEF Shaped
      <3> QED
        BY <2>1, <3>1, <3>2, BeginStep DEF Ops
  <1>5. ASSUME NEW p \in Projects, DeleteProject(r, u, p)
        PROVE  MemberInv'
    <2>1. role[p][u] = "owner" /\ role[p][u] # None
      BY <1>3, <1>5 DEF DeleteProject, Member
    <2> QED
      <3>1. Begin(r, "delete", u, p, None, None, "write")
        BY <1>5 DEF DeleteProject
      <3>2. Shaped([op |-> "delete", pc |-> "write", project |-> p, target |-> None,
                    arg |-> None, role |-> IF p = None THEN None ELSE role[p][u]])
        BY <2>1 DEF Shaped
      <3> QED
        BY <2>1, <3>1, <3>2, BeginStep DEF Ops
  <1>6. ASSUME NEW p \in Projects, NEW t \in Users, RemoveMember(r, u, p, t)
        PROVE  MemberInv'
    <2>1. role[p][u] # None
      BY <1>3, <1>6 DEF RemoveMember, Member
    <2> QED
      <3>1. Begin(r, "remove", u, p, t, None, "check")
        BY <1>6 DEF RemoveMember
      <3>2. Shaped([op |-> "remove", pc |-> "check", project |-> p, target |-> t,
                    arg |-> None, role |-> IF p = None THEN None ELSE role[p][u]])
        BY <2>1 DEF Shaped
      <3> QED
        BY <2>1, <3>1, <3>2, BeginStep DEF Ops
  <1>7. ASSUME NEW p \in Projects, NEW t \in Users, NEW new \in Roles,
               AddMember(r, u, p, t, new)
        PROVE  MemberInv'
    <2>1. role[p][u] # None /\ new # "owner"
      BY <1>3, <1>7 DEF AddMember, Member
    <2> QED
      <3>1. Begin(r, "add", u, p, t, new, "check")
        BY <1>7 DEF AddMember
      <3>2. Shaped([op |-> "add", pc |-> "check", project |-> p, target |-> t,
                    arg |-> new, role |-> IF p = None THEN None ELSE role[p][u]])
        BY <2>1 DEF Shaped
      <3> QED
        BY <2>1, <3>1, <3>2, BeginStep DEF Ops
  <1>8. ASSUME NEW p \in Projects, NEW t \in Users, NEW new \in Roles,
               UpdateMemberRole(r, u, p, t, new)
        PROVE  MemberInv'
    <2>1. role[p][u] # None
      BY <1>3, <1>8 DEF UpdateMemberRole, Member
    <2> QED
      <3>1. Begin(r, "role", u, p, t, new, "check")
        BY <1>8 DEF UpdateMemberRole
      <3>2. Shaped([op |-> "role", pc |-> "check", project |-> p, target |-> t,
                    arg |-> new, role |-> IF p = None THEN None ELSE role[p][u]])
        BY <2>1 DEF Shaped
      <3> QED
        BY <2>1, <3>1, <3>2, BeginStep DEF Ops
  <1> QED
    BY <1>1, <1>2, <1>4, <1>5, <1>6, <1>7, <1>8

\* The process is started again: there are no requests.
LEMMA StartStep ==
  ASSUME MemberInv, NEW u \in Users, NEW w \in Passwords, Start(u, w)
  PROVE  MemberInv'
  <1>1. /\ \A r \in Requests : request'[r] = Idle
        /\ steady' = {}
        /\ request' \in [Requests -> RequestState]
        /\ UNCHANGED <<mix, project, role, founder, abdicated>>
    BY IdleFacts DEF Start
  <1>2. TypeOK'
    BY <1>1 DEF Start, SeedAdmin, MemberInv, TypeOK
  <1> QED
    BY <1>1, <1>2, IdleFacts
    DEF MemberInv, PlaceInv, FounderInv, SteadyInv, MakerInv, Pending, Kept

\* A request is refused.
LEMMA RefuseStep ==
  ASSUME MemberInv, NEW r \in Requests, Refuse(r)
  PROVE  MemberInv'
  <1>1. /\ \A s \in Requests : request'[s] = IF s = r THEN Idle ELSE request[s]
        /\ request' \in [Requests -> RequestState]
        /\ steady' = steady \ {r}
        /\ UNCHANGED <<mix, account, project, role, configured, changed, founder, abdicated>>
    BY IdleFacts DEF Refuse, rows, history, MemberInv, TypeOK
  <1>2. TypeOK'
    BY <1>1 DEF MemberInv, TypeOK
  <1>3. \A s \in Requests : Shaped(request'[s])
    BY <1>1, IdleFacts DEF MemberInv
  <1>4. PlaceInv'
    BY <1>1, IdleFacts DEF MemberInv, PlaceInv, Kept
  <1>5. FounderInv'
    BY <1>1, IdleFacts DEF MemberInv, FounderInv, Pending, Kept
  <1>6. SteadyInv'
    BY <1>1, IdleFacts DEF MemberInv, SteadyInv, TypeOK
  <1>7. MakerInv'
    BY <1>1, IdleFacts DEF MemberInv, MakerInv
  <1> QED
    BY <1>2, <1>3, <1>4, <1>5, <1>6, <1>7 DEF MemberInv

\* What a check has found: a founder that still owns the project, and whoever
\* owns it since the request began, is not removed, and demoted only by an owner.
LEMMA CheckStep ==
  ASSUME MemberInv, NEW r \in Requests, Check(r)
  PROVE  MemberInv'
  <1> DEFINE q == request[r]
             new == [q EXCEPT !.pc = "write"]
  <1>1. /\ q.pc = "check"
        /\ SlugFree(q) \/ MayAdd(q) \/ MayChange(q) \/ MayRemove(q)
        /\ request' = [request EXCEPT ![r].pc = "write"]
        /\ UNCHANGED <<mix, account, project, role, configured, changed, founder, abdicated, steady>>
    BY DEF Check, rows, history
  <1>2. q \in RequestState /\ Shaped(q)
    BY DEF MemberInv, TypeOK
  <1>3. /\ new \in RequestState
        /\ new.op = q.op /\ new.project = q.project /\ new.target = q.target
        /\ new.arg = q.arg /\ new.role = q.role /\ new.pc = "write"
    BY <1>2 DEF RequestState
  <1>4. \A s \in Requests : request'[s] = IF s = r THEN new ELSE request[s]
    BY <1>1 DEF MemberInv, TypeOK
  <1>5. Shaped(new)
    BY <1>2, <1>3 DEF Shaped
  <1>6. /\ q.op = "remove" => role[q.project][q.target] # "owner"
        /\ q.op = "role" => ("owner" \in {role[q.project][q.target], q.arg} => q.role = "owner")
    BY <1>1 DEF SlugFree, MayAdd, MayChange, MayRemove
  <1> HIDE DEF q, new
  <1>7. TypeOK'
    BY <1>1, <1>3, <1>4 DEF MemberInv, TypeOK
  <1>8. PlaceInv'
    BY <1>1, <1>3, <1>4 DEF MemberInv, PlaceInv, Kept, q
  <1>9. FounderInv'
    <2> SUFFICES ASSUME NEW p \in Projects, Kept(p), p \notin abdicated, NEW s \in Requests
                 PROVE  /\ founder[p] \in Users /\ role[p][founder[p]] = "owner"
                        /\ ~Pending(s, "remove", p, founder[p])'
                        /\ Pending(s, "role", p, founder[p])' => request'[s].role = "owner"
      BY <1>1 DEF FounderInv, Kept, Pending
    <2>1. /\ founder[p] \in Users /\ role[p][founder[p]] = "owner"
          /\ ~Pending(s, "remove", p, founder[p])
          /\ Pending(s, "role", p, founder[p]) => request[s].role = "owner"
      BY DEF MemberInv, FounderInv
    <2>2. CASE s # r
      BY <1>1, <1>4, <2>1, <2>2 DEF Pending
    <2>3. CASE s = r
      BY <1>1, <1>3, <1>4, <1>6, <2>1, <2>3 DEF Pending
    <2> QED
      BY <2>1, <2>2, <2>3
  <1>10. SteadyInv'
    BY <1>1, <1>3, <1>4, <1>6 DEF MemberInv, SteadyInv, q, TypeOK
  <1>11. MakerInv'
    BY <1>1, <1>3, <1>4, <1>6 DEF MemberInv, MakerInv
  <1> QED
    BY <1>4, <1>5, <1>7, <1>8, <1>9, <1>10, <1>11 DEF MemberInv

-----------------------------------------------------------------------------
(***************************************************************************)
(* Steps that write.                                                       *)
(***************************************************************************)

\* What every write does to the requests.
Done(r) ==
    /\ request[r].pc = "write"
    /\ request' = [request EXCEPT ![r] = Idle]
    /\ steady' = {s \in steady \ {r} :
                     role'[request[s].project][request[s].target] = "owner"}
    /\ mix' = mix

\* It is enough that a write leaves the rows of the database in order, and keeps
\* the founders of the projects that were there.
LEMMA AfterWrite ==
  ASSUME MemberInv, NEW r \in Requests, Done(r),
         account' \in [Users -> Passwords \cup {None}],
         project' \in [Projects -> ProjectState],
         role' \in [Projects -> [Users -> Roles \cup {None}]],
         configured' = configured,
         changed' \in BOOLEAN,
         founder' \in [Projects -> Users \cup {None}],
         abdicated' \subseteq Projects,
         \A p \in Projects, u \in Users : role'[p][u] # None => Kept(p)',
         \A p \in Projects : project[p].life # "unused" => project'[p].life # "unused",
         \A p \in Projects : Kept(p)' /\ p \notin abdicated' =>
            /\ founder'[p] \in Users
            /\ role'[p][founder'[p]] = "owner"
            /\ \/ project[p].life = "unused"
               \/ Kept(p) /\ p \notin abdicated /\ founder'[p] = founder[p]
  PROVE  MemberInv'
  <1>1. /\ \A s \in Requests : request'[s] = IF s = r THEN Idle ELSE request[s]
        /\ request' \in [Requests -> RequestState]
        /\ \A s \in steady' :
              s \in steady /\ s # r /\ role'[request[s].project][request[s].target] = "owner"
        /\ mix' = mix
    BY IdleFacts DEF Done, MemberInv, TypeOK
  <1>2. TypeOK'
    <2>1. steady' \subseteq Requests
      BY <1>1 DEF MemberInv, TypeOK
    <2> QED
      BY <1>1, <2>1 DEF MemberInv, TypeOK
  <1>3. \A s \in Requests : Shaped(request'[s])
    BY <1>1, IdleFacts DEF MemberInv
  <1>4. PlaceInv'
    <2>1. \A s \in Requests : request[s].project # None => request[s].project \in Projects
      BY DEF MemberInv, TypeOK, RequestState
    <2> QED
      BY <1>1, <2>1, IdleFacts DEF MemberInv, PlaceInv
  <1>5. FounderInv'
    <2> SUFFICES ASSUME NEW p \in Projects, Kept(p)', p \notin abdicated', NEW s \in Requests
                 PROVE  /\ ~Pending(s, "remove", p, founder[p])'
                        /\ Pending(s, "role", p, founder[p])' => request'[s].role = "owner"
      BY DEF FounderInv, Pending
    <2>1. CASE s = r
      BY <1>1, <2>1, IdleFacts DEF Pending
    <2>2. CASE s # r /\ project[p].life = "unused"
      <3>1. request[s].project # p
        BY <2>2, NoneAssumption DEF MemberInv, PlaceInv
      <3> QED
        BY <1>1, <2>2, <3>1 DEF Pending
    <2>3. CASE s # r /\ Kept(p) /\ p \notin abdicated /\ founder'[p] = founder[p]
      <3>1. /\ ~Pending(s, "remove", p, founder[p])
            /\ Pending(s, "role", p, founder[p]) => request[s].role = "owner"
        BY <2>3 DEF MemberInv, FounderInv
      <3> QED
        BY <1>1, <2>3, <3>1 DEF Pending
    <2> QED
      BY <2>1, <2>2, <2>3
  <1>6. SteadyInv'
    BY <1>1 DEF MemberInv, SteadyInv, TypeOK
  <1>7. MakerInv'
    BY <1>1, IdleFacts DEF MemberInv, MakerInv
  <1> QED
    BY <1>2, <1>3, <1>4, <1>5, <1>6, <1>7 DEF MemberInv

\* An account gets a new password.
LEMMA PasswordWrite ==
  ASSUME MemberInv, NEW r \in Requests, Done(r), UpdateUserPassword(r)
  PROVE  MemberInv'
  <1> DEFINE q == request[r]
  <1>1. q.target \in Users /\ q.arg \in Passwords
    BY DEF UpdateUserPassword, MemberInv, Shaped
  <1>2. /\ account' = [account EXCEPT ![q.target] = q.arg]
        /\ changed' = (changed \/ q.target = configured.user)
        /\ UNCHANGED <<project, role, configured, founder, abdicated>>
    BY DEF UpdateUserPassword
  <1> HIDE DEF q
  <1>3. account' \in [Users -> Passwords \cup {None}]
    BY <1>1, <1>2 DEF MemberInv, TypeOK
  <1>4. changed' \in BOOLEAN
    BY <1>2 DEF MemberInv, TypeOK
  <1> QED
    BY <1>2, <1>3, <1>4, AfterWrite DEF MemberInv, TypeOK, PlaceInv, FounderInv, Kept

\* A project gets an identifier that was never used, and an owner.
LEMMA CreateWrite ==
  ASSUME MemberInv, NEW r \in Requests, Done(r), InsertProject(r)
  PROVE  MemberInv'
  <1> DEFINE q == request[r]
  <1>1. q.target \in Users /\ q.arg \in Slugs
    BY DEF InsertProject, MemberInv, Shaped
  <1>2. PICK p \in Projects :
          /\ project[p].life = "unused"
          /\ project' = [project EXCEPT ![p] = [life |-> "kept", slug |-> q.arg]]
          /\ role' = WithRow(p, q.target, "owner")
          /\ founder' = [founder EXCEPT ![p] = q.target]
    BY DEF InsertProject
  <1>3. UNCHANGED <<account, configured, changed, abdicated>>
    BY DEF InsertProject
  <1> HIDE DEF q
  <1>4. /\ role' \in [Projects -> [Users -> Roles \cup {None}]]
        /\ role'[p][q.target] = "owner"
        /\ \A o \in Projects, v \in Users :
              o # p \/ v # q.target => role'[o][v] = role[o][v]
    BY <1>1, <1>2, WithRowFacts DEF MemberInv, Roles, Managers
  <1>5. /\ project' \in [Projects -> ProjectState]
        /\ Kept(p)'
        /\ \A o \in Projects : o # p => project'[o] = project[o]
    BY <1>1, <1>2 DEF MemberInv, TypeOK, ProjectState, Kept
  <1>6. /\ founder' \in [Projects -> Users \cup {None}]
        /\ founder'[p] = q.target
        /\ \A o \in Projects : o # p => founder'[o] = founder[o]
    BY <1>1, <1>2 DEF MemberInv, TypeOK
  <1>7. \A o \in Projects, v \in Users : role'[o][v] # None => Kept(o)'
    BY <1>4, <1>5 DEF MemberInv, PlaceInv, Kept
  <1>8. \A o \in Projects : project[o].life # "unused" => project'[o].life # "unused"
    BY <1>5 DEF Kept
  <1>9. \A o \in Projects : Kept(o)' /\ o \notin abdicated' =>
            /\ founder'[o] \in Users
            /\ role'[o][founder'[o]] = "owner"
            /\ \/ project[o].life = "unused"
               \/ Kept(o) /\ o \notin abdicated /\ founder'[o] = founder[o]
    <2> TAKE o \in Projects
    <2>1. CASE o = p
      BY <1>1, <1>2, <1>4, <1>6, <2>1
    <2>2. CASE o # p
      BY <1>3, <1>4, <1>5, <1>6, <2>2 DEF MemberInv, FounderInv, Kept
    <2> QED
      BY <2>1, <2>2
  <1> QED
    BY <1>3, <1>4, <1>5, <1>6, <1>7, <1>8, <1>9, AfterWrite DEF MemberInv, TypeOK

\* A project gets another slug.
LEMMA ChangeWrite ==
  ASSUME MemberInv, NEW r \in Requests, Done(r), ChangeProject(r)
  PROVE  MemberInv'
  <1> DEFINE q == request[r]
  <1>1. /\ q.project \in Projects /\ q.arg \in Slugs
        /\ project' = [project EXCEPT ![q.project].slug = q.arg]
        /\ UNCHANGED <<account, role, configured, changed, founder, abdicated>>
    BY DEF ChangeProject, MemberInv, Shaped, history
  <1> HIDE DEF q
  <1>2. /\ project' \in [Projects -> ProjectState]
        /\ \A p \in Projects : project'[p].life = project[p].life
    BY <1>1 DEF MemberInv, TypeOK, ProjectState
  <1> QED
    BY <1>1, <1>2, AfterWrite DEF MemberInv, TypeOK, PlaceInv, FounderInv, Kept

\* A project is deleted with its members.
LEMMA RemoveWrite ==
  ASSUME MemberInv, NEW r \in Requests, Done(r), RemoveProject(r)
  PROVE  MemberInv'
  <1> DEFINE q == request[r]
  <1>1. /\ q.project \in Projects
        /\ project' = [project EXCEPT ![q.project] = [life |-> "deleted", slug |-> None]]
        /\ role' = [role EXCEPT ![q.project] = [u \in Users |-> None]]
        /\ UNCHANGED <<account, configured, changed, founder, abdicated>>
    BY DEF RemoveProject, WithoutProject, MemberInv, Shaped, history
  <1> HIDE DEF q
  <1>2. /\ project' \in [Projects -> ProjectState]
        /\ project'[q.project].life = "deleted"
        /\ \A p \in Projects : p # q.project => project'[p] = project[p]
    BY <1>1 DEF MemberInv, TypeOK, ProjectState
  <1>3. /\ role' \in [Projects -> [Users -> Roles \cup {None}]]
        /\ \A u \in Users : role'[q.project][u] = None
        /\ \A p \in Projects : p # q.project => role'[p] = role[p]
    BY <1>1 DEF MemberInv, TypeOK
  <1>4. \A p \in Projects, u \in Users : role'[p][u] # None => Kept(p)'
    BY <1>1, <1>2, <1>3 DEF MemberInv, PlaceInv, Kept
  <1>5. \A p \in Projects : Kept(p)' => p # q.project
    BY <1>2 DEF Kept
  <1> QED
    BY <1>1, <1>2, <1>3, <1>4, <1>5, AfterWrite DEF MemberInv, TypeOK, FounderInv, Kept

\* A row is inserted where there is none.
LEMMA AddWrite ==
  ASSUME MemberInv, NEW r \in Requests, Done(r), InsertMember(r)
  PROVE  MemberInv'
  <1> DEFINE q == request[r]
  <1>1. /\ q.project \in Projects /\ q.target \in Users /\ q.arg \in Roles
        /\ role' = InsertedMember(q.project, q.target, q.arg)
        /\ UNCHANGED <<account, project, configured, changed, founder, abdicated>>
    BY DEF InsertMember, MemberInv, Shaped, history
  <1> HIDE DEF q
  <1>2. CASE ~(Kept(q.project) /\ role[q.project][q.target] = None)
    BY <1>1, <1>2, AfterWrite DEF InsertedMember, MemberInv, TypeOK, PlaceInv, FounderInv, Kept
  <1>3. CASE Kept(q.project) /\ role[q.project][q.target] = None
    <2>1. /\ role' \in [Projects -> [Users -> Roles \cup {None}]]
          /\ \A p \in Projects, u \in Users :
                p # q.project \/ u # q.target => role'[p][u] = role[p][u]
      BY <1>1, <1>3, WithRowFacts DEF InsertedMember, MemberInv
    <2>2. \A p \in Projects, u \in Users : role[p][u] = "owner" => role'[p][u] = "owner"
      BY <1>3, <2>1, NoneAssumption DEF Roles, Managers
    <2>3. \A p \in Projects, u \in Users : role'[p][u] # None => Kept(p)
      BY <1>3, <2>1 DEF MemberInv, PlaceInv
    <2> QED
      BY <1>1, <2>1, <2>2, <2>3, AfterWrite DEF MemberInv, TypeOK, FounderInv, Kept
  <1> QED
    BY <1>2, <1>3

\* A row that is there gets another role: of the founder, only by an owner.
LEMMA RoleWrite ==
  ASSUME MemberInv, NEW r \in Requests, Done(r), ChangeRole(r)
  PROVE  MemberInv'
  <1> DEFINE q == request[r]
  <1>1. /\ q.op = "role" /\ q.pc = "write"
        /\ q.project \in Projects /\ q.target \in Users /\ q.arg \in Roles
        /\ role' = UpdatedRole(q.project, q.target, q.arg)
        /\ abdicated' = IF q.role = "owner" /\ q.target \in Owners(q.project)
                        THEN abdicated \cup {q.project} ELSE abdicated
        /\ UNCHANGED <<account, project, configured, changed, founder>>
    BY DEF ChangeRole, Done, MemberInv, Shaped
  <1>2. \A p \in Projects : Kept(p) /\ p \notin abdicated
            /\ q.project = p /\ q.target = founder[p] => q.role = "owner"
    BY <1>1 DEF MemberInv, FounderInv, Pending
  <1> HIDE DEF q
  <1>3. /\ role' \in [Projects -> [Users -> Roles \cup {None}]]
        /\ \A p \in Projects, u \in Users :
              p # q.project \/ u # q.target => role'[p][u] = role[p][u]
        /\ \A p \in Projects, u \in Users : role[p][u] = None => role'[p][u] = None
    <2>1. CASE role[q.project][q.target] = None
      BY <1>1, <2>1 DEF UpdatedRole, MemberInv, TypeOK
    <2>2. CASE role[q.project][q.target] # None
      <3>1. role' = WithRow(q.project, q.target, q.arg)
        BY <1>1, <2>2 DEF UpdatedRole
      <3> QED
        BY <1>1, <2>2, <3>1, WithRowFacts DEF MemberInv
    <2> QED
      BY <2>1, <2>2
  <1>4. abdicated \subseteq abdicated' /\ abdicated' \subseteq Projects
    BY <1>1 DEF MemberInv, TypeOK
  <1>5. \A p \in Projects : Kept(p)' /\ p \notin abdicated' =>
            /\ founder'[p] \in Users
            /\ role'[p][founder'[p]] = "owner"
            /\ Kept(p) /\ p \notin abdicated /\ founder'[p] = founder[p]
    <2> SUFFICES ASSUME NEW p \in Projects, Kept(p)', p \notin abdicated'
                 PROVE  /\ Kept(p) /\ p \notin abdicated /\ founder'[p] = founder[p]
                        /\ founder[p] \in Users /\ role'[p][founder[p]] = "owner"
      BY <1>1
    <2>1. Kept(p) /\ p \notin abdicated /\ founder'[p] = founder[p]
      BY <1>1, <1>4 DEF Kept
    <2>2. founder[p] \in Users /\ role[p][founder[p]] = "owner"
      BY <2>1 DEF MemberInv, FounderInv
    <2>3. ~(q.project = p /\ q.target = founder[p])
      BY <1>1, <1>2, <2>1, <2>2 DEF Owners
    <2> QED
      BY <1>3, <2>1, <2>2, <2>3
  <1>6. \A p \in Projects, u \in Users : role'[p][u] # None => Kept(p)'
    BY <1>1, <1>3 DEF MemberInv, PlaceInv, Kept
  <1> QED
    BY <1>1, <1>3, <1>4, <1>5, <1>6, AfterWrite DEF MemberInv, TypeOK

\* A row is deleted: not that of the founder.
LEMMA DeleteWrite ==
  ASSUME MemberInv, NEW r \in Requests, Done(r), DeleteRow(r)
  PROVE  MemberInv'
  <1> DEFINE q == request[r]
  <1>1. /\ q.op = "remove" /\ q.pc = "write"
        /\ q.project \in Projects /\ q.target \in Users
        /\ role' = WithRow(q.project, q.target, None)
        /\ UNCHANGED <<account, project, configured, changed, founder, abdicated>>
    BY DEF DeleteRow, DeletedMember, Done, MemberInv, Shaped, history
  <1>2. \A p \in Projects : Kept(p) /\ p \notin abdicated =>
            q.project # p \/ q.target # founder[p]
    BY <1>1 DEF MemberInv, FounderInv, Pending
  <1> HIDE DEF q
  <1>3. /\ role' \in [Projects -> [Users -> Roles \cup {None}]]
        /\ role'[q.project][q.target] = None
        /\ \A p \in Projects, u \in Users :
              p # q.project \/ u # q.target => role'[p][u] = role[p][u]
    BY <1>1, WithRowFacts DEF MemberInv
  <1>4. \A p \in Projects, u \in Users : role'[p][u] # None => Kept(p)'
    BY <1>1, <1>3 DEF MemberInv, PlaceInv, Kept
  <1>5. \A p \in Projects : Kept(p) /\ p \notin abdicated =>
            founder[p] \in Users /\ role'[p][founder[p]] = "owner"
    BY <1>2, <1>3 DEF MemberInv, FounderInv
  <1> QED
    BY <1>1, <1>3, <1>4, <1>5, AfterWrite DEF MemberInv, TypeOK, Kept

LEMMA NextInv == MemberInv /\ [Next]_vars => MemberInv'
  <1> SUFFICES ASSUME MemberInv, [Next]_vars PROVE MemberInv'
    OBVIOUS
  <1>1. ASSUME NEW u \in Users, NEW w \in Passwords, Start(u, w) PROVE MemberInv'
    BY <1>1, StartStep
  <1>2. ASSUME NEW r \in Requests, Check(r) PROVE MemberInv'
    BY <1>2, CheckStep
  <1>3. ASSUME NEW r \in Requests, Write(r) PROVE MemberInv'
    <2>1. Done(r)
      BY <1>3 DEF Write, Done
    <2> QED
      BY <1>3, <2>1, PasswordWrite, CreateWrite, ChangeWrite, RemoveWrite, AddWrite,
         RoleWrite, DeleteWrite DEF Write
  <1>4. ASSUME NEW r \in Requests, Refuse(r) PROVE MemberInv'
    BY <1>4, RefuseStep
  <1>5. ASSUME NEW r \in Requests, NEW u \in Users,
               \/ \E w \in Passwords : ChangePassword(r, u, w)
               \/ \E slug \in Slugs : CreateProject(r, u, slug)
               \/ \E p \in Projects :
                     \/ \E slug \in Slugs : UpdateProject(r, u, p, slug)
                     \/ DeleteProject(r, u, p)
                     \/ \E t \in Users :
                           \/ RemoveMember(r, u, p, t)
                           \/ \E new \in Roles :
                                 AddMember(r, u, p, t, new) \/ UpdateMemberRole(r, u, p, t, new)
        PROVE  MemberInv'
    BY <1>5, Begins
  <1>6. CASE UNCHANGED vars
    BY <1>6 DEF vars, rows, history, MemberInv, TypeOK, PlaceInv, FounderInv, SteadyInv,
       MakerInv, Pending, Kept
  <1> QED
    BY <1>1, <1>2, <1>3, <1>4, <1>5, <1>6 DEF Next

\* MemberInv holds in every reachable state.
LEMMA MemberInvHolds == Spec => []MemberInv
  BY InitInv, NextInv, PTL DEF Spec

-----------------------------------------------------------------------------
(***************************************************************************)
(* The theorems.                                                           *)
(***************************************************************************)

\* Accounts, projects, members and requests keep their types.
THEOREM MemberTypes == Spec => []TypeOK
  <1>1. MemberInv => TypeOK
    BY DEF MemberInv
  <1> QED
    BY <1>1, MemberInvHolds, PTL

\* UpdateMemberRole and RemoveMember of service/project.go read the role of the
\* target before they write: even so, who created a project owns it until an
\* owner takes the ownership from an owner.
THEOREM FounderKeepsProject == Spec => []FounderOwns
  <1>1. MemberInv => FounderOwns
    BY DEF MemberInv, FounderInv, FounderOwns
  <1> QED
    BY <1>1, MemberInvHolds, PTL

\* A step that changes a row of project p is a write of the request.
LEMMA OnlyWrites ==
  ASSUME MemberInv, [Next]_vars, NEW r \in Requests, NEW p \in Projects, NEW u \in Users,
         Writes(r, p, u)
  PROVE  Write(r)
  <1>1. /\ request[r].pc = "write" /\ request'[r] = Idle
        /\ request'[r] # request[r] /\ role' # role
    BY IdleFacts DEF Writes
  <1>2. ASSUME NEW v \in Users, NEW w \in Passwords, Start(v, w) PROVE FALSE
    BY <1>1, <1>2 DEF Start
  <1>3. ASSUME NEW s \in Requests, Check(s) \/ Refuse(s) PROVE FALSE
    BY <1>1, <1>3 DEF Check, Refuse, rows
  <1>4. ASSUME NEW s \in Requests, Write(s) PROVE s = r
    BY <1>1, <1>4 DEF Write, MemberInv, TypeOK
  <1>5. ASSUME NEW s \in Requests, NEW op, NEW v \in Users, NEW o, NEW t, NEW arg, NEW pc,
               Begin(s, op, v, o, t, arg, pc)
        PROVE  FALSE
    BY <1>1, <1>5 DEF Begin, rows
  <1>6. CASE UNCHANGED vars
    BY <1>1, <1>6 DEF vars, rows
  <1> QED
    BY <1>2, <1>3, <1>4, <1>5, <1>6
    DEF Next, ChangePassword, CreateProject, UpdateProject, DeleteProject, RemoveMember,
        AddMember, UpdateMemberRole

\* The ways in which a request can change a row.
LEMMA WriteKinds ==
  ASSUME MemberInv, NEW r \in Requests, NEW p \in Projects, NEW u \in Users,
         Writes(r, p, u), Write(r)
  PROVE  \/ /\ request[r].op = "add" /\ request[r].target = u
            /\ role[p][u] = None /\ role'[p][u] # "owner"
         \/ /\ request[r].op = "role" /\ request[r].target = u
            /\ role[p][u] # None /\ role'[p][u] = request[r].arg
         \/ /\ request[r].op = "remove" /\ request[r].target = u
            /\ role'[p][u] = None
         \/ /\ request[r].op = "delete" /\ request[r].role = "owner"
            /\ role'[p][u] = None
  <1> DEFINE q == request[r]
  <1>1. Shaped(q) /\ q.project = p /\ role'[p][u] # role[p][u]
    BY DEF MemberInv, Writes
  <1> HIDE DEF q
  <1>2. CASE UpdateUserPassword(r) \/ ChangeProject(r)
    BY <1>1, <1>2 DEF UpdateUserPassword, ChangeProject
  <1>3. CASE InsertProject(r)
    BY <1>1, <1>3, NoneAssumption DEF InsertProject, Shaped, q
  <1>4. CASE RemoveProject(r)
    BY <1>1, <1>4 DEF RemoveProject, WithoutProject, Shaped, q, MemberInv, TypeOK
  <1>5. CASE InsertMember(r)
    <2>1. q.op = "add" /\ q.target \in Users /\ q.arg \in Roles \ {"owner"}
      BY <1>1, <1>5 DEF InsertMember, Shaped, q
    <2>2. role' = InsertedMember(p, q.target, q.arg)
      BY <1>1, <1>5 DEF InsertMember, q
    <2>3. role[p][q.target] = None /\ role' = WithRow(p, q.target, q.arg)
      BY <1>1, <2>2 DEF InsertedMember
    <2>4. u = q.target /\ role'[p][u] = q.arg
      <3>1. /\ role'[p][q.target] = q.arg
            /\ \A v \in Users : v # q.target => role'[p][v] = role[p][v]
        BY <2>1, <2>3, WithRowFacts DEF MemberInv
      <3> QED
        BY <1>1, <3>1
    <2> QED
      BY <2>1, <2>3, <2>4 DEF q
  <1>6. CASE ChangeRole(r)
    <2>1. q.op = "role" /\ q.target \in Users /\ q.arg \in Roles
      BY <1>1, <1>6 DEF ChangeRole, Shaped, q
    <2>2. role' = UpdatedRole(p, q.target, q.arg)
      BY <1>1, <1>6 DEF ChangeRole, q
    <2>3. role[p][q.target] # None /\ role' = WithRow(p, q.target, q.arg)
      BY <1>1, <2>2 DEF UpdatedRole
    <2>4. u = q.target /\ role'[p][u] = q.arg
      <3>1. /\ role'[p][q.target] = q.arg
            /\ \A v \in Users : v # q.target => role'[p][v] = role[p][v]
        BY <2>1, <2>3, WithRowFacts DEF MemberInv
      <3> QED
        BY <1>1, <3>1
    <2> QED
      BY <2>1, <2>3, <2>4 DEF q
  <1>7. CASE DeleteRow(r)
    <2>1. q.op = "remove" /\ q.target \in Users
      BY <1>1, <1>7 DEF DeleteRow, Shaped, q
    <2>2. role' = WithRow(p, q.target, None)
      BY <1>1, <1>7 DEF DeleteRow, DeletedMember, q
    <2>3. u = q.target /\ role'[p][u] = None
      <3>1. /\ role'[p][q.target] = None
            /\ \A v \in Users : v # q.target => role'[p][v] = role[p][v]
        BY <2>1, <2>2, WithRowFacts DEF MemberInv
      <3> QED
        BY <1>1, <3>1
    <2> QED
      BY <2>1, <2>3 DEF q
  <1> QED
    BY <1>2, <1>3, <1>4, <1>5, <1>6, <1>7 DEF Write

\* The body of OwnershipWithOwners.
LEMMA OwnershipStep ==
  ASSUME MemberInv, [Next]_vars
  PROVE  \A r \in Requests, p \in Projects, u \in Users :
            Writes(r, p, u) /\ (r \in steady \/ role'[p][u] = "owner") =>
                request[r].role = "owner"
  <1> SUFFICES ASSUME NEW r \in Requests, NEW p \in Projects, NEW u \in Users,
                      Writes(r, p, u), r \in steady \/ role'[p][u] = "owner"
               PROVE  request[r].role = "owner"
    OBVIOUS
  <1>1. /\ request[r].pc = "write" /\ request[r].project = p
        /\ "owner" # None
    BY NoneAssumption DEF Writes, Roles, Managers
  <1>2. \/ /\ request[r].op = "add" /\ request[r].target = u
           /\ role[p][u] = None /\ role'[p][u] # "owner"
        \/ /\ request[r].op = "role" /\ request[r].target = u
           /\ role[p][u] # None /\ role'[p][u] = request[r].arg
        \/ /\ request[r].op = "remove" /\ request[r].target = u
           /\ role'[p][u] = None
        \/ /\ request[r].op = "delete" /\ request[r].role = "owner"
           /\ role'[p][u] = None
    BY OnlyWrites, WriteKinds
  <1>3. CASE r \in steady
    BY <1>1, <1>2, <1>3 DEF MemberInv, SteadyInv
  <1>4. CASE role'[p][u] = "owner"
    BY <1>1, <1>2, <1>4 DEF MemberInv, MakerInv
  <1> QED
    BY <1>3, <1>4

\* Only an owner makes an owner, or takes the ownership from who has it all
\* through the request, although the role of the target is read before the
\* statement that changes the row (service/project.go, UpdateMemberRole and
\* RemoveMember).
THEOREM OwnersAmongThemselves == Spec => OwnershipWithOwners
  <1>1. MemberInv /\ [Next]_vars =>
          [\A r \in Requests, p \in Projects, u \in Users :
             Writes(r, p, u) /\ (r \in steady \/ role'[p][u] = "owner") =>
                request[r].role = "owner"]_vars
    BY OwnershipStep
  <1> QED
    BY <1>1, MemberInvHolds, PTL DEF Spec, OwnershipWithOwners

\* A row appears only by an INSERT where there is none, changes by an UPDATE of
\* a row that is there, and goes by a DELETE (storage/projects.sql.go): a role
\* change under way does not bring a removed member back.
THEOREM RowsOnRequest == Spec => RowsAsRequested
  <1>1. MemberInv /\ [Next]_vars =>
          [\A r \in Requests, p \in Projects, u \in Users :
             Writes(r, p, u) =>
                \/ request[r].op = "add" /\ role[p][u] = None
                \/ request[r].op = "role" /\ role[p][u] # None
                \/ request[r].op \in {"remove", "delete"} /\ role'[p][u] = None]_vars
    <2> SUFFICES ASSUME MemberInv, [Next]_vars, NEW r \in Requests, NEW p \in Projects,
                        NEW u \in Users, Writes(r, p, u)
                 PROVE  \/ request[r].op = "add" /\ role[p][u] = None
                        \/ request[r].op = "role" /\ role[p][u] # None
                        \/ request[r].op \in {"remove", "delete"} /\ role'[p][u] = None
      OBVIOUS
    <2>1. Write(r)
      BY OnlyWrites
    <2> QED
      BY <2>1, WriteKinds
  <1> QED
    BY <1>1, MemberInvHolds, PTL DEF Spec, RowsAsRequested

\* SeedAdmin of service/auth.go leaves the configured password in force: what
\* breaks it later is a request of this process that changes the password.
THEOREM PasswordHolds == Spec => []ConfiguredPasswordHolds
  <1>1. Init => ConfiguredPasswordHolds
    BY DEF Init, ConfiguredPasswordHolds
  <1>2. MemberInv /\ ConfiguredPasswordHolds /\ [Next]_vars => ConfiguredPasswordHolds'
    <2> SUFFICES ASSUME MemberInv, ConfiguredPasswordHolds, [Next]_vars
                 PROVE  ConfiguredPasswordHolds'
      OBVIOUS
    <2>1. ASSUME UNCHANGED <<account, configured, changed>>
          PROVE  ConfiguredPasswordHolds'
      BY <2>1 DEF ConfiguredPasswordHolds
    <2>2. ASSUME NEW u \in Users, NEW w \in Passwords, Start(u, w)
          PROVE  ConfiguredPasswordHolds'
      BY <2>2 DEF Start, SeedAdmin, ConfiguredPasswordHolds, MemberInv, TypeOK
    <2>3. ASSUME NEW r \in Requests, Write(r)
          PROVE  ConfiguredPasswordHolds'
      <3>1. CASE UpdateUserPassword(r)
        <4>1. /\ account' = [account EXCEPT ![request[r].target] = request[r].arg]
              /\ ~changed' => ~changed /\ request[r].target # configured.user
              /\ configured' = configured
          BY <3>1 DEF UpdateUserPassword
        <4>2. configured # None => configured.user \in Users
          BY DEF MemberInv, TypeOK
        <4> QED
          BY <4>1, <4>2 DEF ConfiguredPasswordHolds, MemberInv, TypeOK
      <3>2. CASE ~UpdateUserPassword(r)
        BY <2>1, <2>3, <3>2
        DEF Write, InsertProject, ChangeProject, RemoveProject, InsertMember, ChangeRole,
            DeleteRow, history
      <3> QED
        BY <3>1, <3>2
    <2>4. ASSUME NEW r \in Requests, Check(r) \/ Refuse(r)
          PROVE  ConfiguredPasswordHolds'
      BY <2>1, <2>4 DEF Check, Refuse, rows, history
    <2>5. ASSUME NEW s \in Requests, NEW op, NEW v \in Users, NEW o, NEW t, NEW arg, NEW pc,
                 Begin(s, op, v, o, t, arg, pc)
          PROVE  ConfiguredPasswordHolds'
      BY <2>1, <2>5 DEF Begin, rows, history
    <2>6. CASE UNCHANGED vars
      BY <2>1, <2>6 DEF vars, rows, history
    <2> QED
      BY <2>2, <2>3, <2>4, <2>5, <2>6
      DEF Next, ChangePassword, CreateProject, UpdateProject, DeleteProject, RemoveMember,
          AddMember, UpdateMemberRole
  <1> QED
    BY <1>1, <1>2, MemberInvHolds, PTL DEF Spec
=============================================================================
