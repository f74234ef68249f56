------------------------------ MODULE Members ------------------------------
(***************************************************************************)
(* Who may do what in one RT: users, their memberships, the roles of a     *)
(* membership and the permissions of a role, in apps/api/src/modules/users *)
(* and rbac, and the first administrator's bootstrap.                      *)
(*                                                                         *)
(* A request acts with the principal its guard resolved, checks what it    *)
(* hands out in queries of their own, and writes in a transaction that     *)
(* runs READ COMMITTED.  A replacement deletes the rows that it sees and    *)
(* then creates others; rows that others commit in between stay.           *)
(***************************************************************************)
EXTENDS Naturals, FiniteSets

CONSTANTS
  Users,
  Roles,        (* the tenant's roles but SUPER_ADMIN *)
  SuperAdmin,   (* the role SUPER_ADMIN *)
  Permissions,
  Manage,       (* the permission that the operations below ask for *)
  Owner,        (* the user whom the bootstrap makes an administrator *)
  Deputy,       (* an officer, *)
  Office,       (* whose role has the permission Manage *)
  Requests,     (* requests that are handled at the same time *)
  MaxRequests,  (* bound on the requests that are begun *)
  None          (* null *)

VARIABLES
  users,        (* the status of a user, or NONE *)
  memberships,  (* the status of a user's membership of the RT, or NONE *)
  roles,        (* user_roles: the roles of a membership *)
  permissions,  (* role_permissions *)
  request,      (* requests in progress *)
  begun,        (* requests so far *)
  given,        (* history: permissions that administrators handed out *)
  appointed,    (* history: users whom administrators or the bootstrap gave SUPER_ADMIN *)
  asked         (* history: the roles last asked for, None once requests overlapped *)

vars == <<users, memberships, roles, permissions, request, begun, given, appointed, asked>>

AllRoles == Roles \cup {SuperAdmin}
Idle == [pc |-> "idle"]
Status == {"ACTIVE", "INACTIVE"}

-----------------------------------------------------------------------------
(* RBAC. *)

(* resolvePrincipal finds a principal only for an active user and membership. *)
IsMember(u) == users[u] = "ACTIVE" /\ memberships[u] = "ACTIVE"
PermissionsOf(rs) == UNION {permissions[x] : x \in rs}
Holds(u) == IF IsMember(u) THEN PermissionsOf(roles[u]) ELSE {}
IsSuper(u) == IsMember(u) /\ SuperAdmin \in roles[u]

(* canAccess *)
CanAccess(u) == IsSuper(u) \/ Manage \in Holds(u)

(* What a request may ask for. *)
Operations ==
  [op : {"createUser", "createMembership", "assignRoles"}, user : Users, roles : SUBSET AllRoles]
    \cup [op : {"disable"}, user : Users]
    \cup [op : {"status"}, user : Users, status : Status]
    \cup [op : {"permit"}, role : AllRoles, permissions : SUBSET Permissions]

(* The guard resolves the principal that the whole request acts with. *)
Begin(r, u, operation) ==
  /\ request[r] = Idle
  /\ begun < MaxRequests
  /\ CanAccess(u)
  /\ begun' = begun + 1
  /\ request' = [request EXCEPT ![r] =
       [pc |-> "check", holds |-> Holds(u), super |-> IsSuper(u), asks |-> operation,
        fresh |-> {}]]
  /\ UNCHANGED <<users, memberships, roles, permissions, given, appointed, asked>>

(* Mutant of CanAssign: SUPER_ADMIN is a role like others. *)
CanAssignPermitted(q, rs) == q.super \/ PermissionsOf(rs \ {SuperAdmin}) \subseteq q.holds

(* assertActorCanAssignRoles *)
CanAssign(q, rs) ==
  q.super \/ (SuperAdmin \notin rs /\ PermissionsOf(rs) \subseteq q.holds)

(* assertActorCanGrantPermissionIds *)
CanGrant(q, ps) == q.super \/ ps \subseteq q.holds

Checked(q) ==
  LET a == q.asks IN
  CASE a.op \in {"createUser", "createMembership", "assignRoles"} -> CanAssign(q, a.roles)
    [] a.op = "permit" -> CanGrant(q, a.permissions)
    [] OTHER -> TRUE

(* What the service checks before the repository is called. *)
Check(r) ==
  /\ request[r].pc = "check"
  /\ request' = [request EXCEPT ![r] =
       IF Checked(request[r]) THEN [request[r] EXCEPT !.pc = "write"] ELSE Idle]
  /\ UNCHANGED <<users, memberships, roles, permissions, begun, given, appointed, asked>>

-----------------------------------------------------------------------------
(* The transactions. *)

Asks(r, op) == request[r].pc = "write" /\ request[r].asks.op = op
Done(r) == request' = [request EXCEPT ![r] = Idle]

(* What an administrator hands out may be handed on by those who got it.   *)
Handed(q, ps) == given' = IF q.super THEN given \cup ps ELSE given
Appointed(q, u, rs) ==
  appointed' = IF q.super /\ SuperAdmin \in rs THEN appointed \cup {u} ELSE appointed

(* Mutant of Joins: an old membership is taken up again. *)
JoinsAgain(u) == memberships[u] # "ACTIVE"

(* A membership that exists is returned as it is. *)
Joins(u) == memberships[u] = "NONE"

(* createMembership wants a user; createUserWithMembership makes one.      *)
IsFound(q) == q.asks.op = "createUser" \/ users[q.asks.user] # "NONE"

(* createUserWithMembership and createMembership *)
AddMember(r) ==
  LET q == request[r]
      u == q.asks.user
  IN
  /\ Asks(r, "createUser") \/ Asks(r, "createMembership")
  /\ IF IsFound(q)
     THEN /\ users' = [users EXCEPT ![u] =
               IF @ = "NONE" /\ q.asks.op = "createUser" THEN "ACTIVE" ELSE @]
          /\ IF Joins(u)
             THEN /\ memberships' = [memberships EXCEPT ![u] = "ACTIVE"]
                  /\ roles' = [roles EXCEPT ![u] = q.asks.roles]
                  /\ asked' = [asked EXCEPT ![u] = q.asks.roles]
                  /\ Handed(q, PermissionsOf(q.asks.roles))
                  /\ Appointed(q, u, q.asks.roles)
             ELSE UNCHANGED <<memberships, roles, given, appointed, asked>>
     ELSE UNCHANGED <<users, memberships, roles, given, appointed, asked>>
  /\ Done(r)
  /\ UNCHANGED <<permissions, begun>>

(* A replacement of the rows of a member, or a role, that has deleted.     *)
Replaces(s, op, key) ==
  /\ request[s].pc = "create"
  /\ request[s].asks.op = op
  /\ (IF op = "assignRoles" THEN request[s].asks.user ELSE request[s].asks.role) = key

(* replaceMembershipRoles: findFirst and deleteMany.  From now on others'  *)
(* rows are not among those that it deletes.                               *)
BeginAssign(r) ==
  LET u == request[r].asks.user IN
  /\ Asks(r, "assignRoles")
  /\ IF memberships[u] = "NONE" THEN Done(r) /\ UNCHANGED asked
     ELSE /\ request' = [request EXCEPT ![r].pc = "create"]
          /\ asked' = IF \E s \in Requests \ {r} : Replaces(s, "assignRoles", u)
                      THEN [asked EXCEPT ![u] = None] ELSE asked
  /\ UNCHANGED <<users, memberships, roles, permissions, begun, given, appointed>>

(* Mutant of Kept: nothing is deleted. *)
KeptAll(r, rows) == rows

(* The rows that remain of a replaced set: those that were committed after *)
(* the deletion.                                                           *)
Kept(r, rows) == request[r].fresh \cap rows

(* Other replacements of the same rows have deleted what they saw before.  *)
Freshened(r, op, key, rows) ==
  [s \in Requests |->
     IF s = r THEN Idle
     ELSE IF Replaces(s, op, key) THEN [request[s] EXCEPT !.fresh = rows]
     ELSE request[s]]

(* createMany and the commit: a row that is there already, by someone      *)
(* else, is a unique conflict.                                             *)
EndAssign(r) ==
  LET q == request[r]
      u == q.asks.user
      kept == Kept(r, roles[u])
  IN
  /\ q.pc = "create"
  /\ q.asks.op = "assignRoles"
  /\ IF q.fresh \cap q.asks.roles # {}
     THEN Done(r) /\ UNCHANGED <<roles, given, appointed, asked>>
     ELSE /\ roles' = [roles EXCEPT ![u] = kept \cup q.asks.roles]
          /\ request' = Freshened(r, "assignRoles", u, roles'[u])
          /\ asked' = [asked EXCEPT ![u] = IF @ = None THEN None ELSE q.asks.roles]
          /\ Handed(q, PermissionsOf(q.asks.roles))
          /\ Appointed(q, u, q.asks.roles)
  /\ UNCHANGED <<users, memberships, permissions, begun>>

(* replaceRolePermissions: the same for the permissions of a role.         *)
BeginPermit(r) ==
  /\ Asks(r, "permit")
  /\ request' = [request EXCEPT ![r].pc = "create"]
  /\ UNCHANGED <<users, memberships, roles, permissions, begun, given, appointed, asked>>

EndPermit(r) ==
  LET q == request[r]
      x == q.asks.role
  IN
  /\ q.pc = "create"
  /\ q.asks.op = "permit"
  /\ IF q.fresh \cap q.asks.permissions # {}
     THEN Done(r) /\ UNCHANGED <<permissions, given>>
     ELSE /\ permissions' = [permissions EXCEPT ![x] =
               (q.fresh \cap @) \cup q.asks.permissions]
          /\ request' = Freshened(r, "permit", x, permissions'[x])
          /\ Handed(q, q.asks.permissions)
  /\ UNCHANGED <<users, memberships, roles, begun, appointed, asked>>

DisableMembership(r) ==
  LET u == request[r].asks.user IN
  /\ Asks(r, "disable")
  /\ memberships' = [memberships EXCEPT ![u] = IF @ = "NONE" THEN @ ELSE "INACTIVE"]
  /\ Done(r)
  /\ UNCHANGED <<users, roles, permissions, begun, given, appointed, asked>>

(* updateUser, of a user of the RT *)
UpdateUser(r) ==
  LET u == request[r].asks.user IN
  /\ Asks(r, "status")
  /\ users' = [users EXCEPT ![u] = IF memberships[u] = "NONE" THEN @ ELSE request[r].asks.status]
  /\ Done(r)
  /\ UNCHANGED <<memberships, roles, permissions, begun, given, appointed, asked>>

(* The bootstrap command, with --force once there are users.               *)
Bootstrap ==
  /\ users' = [users EXCEPT ![Owner] = "ACTIVE"]
  /\ memberships' = [memberships EXCEPT ![Owner] = "ACTIVE"]
  /\ roles' = [roles EXCEPT ![Owner] = @ \cup {SuperAdmin}]
  /\ permissions' = [permissions EXCEPT ![SuperAdmin] = Permissions]
  /\ appointed' = appointed \cup {Owner}
  /\ asked' = [asked EXCEPT ![Owner] = None]
  /\ request' = [s \in Requests |->
       IF Replaces(s, "assignRoles", Owner)
       THEN [request[s] EXCEPT !.fresh = @ \cup ({SuperAdmin} \ roles[Owner])]
       ELSE IF Replaces(s, "permit", SuperAdmin)
       THEN [request[s] EXCEPT !.fresh = @ \cup (Permissions \ permissions[SuperAdmin])]
       ELSE request[s]]
  /\ UNCHANGED <<begun, given>>

-----------------------------------------------------------------------------

(* After the bootstrap the owner has made a deputy. *)
Init ==
  /\ users = [u \in Users |-> IF u \in {Owner, Deputy} THEN "ACTIVE" ELSE "NONE"]
  /\ memberships = users
  /\ roles = [u \in Users |-> IF u = Owner THEN {SuperAdmin}
                              ELSE IF u = Deputy THEN {Office} ELSE {}]
  /\ permissions = [x \in AllRoles |-> IF x = Office THEN {Manage} ELSE Permissions]
  /\ request = [r \in Requests |-> Idle]
  /\ begun = 0
  /\ given = {Manage}
  /\ appointed = {Owner}
  /\ asked = roles

Write(r) ==
  \/ AddMember(r)
  \/ BeginAssign(r)
  \/ EndAssign(r)
  \/ BeginPermit(r)
  \/ EndPermit(r)
  \/ DisableMembership(r)
  \/ UpdateUser(r)

Next ==
  \/ \E r \in Requests :
       \/ \E u \in Users, operation \in Operations : Begin(r, u, operation)
       \/ Check(r)
       \/ Write(r)
  \/ Bootstrap

Spec == Init /\ [][Next]_vars

-----------------------------------------------------------------------------
(* Properties. *)

(* What the tables and a request may hold. *)
TypeOK ==
  /\ users \in [Users -> Status \cup {"NONE"}]
  /\ memberships \in [Users -> Status \cup {"NONE"}]
  /\ roles \in [Users -> SUBSET AllRoles]
  /\ permissions \in [AllRoles -> SUBSET Permissions]
  /\ request \in [Requests -> {Idle}
       \cup [pc : {"check", "write", "create"}, holds : SUBSET Permissions, super : BOOLEAN,
             asks : Operations, fresh : SUBSET (AllRoles \cup Permissions)]]
  /\ begun \in 0 .. MaxRequests
  /\ \A u \in Users : memberships[u] # "NONE" => users[u] # "NONE"

(* Authority is only handed on: whatever requests overlap, with whichever  *)
(* principals, a member who is no administrator holds permissions that an  *)
(* administrator has handed out, and an administrator was made by one.     *)
AuthorityIsHandedOn ==
  \A u \in Users :
    /\ IsSuper(u) => u \in appointed
    /\ ~IsSuper(u) => Holds(u) \subseteq given

(* A membership that was disabled stays so, whatever requests to add the    *)
(* user come later; only the bootstrap takes its owner back.               *)
DisabledStaysDisabled ==
  [][\A u \in Users \ {Owner} :
       memberships[u] = "INACTIVE" => memberships'[u] = "INACTIVE"]_vars

(* Where no two replacements of a member's roles overlapped, the member     *)
(* has the roles of one request, the last, and no mixture.                 *)
RolesAreOneReplacement == \A u \in Users : asked[u] # None => roles[u] = asked[u]
=============================================================================
