--------------------------- MODULE RegisterProofs ---------------------------
(***************************************************************************)
(* Proofs about the registers of an RT: who has which rights in it, and who *)
(* lives where.  Authority is only handed on, roles are replaced as a whole *)
(* where replacements do not overlap, and what was disabled stays so; a     *)
(* house is occupied when somebody lives there, and nobody lives in what is *)
(* archived, where requests do not overlap.  For any users, roles and       *)
(* permissions, any areas, houses and residents, and any number of requests *)
(* that overlap.                                                           *)
(***************************************************************************)
EXTENDS Tenant, TLAPS

-----------------------------------------------------------------------------
(* Members. *)

Work == [pc : {"check", "write", "create"}, holds : SUBSET Permissions, super : BOOLEAN,
         asks : M!Operations, fresh : SUBSET (M!AllRoles \cup Permissions)]

(* What administrators let a request without SUPER_ADMIN hand out. *)
Delegated(q, ours, permits) ==
  ~q.super =>
    /\ q.holds \subseteq ours
    /\ q.pc # "check" =>
         /\ q.asks.op \in {"createUser", "createMembership", "assignRoles"} =>
              /\ SuperAdmin \notin q.asks.roles
              /\ \A x \in q.asks.roles : permits[x] \subseteq ours
         /\ q.asks.op = "permit" => q.asks.permissions \subseteq ours

(* Everything that gives rights was handed out by an administrator. *)
Authority ==
  /\ \A u \in Users :
       /\ SuperAdmin \in roles[u] => u \in appointed
       /\ \A x \in roles[u] \ {SuperAdmin} : permissions[x] \subseteq given
  /\ \A r \in Requests :
       administration[r] # M!Idle => Delegated(administration[r], given, permissions)

(* Where asked is known, no other replacement than the last has come in    *)
(* between the rows that one deletes and those that it creates.            *)
Alone ==
  /\ \A r \in Requests :
       administration[r] # M!Idle /\ administration[r].pc # "create" =>
         administration[r].fresh = {}
  /\ \A u \in Users : \A r \in Requests : M!Replaces(r, "assignRoles", u) =>
       /\ memberships[u] # "NONE"
       /\ asked[u] # None =>
            /\ administration[r].fresh = {}
            /\ \A s \in Requests : M!Replaces(s, "assignRoles", u) => s = r

Recorded == asked \in [Users -> (SUBSET M!AllRoles) \cup {None}]

-----------------------------------------------------------------------------
(* Types. *)

LEMMA WorkIsSomething == ASSUME NEW q \in Work PROVE q # M!Idle /\ q.pc # "idle"
BY DEF Work, M!Idle

LEMMA TypeInit == M!Init => M!TypeOK /\ Recorded
BY BoundsAreNumbers, OfficersAreUsers, ManageIsAPermission, OfficeIsARole
DEF M!Init, M!TypeOK, Recorded, M!AllRoles, M!Status, M!Idle

LEMMA TypeBegin ==
  ASSUME M!TypeOK, Recorded, NEW r \in Requests, NEW u \in Users, NEW operation \in M!Operations,
         M!Begin(r, u, operation)
  PROVE  (M!TypeOK /\ Recorded)'
<1>1. M!Holds(u) \in SUBSET Permissions /\ M!IsSuper(u) \in BOOLEAN
  BY DEF M!TypeOK, M!Holds, M!PermissionsOf, M!IsSuper, M!AllRoles
<1> QED BY <1>1, BoundsAreNumbers DEF M!TypeOK, Recorded, M!Begin

LEMMA TypeAdd ==
  ASSUME M!TypeOK, Recorded, NEW r \in Requests, M!AddMember(r)
  PROVE  (M!TypeOK /\ Recorded)'
<1>1. /\ administration[r] \in Work
      /\ administration[r].asks.user \in Users
      /\ administration[r].asks.roles \in SUBSET M!AllRoles
  BY DEF M!TypeOK, M!AddMember, M!Asks, M!Idle, M!Operations, Work
<1> QED BY <1>1 DEF M!TypeOK, Recorded, M!AddMember, M!Done, M!Status, M!IsFound, M!Joins, M!Asks

LEMMA TypeAssign ==
  ASSUME M!TypeOK, Recorded, NEW r \in Requests, M!BeginAssign(r) \/ M!EndAssign(r)
  PROVE  (M!TypeOK /\ Recorded)'
<1>1. /\ administration[r] \in Work
      /\ administration[r].asks.user \in Users
      /\ administration[r].asks.roles \in SUBSET M!AllRoles
  BY DEF M!TypeOK, M!BeginAssign, M!EndAssign, M!Asks, M!Idle, M!Operations, Work
<1>2. CASE M!BeginAssign(r)
  <2>1. [administration[r] EXCEPT !.pc = "create"] \in Work
    BY <1>1 DEF Work
  <2>2. /\ \/ administration' = [administration EXCEPT ![r] = M!Idle]
           \/ administration' = [administration EXCEPT ![r] =
                                  [administration[r] EXCEPT !.pc = "create"]]
        /\ \/ asked' = asked
           \/ asked' = [asked EXCEPT ![administration[r].asks.user] = None]
        /\ UNCHANGED <<users, memberships, roles, permissions, begun>>
    BY <1>2 DEF M!BeginAssign, M!Done
  <2>3. administration' \in [Requests -> {M!Idle} \cup Work]
    BY <2>1, <2>2 DEF M!TypeOK, Work
  <2>4. Recorded'
    BY <1>1, <2>2 DEF Recorded
  <2> QED BY <2>2, <2>3, <2>4 DEF M!TypeOK, Work
<1>3. CASE M!EndAssign(r)
  <2> DEFINE q == administration[r]
             u == q.asks.user
  <2>1. /\ UNCHANGED <<users, memberships, permissions, begun>>
        /\ \/ roles' = roles
           \/ roles' = [roles EXCEPT ![u] = M!Kept(r, roles[u]) \cup q.asks.roles]
        /\ asked' = asked \/ asked' = [asked EXCEPT ![u] =
                                         IF asked[u] = None THEN None ELSE q.asks.roles]
        /\ \/ administration' = [administration EXCEPT ![r] = M!Idle]
           \/ administration' = M!Freshened(r, "assignRoles", u, roles'[u])
    BY <1>3 DEF M!EndAssign, M!Done
  <2>2. roles' \in [Users -> SUBSET M!AllRoles]
    BY <1>1, <2>1 DEF M!TypeOK, M!Kept
  <2>3. Recorded'
    BY <1>1, <2>1 DEF Recorded
  <2>4. administration' \in [Requests -> {M!Idle} \cup Work]
    <3>1. administration \in [Requests -> {M!Idle} \cup Work]
      BY DEF M!TypeOK, Work
    <3>2. roles'[u] \subseteq M!AllRoles
      BY <1>1, <2>2
    <3>3. \A k \in Work : [k EXCEPT !.fresh = roles'[u]] \in Work
      BY <3>2 DEF Work
    <3>4. \A s \in Requests : M!Replaces(s, "assignRoles", u) => administration[s] \in Work
      BY <3>1 DEF M!Replaces, M!Idle
    <3> QED BY <2>1, <3>1, <3>3, <3>4 DEF M!Freshened
  <2> QED BY <2>1, <2>2, <2>3, <2>4 DEF M!TypeOK, Work
<1> QED BY <1>2, <1>3

LEMMA TypePermit ==
  ASSUME M!TypeOK, Recorded, NEW r \in Requests, M!BeginPermit(r) \/ M!EndPermit(r)
  PROVE  (M!TypeOK /\ Recorded)'
<1>1. /\ administration[r] \in Work
      /\ administration[r].asks.role \in M!AllRoles
      /\ administration[r].asks.permissions \in SUBSET Permissions
  BY DEF M!TypeOK, M!BeginPermit, M!EndPermit, M!Asks, M!Idle, M!Operations, Work
<1>2. CASE M!BeginPermit(r)
  BY <1>1, <1>2 DEF M!TypeOK, Recorded, M!BeginPermit, Work
<1>3. CASE M!EndPermit(r)
  BY <1>1, <1>3 DEF M!TypeOK, Recorded, M!EndPermit, M!Done, M!Freshened, M!Replaces, Work, M!Idle
<1> QED BY <1>2, <1>3

LEMMA TypeOthers ==
  ASSUME M!TypeOK, Recorded,
         \/ \E r \in Requests : M!Check(r) \/ M!DisableMembership(r) \/ M!UpdateUser(r)
         \/ M!Bootstrap
  PROVE  (M!TypeOK /\ Recorded)'
<1>1. ASSUME NEW r \in Requests, M!Check(r) PROVE (M!TypeOK /\ Recorded)'
  BY <1>1 DEF M!TypeOK, Recorded, M!Check, M!Idle
<1>2. ASSUME NEW r \in Requests, M!DisableMembership(r) PROVE (M!TypeOK /\ Recorded)'
  BY <1>2 DEF M!TypeOK, Recorded, M!DisableMembership, M!Done, M!Status
<1>3. ASSUME NEW r \in Requests, M!UpdateUser(r) PROVE (M!TypeOK /\ Recorded)'
  <2>1. administration[r].asks.status \in M!Status
    BY <1>3 DEF M!TypeOK, M!UpdateUser, M!Asks, M!Idle, M!Operations
  <2> QED BY <1>3, <2>1 DEF M!TypeOK, Recorded, M!UpdateUser, M!Done, M!Status
<1>4. CASE M!Bootstrap
  <2> DEFINE after(s) ==
        IF M!Replaces(s, "assignRoles", Owner)
        THEN [administration[s] EXCEPT !.fresh = @ \cup ({SuperAdmin} \ roles[Owner])]
        ELSE IF M!Replaces(s, "permit", SuperAdmin)
        THEN [administration[s] EXCEPT !.fresh = @ \cup (Permissions \ permissions[SuperAdmin])]
        ELSE administration[s]
  <2>1. ASSUME NEW s \in Requests PROVE after(s) \in {M!Idle} \cup Work
    <3>1. administration[s] \in {M!Idle} \cup Work
      BY DEF M!TypeOK, Work
    <3>2. CASE administration[s].pc # "create"
      BY <3>1, <3>2 DEF M!Replaces
    <3>3. CASE administration[s].pc = "create"
      BY <3>1, <3>3 DEF M!Idle, Work, M!AllRoles
    <3> QED BY <3>2, <3>3
  <2>2. administration' \in [Requests -> {M!Idle} \cup Work]
    BY <1>4, <2>1 DEF M!Bootstrap
  <2>3. /\ users' \in [Users -> M!Status \cup {"NONE"}]
        /\ memberships' \in [Users -> M!Status \cup {"NONE"}]
        /\ \A u \in Users : memberships'[u] # "NONE" => users'[u] # "NONE"
    BY <1>4, OfficersAreUsers DEF M!TypeOK, M!Bootstrap, M!Status
  <2>4. /\ roles' \in [Users -> SUBSET M!AllRoles]
        /\ permissions' \in [M!AllRoles -> SUBSET Permissions]
    <3>1. /\ roles' = [roles EXCEPT ![Owner] = roles[Owner] \cup {SuperAdmin}]
          /\ permissions' = [permissions EXCEPT ![SuperAdmin] = Permissions]
      BY <1>4 DEF M!Bootstrap
    <3> QED BY <3>1, OfficersAreUsers DEF M!TypeOK, M!AllRoles
  <2>5. Recorded'
    BY <1>4 DEF M!Bootstrap, Recorded
  <2> QED BY <1>4, <2>2, <2>3, <2>4, <2>5 DEF M!TypeOK, Work, M!Bootstrap
<1> QED BY <1>1, <1>2, <1>3, <1>4

LEMMA TypeNext == M!TypeOK /\ Recorded /\ [M!Next]_members => (M!TypeOK /\ Recorded)'
<1> SUFFICES ASSUME M!TypeOK, Recorded, [M!Next]_members PROVE (M!TypeOK /\ Recorded)'
  OBVIOUS
<1>1. CASE UNCHANGED members
  BY <1>1 DEF members, M!TypeOK, Recorded
<1> QED BY <1>1, TypeBegin, TypeAdd, TypeAssign, TypePermit, TypeOthers DEF M!Next, M!Write

-----------------------------------------------------------------------------
(* Authority. *)

LEMMA AuthorityInit == M!Init => Authority
BY SuperAdminIsApart, OfficeIsARole, OfficersAreUsers DEF M!Init, Authority, M!AllRoles

(* What a user holds was handed out, unless the user is an administrator.  *)
LEMMA HoldsWhatWasGiven ==
  ASSUME M!TypeOK, Authority, NEW u \in Users, ~M!IsSuper(u)
  PROVE  M!Holds(u) \subseteq given
<1>1. CASE M!IsMember(u)
  <2>1. SuperAdmin \notin roles[u]
    BY <1>1 DEF M!IsSuper
  <2> QED BY <1>1, <2>1 DEF Authority, M!Holds, M!PermissionsOf
<1>2. CASE ~M!IsMember(u)
  BY <1>2 DEF M!Holds
<1> QED BY <1>1, <1>2

(* Requests keep what they may hand out while "given" only grows and what  *)
(* roles permit grows by what was given only.                              *)
LEMMA DelegationLasts ==
  ASSUME NEW q \in Work, Delegated(q, given, permissions), given \subseteq given',
         \A x \in M!AllRoles : permissions'[x] \subseteq permissions[x] \cup given'
           \/ x = SuperAdmin
  PROVE  Delegated(q, given', permissions')
BY DEF Delegated, Work, M!Operations

(* p is as far as q, but for what others have done to its rows. *)
SameRequest(p, q) ==
  /\ p \in Work /\ q \in Work
  /\ p.pc = q.pc /\ p.holds = q.holds /\ p.super = q.super /\ p.asks = q.asks

(* What the commit of a replacement does to a request. *)
LEMMA FreshenedRequest ==
  ASSUME NEW r \in Requests, NEW s \in Requests, NEW op, NEW key,
         NEW now \in SUBSET (M!AllRoles \cup Permissions), M!TypeOK
  PROVE  \/ M!Freshened(r, op, key, now)[s] = M!Idle
         \/ M!Freshened(r, op, key, now)[s] = administration[s]
         \/ SameRequest(M!Freshened(r, op, key, now)[s], administration[s])
<1>1. CASE s = r
  BY <1>1 DEF M!Freshened
<1>2. CASE s # r /\ M!Replaces(s, op, key)
  <2>1. M!Freshened(r, op, key, now)[s] = [administration[s] EXCEPT !.fresh = now]
    BY <1>2 DEF M!Freshened
  <2>2. administration[s] \in Work
    BY <1>2 DEF M!TypeOK, M!Replaces, M!Idle, Work
  <2> QED BY <1>2, <2>1, <2>2 DEF SameRequest, Work
<1>3. CASE s # r /\ ~M!Replaces(s, op, key)
  BY <1>3 DEF M!Freshened
<1> QED BY <1>1, <1>2, <1>3

LEMMA SameRights ==
  ASSUME NEW p, NEW q, SameRequest(p, q), NEW ours, NEW permits, Delegated(q, ours, permits)
  PROVE  Delegated(p, ours, permits)
BY DEF SameRequest, Delegated

LEMMA AuthorityBegin ==
  ASSUME M!TypeOK, Authority, NEW r \in Requests, NEW u \in Users,
         NEW operation \in M!Operations, M!Begin(r, u, operation)
  PROVE  Authority'
<1>1. ~M!IsSuper(u) => M!Holds(u) \subseteq given
  BY HoldsWhatWasGiven
<1> QED BY <1>1 DEF M!TypeOK, Authority, Delegated, M!Begin

LEMMA AuthorityCheck ==
  ASSUME M!TypeOK, Authority, NEW r \in Requests, M!Check(r)
  PROVE  Authority'
<1> DEFINE q == administration[r]
<1>1. q \in Work /\ Delegated(q, given, permissions)
  BY WorkIsSomething DEF M!TypeOK, M!Check, Authority, M!Idle, Work
<1>2. M!Checked(q) => Delegated([q EXCEPT !.pc = "write"], given, permissions)
  <2>1. CASE q.asks.op \in {"createUser", "createMembership", "assignRoles"}
    BY <1>1, <2>1 DEF Delegated, Work, M!Checked, M!CanAssign, M!PermissionsOf
  <2>2. CASE q.asks.op = "permit"
    BY <1>1, <2>2 DEF Delegated, Work, M!Checked, M!CanGrant
  <2>3. CASE q.asks.op \notin {"createUser", "createMembership", "assignRoles", "permit"}
    BY <1>1, <2>3 DEF Delegated, Work
  <2> QED BY <2>1, <2>2, <2>3
<1> QED BY <1>1, <1>2 DEF M!TypeOK, Authority, M!Check, Delegated

(* Roles that a request gives come with what was given. *)
LEMMA AuthorityAdd ==
  ASSUME M!TypeOK, Authority, NEW r \in Requests, M!AddMember(r)
  PROVE  Authority'
<1> DEFINE q == administration[r]
<1>1. /\ q \in Work /\ Delegated(q, given, permissions) /\ q.pc = "write"
      /\ q.asks.op \in {"createUser", "createMembership"}
      /\ q.asks.user \in Users /\ q.asks.roles \in SUBSET M!AllRoles
  BY WorkIsSomething DEF M!TypeOK, M!AddMember, M!Asks, Authority, M!Idle, Work, M!Operations
<1>2. /\ given \subseteq given' /\ appointed \subseteq appointed'
      /\ UNCHANGED permissions
      /\ administration' = [administration EXCEPT ![r] = M!Idle]
  BY DEF M!AddMember, M!Handed, M!Appointed, M!Done
<1>3. ASSUME NEW u \in Users
      PROVE  /\ SuperAdmin \in roles'[u] => u \in appointed'
             /\ \A x \in roles'[u] \ {SuperAdmin} : permissions'[x] \subseteq given'
  <2>1. CASE roles'[u] = roles[u]
    BY <1>2, <2>1 DEF Authority
  <2>2. CASE roles'[u] # roles[u]
    <3>1. u = q.asks.user /\ roles'[u] = q.asks.roles
      BY <1>1, <2>2 DEF M!TypeOK, M!AddMember
    <3>2. M!Handed(q, M!PermissionsOf(q.asks.roles)) /\ M!Appointed(q, u, q.asks.roles)
      BY <2>2, <3>1 DEF M!AddMember
    <3> QED BY <1>1, <1>2, <3>1, <3>2 DEF M!Handed, M!Appointed, M!PermissionsOf, Delegated, Work
  <2> QED BY <2>1, <2>2
<1>4. ASSUME NEW s \in Requests, administration'[s] # M!Idle
      PROVE  Delegated(administration'[s], given', permissions')
  <2>1. administration'[s] = administration[s] /\ administration[s] \in Work
    BY <1>2, <1>4 DEF M!TypeOK, Work
  <2> QED BY <1>2, <1>4, <2>1, DelegationLasts DEF Authority
<1> QED BY <1>3, <1>4 DEF Authority

LEMMA AuthorityAssign ==
  ASSUME M!TypeOK, Recorded, Authority, NEW r \in Requests, M!EndAssign(r)
  PROVE  Authority'
<1> DEFINE q == administration[r]
<1>1. /\ q \in Work /\ Delegated(q, given, permissions) /\ q.pc = "create" /\ q.asks.op = "assignRoles"
      /\ q.asks.user \in Users /\ q.asks.roles \in SUBSET M!AllRoles
  BY WorkIsSomething DEF M!TypeOK, M!EndAssign, Authority, M!Idle, Work, M!Operations
<1>2. /\ given \subseteq given' /\ appointed \subseteq appointed'
      /\ UNCHANGED permissions
  BY DEF M!EndAssign, M!Handed, M!Appointed, M!Done
<1>3. ASSUME NEW u \in Users
      PROVE  /\ SuperAdmin \in roles'[u] => u \in appointed'
             /\ \A x \in roles'[u] \ {SuperAdmin} : permissions'[x] \subseteq given'
  <2>1. CASE roles'[u] = roles[u]
    BY <1>2, <2>1 DEF Authority
  <2>2. CASE roles'[u] # roles[u]
    <3>1. u = q.asks.user /\ roles'[u] \subseteq roles[u] \cup q.asks.roles
      BY <1>1, <2>2 DEF M!TypeOK, M!EndAssign, M!Kept
    <3>2. M!Handed(q, M!PermissionsOf(q.asks.roles)) /\ M!Appointed(q, u, q.asks.roles)
      BY <2>2, <3>1 DEF M!EndAssign
    <3>3. SuperAdmin \in q.asks.roles => u \in appointed'
      BY <1>1, <3>1, <3>2 DEF M!Appointed, Delegated, Work
    <3>4. \A x \in q.asks.roles : permissions[x] \subseteq given'
      BY <1>1, <1>2, <3>2 DEF M!Handed, M!PermissionsOf, Delegated, Work
    <3> QED BY <1>2, <3>1, <3>3, <3>4 DEF Authority
  <2> QED BY <2>1, <2>2
<1>4. ASSUME NEW s \in Requests, administration'[s] # M!Idle
      PROVE  Delegated(administration'[s], given', permissions')
  <2>1. administration[s] \in {M!Idle} \cup Work
    BY DEF M!TypeOK, Work
  <2>2. \/ administration' = [administration EXCEPT ![r] = M!Idle]
        \/ administration' = M!Freshened(r, "assignRoles", q.asks.user, roles'[q.asks.user])
    BY DEF M!EndAssign, M!Done
  <2>3. roles'[q.asks.user] \in SUBSET (M!AllRoles \cup Permissions)
    BY <1>1, TypeAssign DEF M!TypeOK
  <2>4. administration'[s] = administration[s] \/ SameRequest(administration'[s], administration[s])
    <3>1. CASE administration' = [administration EXCEPT ![r] = M!Idle]
      BY <1>4, <3>1 DEF M!TypeOK
    <3>2. CASE administration' # [administration EXCEPT ![r] = M!Idle]
      BY <1>4, <2>2, <2>3, <3>2, FreshenedRequest
    <3> QED BY <3>1, <3>2
  <2>5. administration[s] \in Work
    BY <1>4, <2>1, <2>4 DEF SameRequest
  <2>6. Delegated(administration[s], given', permissions')
    BY <1>2, <2>5, WorkIsSomething, DelegationLasts DEF Authority
  <2> QED BY <2>4, <2>6, SameRights
<1> QED BY <1>3, <1>4 DEF Authority

LEMMA AuthorityPermit ==
  ASSUME M!TypeOK, Recorded, Authority, NEW r \in Requests, M!EndPermit(r)
  PROVE  Authority'
<1> DEFINE q == administration[r]
<1>1. /\ q \in Work /\ Delegated(q, given, permissions) /\ q.pc = "create" /\ q.asks.op = "permit"
      /\ q.asks.role \in M!AllRoles /\ q.asks.permissions \in SUBSET Permissions
  BY WorkIsSomething DEF M!TypeOK, M!EndPermit, Authority, M!Idle, Work, M!Operations
<1>2. given \subseteq given' /\ UNCHANGED <<roles, appointed>>
  BY DEF M!EndPermit, M!Handed, M!Done
<1>3. \A x \in M!AllRoles : permissions'[x] \subseteq permissions[x] \cup given'
  <2>1. CASE UNCHANGED permissions
    BY <2>1
  <2>2. CASE ~UNCHANGED permissions
    <3>1. /\ permissions' = [permissions EXCEPT ![q.asks.role] =
               (q.fresh \cap @) \cup q.asks.permissions]
          /\ M!Handed(q, q.asks.permissions)
      BY <2>2 DEF M!EndPermit
    <3>2. q.asks.permissions \subseteq given'
      BY <1>1, <1>2, <3>1 DEF M!Handed, Delegated, Work
    <3> QED BY <1>1, <3>1, <3>2 DEF M!TypeOK
  <2> QED BY <2>1, <2>2
<1>4. ASSUME NEW s \in Requests, administration'[s] # M!Idle
      PROVE  Delegated(administration'[s], given', permissions')
  <2>1. administration[s] \in {M!Idle} \cup Work
    BY DEF M!TypeOK, Work
  <2>2. \/ administration' = [administration EXCEPT ![r] = M!Idle]
        \/ administration' = M!Freshened(r, "permit", q.asks.role, permissions'[q.asks.role])
    BY DEF M!EndPermit, M!Done
  <2>3. permissions'[q.asks.role] \in SUBSET (M!AllRoles \cup Permissions)
    BY <1>1, TypePermit DEF M!TypeOK
  <2>4. administration'[s] = administration[s] \/ SameRequest(administration'[s], administration[s])
    <3>1. CASE administration' = [administration EXCEPT ![r] = M!Idle]
      BY <1>4, <3>1 DEF M!TypeOK
    <3>2. CASE administration' # [administration EXCEPT ![r] = M!Idle]
      BY <1>4, <2>2, <2>3, <3>2, FreshenedRequest
    <3> QED BY <3>1, <3>2
  <2>5. administration[s] \in Work
    BY <1>4, <2>1, <2>4 DEF SameRequest
  <2>6. Delegated(administration[s], given', permissions')
    BY <1>2, <1>3, <2>5, WorkIsSomething, DelegationLasts DEF Authority
  <2> QED BY <2>4, <2>6, SameRights
<1>5. \A u \in Users : roles[u] \subseteq M!AllRoles
  BY DEF M!TypeOK
<1> QED BY <1>2, <1>3, <1>4, <1>5 DEF Authority

LEMMA AuthorityBootstrap ==
  ASSUME M!TypeOK, Authority, M!Bootstrap
  PROVE  Authority'
<1>1. /\ UNCHANGED given /\ appointed' = appointed \cup {Owner}
      /\ \A x \in M!AllRoles \ {SuperAdmin} : permissions'[x] = permissions[x]
      /\ \A u \in Users : roles'[u] = IF u = Owner THEN roles[u] \cup {SuperAdmin} ELSE roles[u]
  BY DEF M!TypeOK, M!Bootstrap
<1>2. \A u \in Users : roles[u] \subseteq M!AllRoles
  BY DEF M!TypeOK
<1>3. ASSUME NEW s \in Requests, administration'[s] # M!Idle
      PROVE  Delegated(administration'[s], given', permissions')
  <2>1. administration[s] \in {M!Idle} \cup Work
    BY DEF M!TypeOK, Work
  <2>2. administration[s].pc = "create" \/ administration'[s] = administration[s]
    BY DEF M!Bootstrap, M!Replaces
  <2>3. administration'[s] = administration[s] \/ SameRequest(administration'[s], administration[s])
    <3>1. CASE administration[s].pc = "create"
      <4>1. administration[s] \in Work
        BY <2>1, <3>1 DEF M!Idle
      <4>2. /\ ({SuperAdmin} \ roles[Owner]) \subseteq M!AllRoles
            /\ (Permissions \ permissions[SuperAdmin]) \subseteq Permissions
        BY DEF M!AllRoles
      <4>3. \/ administration'[s] = administration[s]
            \/ administration'[s] = [administration[s] EXCEPT
                 !.fresh = administration[s].fresh \cup ({SuperAdmin} \ roles[Owner])]
            \/ administration'[s] = [administration[s] EXCEPT
                 !.fresh = administration[s].fresh \cup (Permissions \ permissions[SuperAdmin])]
        BY DEF M!Bootstrap
      <4> QED BY <4>1, <4>2, <4>3 DEF SameRequest, Work
    <3> QED BY <2>2, <3>1
  <2>4. administration[s] \in Work
    BY <1>3, <2>1, <2>3 DEF SameRequest
  <2>5. Delegated(administration[s], given', permissions')
    BY <1>1, <2>4, WorkIsSomething, DelegationLasts DEF Authority
  <2> QED BY <2>3, <2>5, SameRights
<1> QED BY <1>1, <1>2, <1>3 DEF Authority

(* The other steps give nobody anything. *)
LEMMA AuthorityOthers ==
  ASSUME M!TypeOK, Authority,
         \/ UNCHANGED members
         \/ \E r \in Requests : \/ M!BeginAssign(r) \/ M!BeginPermit(r)
                              \/ M!DisableMembership(r) \/ M!UpdateUser(r)
  PROVE  Authority'
<1>1. UNCHANGED <<roles, permissions, given, appointed>>
  BY DEF members, M!BeginAssign, M!BeginPermit, M!DisableMembership, M!UpdateUser
<1>2. ASSUME NEW s \in Requests, administration'[s] # M!Idle
      PROVE  Delegated(administration'[s], given', permissions')
  <2>1. /\ administration[s] \in Work
        /\ \/ administration'[s] = administration[s]
           \/ administration[s].pc = "write" /\ administration'[s] = [administration[s] EXCEPT !.pc = "create"]
    <3>1. \/ administration' = administration
          \/ \E r \in Requests :
               \/ administration' = [administration EXCEPT ![r] = M!Idle]
               \/ /\ administration[r].pc = "write"
                  /\ administration' = [administration EXCEPT ![r].pc = "create"]
      BY DEF members, M!BeginAssign, M!BeginPermit, M!DisableMembership, M!UpdateUser,
             M!Asks, M!Done
    <3> QED BY <1>2, <3>1, WorkIsSomething DEF M!TypeOK, Work, M!Idle
  <2>2. Delegated(administration[s], given, permissions)
    BY <2>1, WorkIsSomething DEF Authority
  <2> QED BY <1>1, <2>1, <2>2 DEF Delegated, Work
<1> QED BY <1>1, <1>2 DEF Authority

LEMMA AuthorityNext ==
  M!TypeOK /\ Recorded /\ Authority /\ [M!Next]_members => Authority'
BY AuthorityBegin, AuthorityCheck, AuthorityAdd, AuthorityAssign, AuthorityPermit,
   AuthorityBootstrap, AuthorityOthers DEF M!Next, M!Write

(* Whatever requests overlap, and however old the principals they act with: *)
(* a member who is no administrator holds what an administrator handed out, *)
(* and an administrator was made by one.                                   *)
THEOREM AuthorityStaysHandedOn == Spec => []AuthorityIsHandedOn
<1>1. Init => M!TypeOK /\ Recorded /\ Authority
  BY TypeInit, AuthorityInit DEF Init
<1>2. M!TypeOK /\ Recorded /\ Authority /\ [Next]_vars => (M!TypeOK /\ Recorded /\ Authority)'
  BY TypeNext, AuthorityNext DEF Next, vars
<1>3. M!TypeOK /\ Authority => AuthorityIsHandedOn
  <2> SUFFICES ASSUME M!TypeOK, Authority, NEW u \in Users
               PROVE  /\ M!IsSuper(u) => u \in appointed
                      /\ ~M!IsSuper(u) => M!Holds(u) \subseteq given
    BY DEF AuthorityIsHandedOn, M!AuthorityIsHandedOn
  <2> QED BY HoldsWhatWasGiven DEF Authority, M!IsSuper
<1> QED BY <1>1, <1>2, <1>3, PTL DEF Spec

-----------------------------------------------------------------------------
(* Replacements of roles. *)

OneReplacement ==
  Alone /\ \A u \in Users : asked[u] # None => roles[u] = asked[u]

LEMMA ReplacementInit == M!Init => OneReplacement
BY DEF M!Init, OneReplacement, Alone, M!Replaces, M!Idle

(* No member, no replacement of its roles: an addition disturbs none.      *)
LEMMA ReplacementAdd ==
  ASSUME M!TypeOK, Recorded, OneReplacement, NEW r \in Requests, M!AddMember(r)
  PROVE  OneReplacement'
<1>1. /\ administration[r].asks.user \in Users /\ administration[r].pc = "write"
      /\ administration' = [administration EXCEPT ![r] = M!Idle]
  BY DEF M!TypeOK, M!AddMember, M!Asks, M!Done, M!Idle, M!Operations
<1>2. \A u \in Users, s \in Requests :
        M!Replaces(s, "assignRoles", u)' => s # r /\ M!Replaces(s, "assignRoles", u)
          /\ administration'[s] = administration[s]
  BY <1>1 DEF M!TypeOK, M!Replaces, M!Idle
<1>3. \A u \in Users : \/ memberships'[u] = memberships[u] /\ roles'[u] = roles[u] /\ asked'[u] = asked[u]
                       \/ memberships[u] = "NONE" /\ roles'[u] = asked'[u]
  BY <1>1 DEF M!TypeOK, Recorded, M!AddMember, M!Joins
<1>4. \A s \in Requests : administration'[s] # M!Idle => administration'[s] = administration[s]
  BY <1>1 DEF M!TypeOK
<1> QED BY <1>2, <1>3, <1>4 DEF OneReplacement, Alone

LEMMA ReplacementBegin ==
  ASSUME M!TypeOK, Recorded, OneReplacement, NEW r \in Requests, M!BeginAssign(r)
  PROVE  OneReplacement'
<1> DEFINE w == administration[r].asks.user
<1>1. /\ administration[r] \in Work /\ w \in Users /\ administration[r].pc = "write"
      /\ administration[r].asks.op = "assignRoles" /\ administration[r].fresh = {}
      /\ UNCHANGED <<memberships, roles>>
  BY DEF M!TypeOK, M!BeginAssign, M!Asks, M!Idle, M!Operations, Work, OneReplacement, Alone
<1>2. CASE memberships[w] = "NONE"
  <2>1. administration' = [administration EXCEPT ![r] = M!Idle] /\ UNCHANGED asked
    BY <1>2 DEF M!BeginAssign, M!Done
  <2> QED BY <1>1, <2>1 DEF M!TypeOK, OneReplacement, Alone, M!Replaces, M!Idle
<1>3. CASE memberships[w] # "NONE"
  <2>1. /\ administration' = [administration EXCEPT ![r] = [administration[r] EXCEPT !.pc = "create"]]
        /\ asked' = IF \E s \in Requests \ {r} : M!Replaces(s, "assignRoles", w)
                    THEN [asked EXCEPT ![w] = None] ELSE asked
    BY <1>3 DEF M!BeginAssign
  <2>2. /\ administration'[r].fresh = {} /\ administration'[r].pc = "create"
        /\ administration'[r].asks = administration[r].asks
        /\ \A s \in Requests \ {r} : administration'[s] = administration[s]
    BY <1>1, <2>1 DEF M!TypeOK, Work
  <2>3. \A u \in Users, s \in Requests :
          M!Replaces(s, "assignRoles", u)' <=>
            M!Replaces(s, "assignRoles", u) \/ (s = r /\ u = w)
    BY <1>1, <2>2 DEF M!Replaces
  <2>4. \A u \in Users : \/ asked'[u] = asked[u]
                         \/ u = w /\ asked'[u] = None
    BY <1>1, <2>1 DEF Recorded
  <2>5. asked'[w] # None => ~ \E s \in Requests \ {r} : M!Replaces(s, "assignRoles", w)
    BY <1>1, <2>1 DEF Recorded
  <2>6. ~ \E u \in Users : M!Replaces(r, "assignRoles", u)
    BY <1>1 DEF M!Replaces
  <2> QED BY <1>1, <1>3, <2>2, <2>3, <2>4, <2>5, <2>6 DEF OneReplacement, Alone
<1> QED BY <1>2, <1>3

(* The only replacement finds no rows of others, and puts its own in place. *)
LEMMA ReplacementEnd ==
  ASSUME M!TypeOK, Recorded, OneReplacement, NEW r \in Requests, M!EndAssign(r)
  PROVE  OneReplacement'
<1> DEFINE q == administration[r]
           w == administration[r].asks.user
<1>1. /\ q \in Work /\ w \in Users /\ q.pc = "create" /\ q.asks.op = "assignRoles"
      /\ UNCHANGED memberships /\ M!Replaces(r, "assignRoles", w)
  BY DEF M!TypeOK, M!EndAssign, M!Idle, M!Operations, Work, M!Replaces
<1>2. CASE q.fresh \cap q.asks.roles # {}
  <2>1. administration' = [administration EXCEPT ![r] = M!Idle] /\ UNCHANGED <<roles, asked>>
    BY <1>2 DEF M!EndAssign, M!Done
  <2> QED BY <1>1, <2>1 DEF M!TypeOK, OneReplacement, Alone, M!Replaces, M!Idle
<1>3. CASE q.fresh \cap q.asks.roles = {}
  <2>1. /\ roles' = [roles EXCEPT ![w] = (q.fresh \cap roles[w]) \cup q.asks.roles]
        /\ asked' = [asked EXCEPT ![w] = IF asked[w] = None THEN None ELSE q.asks.roles]
        /\ administration' = M!Freshened(r, "assignRoles", w, roles'[w])
    BY <1>3 DEF M!EndAssign, M!Kept
  <2>2. \A s \in Requests :
          administration'[s] = IF s = r THEN M!Idle
                               ELSE IF M!Replaces(s, "assignRoles", w)
                               THEN [administration[s] EXCEPT !.fresh = roles'[w]]
                               ELSE administration[s]
    BY <2>1 DEF M!Freshened
  <2>3. asked[w] # None => q.fresh = {} /\ \A s \in Requests : M!Replaces(s, "assignRoles", w) => s = r
    BY <1>1 DEF OneReplacement, Alone
  <2>4. \A u \in Users : asked'[u] # None => roles'[u] = asked'[u] /\ asked[u] # None
    BY <1>1, <2>1, <2>3 DEF M!TypeOK, Recorded, OneReplacement
  <2>5. ASSUME NEW s \in Requests, M!Replaces(s, "assignRoles", w), s # r
        PROVE  /\ administration'[s].pc = "create"
               /\ administration'[s].asks = administration[s].asks
               /\ administration[s].asks.op = "assignRoles"
    <3>1. administration[s] \in Work
      BY <2>5 DEF M!TypeOK, M!Replaces, M!Idle, Work
    <3> QED BY <2>2, <2>5, <3>1 DEF Work, M!Replaces
  <2>6. \A u \in Users, s \in Requests :
          M!Replaces(s, "assignRoles", u)' =>
            /\ s # r /\ M!Replaces(s, "assignRoles", u)
            /\ u # w => administration'[s] = administration[s]
    <3> SUFFICES ASSUME NEW u \in Users, NEW s \in Requests, M!Replaces(s, "assignRoles", u)'
                 PROVE  /\ s # r /\ M!Replaces(s, "assignRoles", u)
                        /\ u # w => administration'[s] = administration[s]
      OBVIOUS
    <3>1. s # r
      <4>1. administration'[r].pc = "idle"
        <5>1. administration'[r] = M!Idle
          BY <2>2
        <5> QED BY <5>1 DEF M!Idle
      <4>2. administration'[s].pc = "create"
        BY DEF M!Replaces
      <4> QED BY <4>1, <4>2
    <3>2. CASE M!Replaces(s, "assignRoles", w)
      BY <2>5, <3>1, <3>2 DEF M!Replaces
    <3>3. CASE ~M!Replaces(s, "assignRoles", w)
      <4>1. administration'[s] = administration[s]
        BY <2>2, <3>1, <3>3
      <4> QED BY <3>1, <4>1 DEF M!Replaces
    <3> QED BY <3>2, <3>3
  <2>7. \A s \in Requests : administration'[s] # M!Idle /\ administration'[s].pc # "create" =>
          administration'[s] = administration[s]
    BY <2>2, <2>5
  <2> QED BY <1>1, <2>3, <2>4, <2>6, <2>7 DEF OneReplacement, Alone
<1> QED BY <1>2, <1>3

(* Replacements of permissions have rows of their own. *)
LEMMA ReplacementPermit ==
  ASSUME M!TypeOK, Recorded, OneReplacement, NEW r \in Requests,
         M!BeginPermit(r) \/ M!EndPermit(r)
  PROVE  OneReplacement'
<1>1. UNCHANGED <<memberships, roles, asked>>
  BY DEF M!BeginPermit, M!EndPermit
<1>2. administration[r] \in Work /\ administration[r].asks.op = "permit"
  BY DEF M!TypeOK, M!BeginPermit, M!EndPermit, M!Asks, M!Idle, Work
<1>3. ASSUME NEW s \in Requests
      PROVE  \/ administration'[s] = administration[s]
             \/ administration'[s] = M!Idle
             \/ administration'[s] \in Work /\ administration'[s].pc = "create"
                /\ administration'[s].asks.op = "permit"
  <2>1. administration[s] \in {M!Idle} \cup Work
    BY DEF M!TypeOK, Work
  <2>2. CASE M!BeginPermit(r)
    BY <1>2, <2>1, <2>2 DEF M!TypeOK, M!BeginPermit, Work
  <2>3. CASE M!EndPermit(r)
    <3>1. \/ administration' = [administration EXCEPT ![r] = M!Idle]
          \/ administration' = M!Freshened(r, "permit", administration[r].asks.role,
                                         permissions'[administration[r].asks.role])
      BY <2>3 DEF M!EndPermit, M!Done
    <3>2. permissions'[administration[r].asks.role] \in SUBSET (M!AllRoles \cup Permissions)
      <4>1. administration[r].asks.role \in M!AllRoles
        BY <1>2 DEF Work, M!Operations
      <4> QED BY <2>3, <4>1, TypePermit DEF M!TypeOK
    <3>3. CASE M!Replaces(s, "permit", administration[r].asks.role) /\ s # r
      <4>1. administration[s] \in Work
        BY <2>1, <3>3 DEF M!Replaces, M!Idle
      <4>2. administration'[s] = administration[s]
              \/ administration'[s] = [administration[s] EXCEPT !.fresh =
                   permissions'[administration[r].asks.role]]
        BY <3>1, <3>3 DEF M!TypeOK, M!Freshened
      <4> QED BY <3>2, <3>3, <4>1, <4>2 DEF Work, M!Replaces
    <3>4. CASE ~M!Replaces(s, "permit", administration[r].asks.role) \/ s = r
      BY <3>1, <3>4 DEF M!TypeOK, M!Freshened
    <3> QED BY <3>3, <3>4
  <2> QED BY <2>2, <2>3
<1>4. \A u \in Users, s \in Requests :
        M!Replaces(s, "assignRoles", u)' =>
          M!Replaces(s, "assignRoles", u) /\ administration'[s] = administration[s]
  BY <1>3 DEF M!Replaces, M!Idle
<1> QED BY <1>1, <1>3, <1>4 DEF OneReplacement, Alone

LEMMA ReplacementBootstrap ==
  ASSUME M!TypeOK, Recorded, OneReplacement, M!Bootstrap
  PROVE  OneReplacement'
<1>1. /\ \A u \in Users \ {Owner} : /\ roles'[u] = roles[u] /\ memberships'[u] = memberships[u]
                                     /\ asked'[u] = asked[u]
      /\ asked'[Owner] = None /\ memberships'[Owner] = "ACTIVE"
  BY OfficersAreUsers DEF M!TypeOK, Recorded, M!Bootstrap
<1>2. ASSUME NEW s \in Requests
      PROVE  \/ administration'[s] = administration[s]
             \/ /\ administration[s].pc = "create" /\ administration'[s].pc = "create"
                /\ administration'[s].asks = administration[s].asks
                /\ \/ M!Replaces(s, "assignRoles", Owner)
                   \/ administration[s].asks.op = "permit"
  <2>1. CASE administration[s].pc = "create"
    <3>1. administration[s] \in Work
      BY <2>1 DEF M!TypeOK, M!Idle, Work
    <3> QED BY <2>1, <3>1 DEF M!Bootstrap, M!Replaces, Work
  <2>2. CASE administration[s].pc # "create"
    BY <2>2 DEF M!Bootstrap, M!Replaces
  <2> QED BY <2>1, <2>2
<1>3. \A u \in Users, s \in Requests :
        M!Replaces(s, "assignRoles", u)' =>
          /\ M!Replaces(s, "assignRoles", u)
          /\ u # Owner => administration'[s] = administration[s]
  BY <1>2 DEF M!Replaces
<1> QED BY <1>1, <1>2, <1>3 DEF OneReplacement, Alone

LEMMA ReplacementOthers ==
  ASSUME M!TypeOK, Recorded, OneReplacement,
         \/ UNCHANGED members
         \/ \E r \in Requests : \/ \E u \in Users, operation \in M!Operations : M!Begin(r, u, operation)
                              \/ M!Check(r) \/ M!DisableMembership(r) \/ M!UpdateUser(r)
  PROVE  OneReplacement'
<1>1. /\ UNCHANGED <<roles, asked>>
      /\ \A u \in Users : memberships[u] # "NONE" => memberships'[u] # "NONE"
  BY DEF members, M!TypeOK, M!Begin, M!Check, M!DisableMembership, M!UpdateUser
<1>2. ASSUME NEW s \in Requests
      PROVE  \/ administration'[s] = administration[s]
             \/ administration'[s] = M!Idle
             \/ administration'[s].pc # "create" /\ administration'[s].fresh = {}
  <2>1. administration[s] \in {M!Idle} \cup Work
    BY DEF M!TypeOK, Work
  <2>2. administration[s] # M!Idle /\ administration[s].pc # "create" => administration[s].fresh = {}
    BY DEF OneReplacement, Alone
  <2>3. ASSUME NEW r \in Requests, M!Check(r)
        PROVE  \/ administration'[s] = administration[s]
               \/ administration'[s] = M!Idle
               \/ administration'[s].pc # "create" /\ administration'[s].fresh = {}
    BY <2>1, <2>2, <2>3 DEF M!TypeOK, M!Check, Work, M!Idle
  <2> QED BY <2>3 DEF members, M!TypeOK, M!Begin, M!DisableMembership, M!UpdateUser, M!Done
<1>3. \A u \in Users, s \in Requests :
        M!Replaces(s, "assignRoles", u)' =>
          M!Replaces(s, "assignRoles", u) /\ administration'[s] = administration[s]
  BY <1>2 DEF M!Replaces, M!Idle
<1> QED BY <1>1, <1>2, <1>3 DEF OneReplacement, Alone

LEMMA ReplacementNext ==
  M!TypeOK /\ Recorded /\ OneReplacement /\ [M!Next]_members => OneReplacement'
BY ReplacementAdd, ReplacementBegin, ReplacementEnd, ReplacementPermit, ReplacementBootstrap,
   ReplacementOthers DEF M!Next, M!Write

(* A member whose roles were replaced without overlap has the roles of one  *)
(* request, the last, and no mixture.                                      *)
THEOREM RolesAreReplaced == Spec => []RolesAreOneReplacement
<1>1. Init => M!TypeOK /\ Recorded /\ OneReplacement
  BY TypeInit, ReplacementInit DEF Init
<1>2. M!TypeOK /\ Recorded /\ OneReplacement /\ [Next]_vars =>
        (M!TypeOK /\ Recorded /\ OneReplacement)'
  BY TypeNext, ReplacementNext DEF Next, vars
<1>3. OneReplacement => RolesAreOneReplacement
  BY DEF OneReplacement, RolesAreOneReplacement, M!RolesAreOneReplacement
<1> QED BY <1>1, <1>2, <1>3, PTL DEF Spec

-----------------------------------------------------------------------------
(* The end of a membership. *)

(* No request to add a user takes up a membership that was disabled.       *)
THEOREM DisabledForGood == Spec => DisabledStaysDisabled
<1> DEFINE Stays == \A u \in Users \ {Owner} :
                      memberships[u] = "INACTIVE" => memberships'[u] = "INACTIVE"
<1>1. Init => M!TypeOK /\ Recorded
  BY TypeInit DEF Init
<1>2. M!TypeOK /\ Recorded /\ [Next]_vars => (M!TypeOK /\ Recorded)'
  BY TypeNext DEF Next, vars
<1>3. M!TypeOK /\ [Next]_vars => [Stays]_(M!vars)
  <2> SUFFICES ASSUME M!TypeOK, M!Next PROVE Stays
    BY DEF Next, vars, M!vars, houses, binding, members, content, pictures
  <2>1. ASSUME NEW r \in Requests, M!AddMember(r) PROVE Stays
    BY <2>1 DEF M!TypeOK, M!AddMember, M!Joins
  <2>2. ASSUME NEW r \in Requests, M!DisableMembership(r) PROVE Stays
    BY <2>2 DEF M!TypeOK, M!DisableMembership
  <2>3. CASE M!Bootstrap
    BY <2>3 DEF M!TypeOK, M!Bootstrap
  <2>4. ASSUME UNCHANGED memberships PROVE Stays
    BY <2>4
  <2> QED BY <2>1, <2>2, <2>3, <2>4 DEF M!Next, M!Write, M!Begin, M!Check, M!BeginAssign, M!EndAssign,
              M!BeginPermit, M!EndPermit, M!UpdateUser
<1> QED BY <1>1, <1>2, <1>3, PTL DEF Spec, DisabledStaysDisabled, M!DisabledStaysDisabled

-----------------------------------------------------------------------------
(* Houses and residents. *)

Arrivals == {"createResident", "reactivateResident", "moveResident"}
Leavings == {"archiveResident", "moveResident"}

Transaction ==
  [op : N!ResidentOps \cup {"idle", "createHouse", "updateHouse", "archiveHouse", "archiveArea"},
   written : BOOLEAN, resident : Residents \cup {None},
   from : Houses \cup {None}, to : Houses \cup {None},
   area : Areas \cup {None}, status : {"EMPTY", "OCCUPIED", None},
   marks : UNION {[S -> {"OCCUPIED", "EMPTY"}] : S \in SUBSET Houses},
   alone : BOOLEAN]

RegisterTyped ==
  /\ area \in [Areas -> {"NONE", "ACTIVE", "ARCHIVED"}]
  /\ house \in [Houses -> [status : N!HouseStatuses \cup {"NONE"}, area : Areas \cup {None},
                           deleted : BOOLEAN]]
  /\ resident \in [Residents -> [status : {"NONE", "ACTIVE", "ARCHIVED"},
                                 house : Houses \cup {None}]]
  /\ job \in [Requests -> Transaction]

(* What the operation of a transaction implies, whatever others do. *)
Shaped(j) ==
  /\ j.op = "idle" => j = N!Idle
  /\ j.op \in {"createHouse", "updateHouse", "archiveHouse"} => j.to \in Houses
  /\ j.op \in {"updateHouse", "archiveHouse"} => house[j.to].status # "NONE"
  /\ j.op \in {"createHouse", "archiveArea"} => j.area \in Areas
  /\ j.op \in N!ResidentOps => j.resident \in Residents
  /\ j.op \in Arrivals => j.to \in Houses /\ house[j.to].status # "NONE"
  /\ j.op \in Leavings => j.from \in Houses /\ j.from # j.to /\ house[j.from].status # "NONE"
  /\ j.op = "archiveResident" => j.to = None
  /\ j.op \in {"createResident", "reactivateResident"} => j.from = None
  /\ j.op \in {"archiveResident", "reactivateResident", "moveResident"} =>
       resident[j.resident].status # "NONE"
  /\ j.written => j.op \in N!ResidentOps
  /\ DOMAIN j.marks \subseteq {j.from, j.to}

(* The houses a transaction of a resident would mark now. *)
Marks(j) ==
  LET emptied == IF j.from = None THEN {} ELSE N!Departure(j.from, j.resident)
      filled == IF j.to = None THEN {} ELSE N!Arrival(j.to)
  IN  [x \in emptied \cup filled |-> IF x \in filled THEN "OCCUPIED" ELSE "EMPTY"]

(* What a transaction read is still so. *)
Current(j) ==
  /\ j.op = "createHouse" => N!AreaAssignable(j.area)
  /\ j.op = "updateHouse" => /\ N!Live(j.to) /\ N!StatusAllowed(j.to, j.status)
                             /\ j.area # None => N!AreaAssignable(j.area)
  /\ j.op = "archiveHouse" => N!ActiveIn(j.to) = {}
  /\ j.op = "archiveArea" => N!ActiveHouses(j.area) = {}
  /\ j.op \in Arrivals => N!HouseAssignable(j.to)
  /\ j.op = "createResident" => resident[j.resident] = N!NoResident
  /\ j.op \in Leavings => resident[j.resident] = [status |-> "ACTIVE", house |-> j.from]
  /\ j.op = "reactivateResident" =>
       resident[j.resident] = [status |-> "ARCHIVED", house |-> j.to]
  /\ j.written => j.marks = Marks(j)

Share(j, k) ==
  N!TouchedBy(j) \cap N!TouchedBy(k) # {} \/ (j.resident = k.resident /\ k.resident # None)

(* Transactions that share rows leave all of their rows contested. *)
SharedIsContested ==
  \A g, h \in Requests : g # h /\ Share(job[g], job[h]) =>
    /\ ~job[g].alone /\ ~job[h].alone
    /\ N!TouchedBy(job[g]) \cup N!TouchedBy(job[h]) \subseteq contested

Undisturbed(j) == j.alone \/ ~(N!TouchedBy(j) \subseteq contested)

ReadsAreCurrent ==
  \A h \in Requests : Shaped(job[h]) /\ (Undisturbed(job[h]) => Current(job[h]))

(* Residents live in houses that exist; houses are inactive when deleted. *)
HomesExist ==
  /\ \A r \in Residents :
       IF resident[r].status = "NONE" THEN resident[r] = N!NoResident
       ELSE resident[r].house \in Houses /\ house[resident[r].house].status # "NONE"
  /\ \A x \in Houses : house[x].status = "INACTIVE" => house[x].deleted

RegisterInv ==
  /\ RegisterTyped /\ SharedIsContested /\ ReadsAreCurrent /\ HomesExist
  /\ N!OccupancyIsDerived /\ N!ArchivedIsVacant

LEMMA IdleTouchesNothing == N!TouchedBy(N!Idle) = {} /\ N!Idle.resident = None
  BY NothingIsNobody DEF N!TouchedBy, N!Idle

LEMMA IdleIsATransaction == N!Idle \in Transaction /\ Shaped(N!Idle) /\ Current(N!Idle)
<1>1. DOMAIN N!Idle.marks = {} /\ N!Idle.marks \in [{} -> {"OCCUPIED", "EMPTY"}]
  BY DEF N!Idle
<1>2. N!Idle.marks \in UNION {[S -> {"OCCUPIED", "EMPTY"}] : S \in SUBSET Houses}
  BY <1>1
<1>3. N!Idle \in Transaction
  BY <1>2 DEF N!Idle, Transaction
<1>4. Shaped(N!Idle)
  BY <1>1 DEF N!Idle, Shaped, N!ResidentOps, Arrivals, Leavings
<1>5. Current(N!Idle)
  BY DEF N!Idle, Current, N!ResidentOps, Arrivals, Leavings
<1> QED BY <1>3, <1>4, <1>5

LEMMA RegisterInit == N!Init => RegisterInv
<1> SUFFICES ASSUME N!Init PROVE RegisterInv
  OBVIOUS
<1>1. RegisterTyped
  BY IdleIsATransaction DEF N!Init, RegisterTyped, N!NoHouse, N!NoResident
<1>2. SharedIsContested /\ ReadsAreCurrent
  BY IdleTouchesNothing, IdleIsATransaction DEF N!Init, SharedIsContested, ReadsAreCurrent, Share
<1>3. HomesExist
  BY DEF N!Init, HomesExist, N!NoHouse, N!NoResident
<1>4. N!OccupancyIsDerived /\ N!ArchivedIsVacant
  BY DEF N!Init, N!OccupancyIsDerived, N!ArchivedIsVacant, N!Live, N!NoHouse
<1> QED BY <1>1, <1>2, <1>3, <1>4 DEF RegisterInv

(* Which rows are a transaction's does not depend on how far it is. *)
LEMMA SameRows ==
  ASSUME NEW j, NEW k, j.resident = k.resident, j.from = k.from, j.to = k.to, j.area = k.area
  PROVE  /\ N!TouchedBy(j) = N!TouchedBy(k)
         /\ \A g : (Share(j, g) <=> Share(k, g)) /\ (Share(g, j) <=> Share(g, k))
BY DEF N!TouchedBy, Share

LEMMA SameReads ==
  ASSUME NEW j \in Transaction, NEW alone \in BOOLEAN
  PROVE  LET k == [j EXCEPT !.alone = alone] IN
         /\ k \in Transaction /\ k.alone = alone
         /\ k.resident = j.resident /\ k.from = j.from /\ k.to = j.to /\ k.area = j.area
         /\ j.op # "idle" => k.op # "idle"
         /\ j.op # "idle" /\ Shaped(j) => Shaped(k)
         /\ Current(j) => Current(k)
<1> DEFINE k == [j EXCEPT !.alone = alone]
<1>1. /\ k \in Transaction /\ k.alone = alone
      /\ k.op = j.op /\ k.written = j.written /\ k.resident = j.resident
      /\ k.from = j.from /\ k.to = j.to /\ k.area = j.area /\ k.status = j.status
      /\ k.marks = j.marks
  BY DEF Transaction
<1> HIDE DEF k
<1>2. j.op # "idle" /\ Shaped(j) => Shaped(k)
  BY <1>1 DEF Shaped
<1>3. Marks(k) = Marks(j)
  BY <1>1 DEF Marks
<1>4. Current(j) => Current(k)
  BY <1>1, <1>3 DEF Current
<1> QED BY <1>1, <1>2, <1>4 DEF k

(* A transaction begins: it has just read what it read, and others it       *)
(* shares rows with are told apart.                                         *)
LEMMA BeginStep ==
  ASSUME RegisterInv, NEW h \in Requests, NEW j \in Transaction,
         j.op # "idle", Shaped(j), Current(j), N!Begin(h, j)
  PROVE  RegisterInv'
<1> USE DEF RegisterInv
<1>1. /\ UNCHANGED <<area, house, resident>> /\ job[h] = N!Idle
      /\ contested \subseteq contested'
  BY DEF N!Begin
<1> DEFINE undisturbed == N!Rivals(j) = {}
           new == [j EXCEPT !.alone = undisturbed]
           overlapped(g) == [job[g] EXCEPT !.alone = FALSE]
<1>c. h \notin N!Rivals(j)
  BY <1>1, IdleTouchesNothing DEF N!Rivals
<1>0. job' = [g \in Requests |-> IF g = h THEN new
                                 ELSE IF g \in N!Rivals(j) THEN overlapped(g) ELSE job[g]]
  BY <1>c DEF N!Begin
<1>a. /\ new \in Transaction /\ new.alone = undisturbed
      /\ new.resident = j.resident /\ new.from = j.from /\ new.to = j.to /\ new.area = j.area
      /\ Shaped(new) /\ Current(new)
  <2>1. undisturbed \in BOOLEAN
    OBVIOUS
  <2> HIDE DEF undisturbed
  <2> QED BY <2>1, SameReads
<1>b. \A g \in Requests :
        /\ overlapped(g) \in Transaction /\ ~overlapped(g).alone
        /\ overlapped(g).resident = job[g].resident /\ overlapped(g).from = job[g].from
        /\ overlapped(g).to = job[g].to /\ overlapped(g).area = job[g].area
        /\ job[g].op # "idle" /\ Shaped(job[g]) => Shaped(overlapped(g))
        /\ Current(job[g]) => Current(overlapped(g))
  BY SameReads DEF RegisterTyped
<1> HIDE DEF new, overlapped
<1>2. \A g \in Requests : /\ job'[g] \in Transaction
                          /\ job'[g].resident = (IF g = h THEN j ELSE job[g]).resident
                          /\ job'[g].from = (IF g = h THEN j ELSE job[g]).from
                          /\ job'[g].to = (IF g = h THEN j ELSE job[g]).to
                          /\ job'[g].area = (IF g = h THEN j ELSE job[g]).area
  BY <1>0, <1>a, <1>b DEF RegisterTyped
<1>3. job'[h].alone = (N!Rivals(j) = {})
  BY <1>0, <1>a
<1>4. \A g \in Requests \ {h} :
        /\ g \in N!Rivals(j) => ~job'[g].alone
        /\ job'[g].alone => job[g].alone
        /\ job'[g] = job[g] \/ (job[g].op # "idle" /\ job'[g] = overlapped(g))
  <2> SUFFICES ASSUME NEW g \in Requests \ {h}
               PROVE  /\ g \in N!Rivals(j) => ~job'[g].alone
                      /\ job'[g].alone => job[g].alone
                      /\ job'[g] = job[g] \/ (job[g].op # "idle" /\ job'[g] = overlapped(g))
    OBVIOUS
  <2>1. CASE g \in N!Rivals(j)
    <3>1. job'[g] = overlapped(g)
      BY <1>0, <2>1
    <3>2. ~job'[g].alone
      BY <1>b, <3>1
    <3>3. job[g] # N!Idle
      BY <2>1, IdleTouchesNothing DEF N!Rivals
    <3>4. job[g].op # "idle"
      BY <3>3 DEF ReadsAreCurrent, Shaped
    <3> QED BY <3>1, <3>2, <3>4
  <2>2. CASE g \notin N!Rivals(j)
    <3>1. job'[g] = job[g]
      BY <1>0, <2>2
    <3>2. job'[g].alone = job[g].alone
      BY <3>1
    <3> QED BY <2>2, <3>1, <3>2
  <2> QED BY <2>1, <2>2
<1>5. /\ N!TouchedBy(job[h]) = {} /\ job[h].resident = None
  BY <1>1, IdleTouchesNothing
<1>6. \A g \in Requests : (N!TouchedBy(job[g]))' =
                            N!TouchedBy(IF g = h THEN j ELSE job[g])
  BY <1>1, <1>2 DEF N!TouchedBy
<1>7. \A g \in Requests : Share(j, job[g]) => g \in N!Rivals(j)
  BY DEF Share, N!Rivals
<1>8. \A g \in N!Rivals(j) : N!TouchedBy(j) \cup N!TouchedBy(job[g]) \subseteq contested'
  BY DEF N!Begin
<1>9. RegisterTyped'
  <2>1. job' \in [Requests -> Transaction]
    BY <1>0, <1>2
  <2> QED BY <1>1, <2>1 DEF RegisterTyped
<1>10. SharedIsContested'
  <2> SUFFICES ASSUME NEW f \in Requests, NEW g \in Requests, f # g, Share(job[f], job[g])'
               PROVE  /\ ~job'[f].alone /\ ~job'[g].alone
                      /\ (N!TouchedBy(job[f]))' \cup (N!TouchedBy(job[g]))' \subseteq contested'
    BY DEF SharedIsContested
  <2>1. Share(IF f = h THEN j ELSE job[f], IF g = h THEN j ELSE job[g])
    BY <1>2, <1>6 DEF Share
  <2>2. CASE f # h /\ g # h
    BY <1>1, <1>4, <1>6, <2>1, <2>2 DEF SharedIsContested
  <2>3. CASE f = h
    BY <1>3, <1>4, <1>6, <1>7, <1>8, <2>1, <2>3
  <2>4. CASE g = h
    <3>1. f \in N!Rivals(j)
      BY <1>7, <2>1, <2>4 DEF Share
    <3> QED BY <1>3, <1>4, <1>6, <1>8, <2>4, <3>1
  <2> QED BY <2>2, <2>3, <2>4
<1>11. \A k : Current(k)' = Current(k) /\ Shaped(k)' = Shaped(k)
  BY <1>1 DEF Current, Shaped, Marks, N!Live, N!ActiveIn, N!AreaAssignable, N!HouseAssignable,
     N!StatusAllowed, N!ActiveHouses, N!Arrival, N!Departure
<1>12. ReadsAreCurrent'
  <2> SUFFICES ASSUME NEW g \in Requests
               PROVE  /\ Shaped(job'[g])
                      /\ Undisturbed(job[g])' => Current(job'[g])
    BY <1>11 DEF ReadsAreCurrent
  <2>1. CASE g = h
    BY <1>0, <1>a, <2>1
  <2>2. CASE g # h
    <3>1. Undisturbed(job[g])' => Undisturbed(job[g])
      BY <1>1, <1>4, <1>6, <2>2 DEF Undisturbed
    <3> QED BY <1>4, <1>b, <2>2, <3>1 DEF ReadsAreCurrent
  <2> QED BY <2>1, <2>2
<1>13. HomesExist'
  BY <1>1 DEF HomesExist
<1>14. N!OccupancyIsDerived' /\ N!ArchivedIsVacant'
  BY <1>1 DEF N!OccupancyIsDerived, N!ArchivedIsVacant, N!Live, N!ActiveIn
<1> QED BY <1>9, <1>10, <1>12, <1>13, <1>14

HouseBegins(h) ==
  \/ \E x \in Houses, a \in Areas : N!BeginCreateHouse(h, x, a)
  \/ \E x \in Houses, a \in Areas \cup {None}, status \in {"EMPTY", "OCCUPIED", None} :
       N!BeginUpdateHouse(h, x, a, status)
  \/ \E x \in Houses : N!BeginArchiveHouse(h, x)
  \/ \E a \in Areas : N!BeginArchiveArea(h, a)

ResidentBegins(h) ==
  \E r \in Residents :
    \/ \E x \in Houses : N!BeginCreateResident(h, r, x) \/ N!BeginMoveResident(h, r, x)
    \/ N!BeginArchiveResident(h, r)
    \/ N!BeginReactivateResident(h, r)

LEMMA IdleIsBlank ==
  /\ N!Idle \in Transaction /\ ~N!Idle.written /\ DOMAIN N!Idle.marks = {}
  /\ N!Idle.resident = None /\ N!Idle.from = None /\ N!Idle.to = None
  /\ N!Idle.area = None /\ N!Idle.status = None
<1>1. DOMAIN N!Idle.marks = {}
  BY DEF N!Idle
<1> QED BY <1>1, IdleIsATransaction DEF N!Idle

LEMMA HouseBeginSteps ==
  ASSUME RegisterInv, NEW h \in Requests, HouseBegins(h) PROVE RegisterInv'
<1> USE DEF RegisterInv
<1>1. ASSUME NEW x \in Houses, NEW a \in Areas, N!BeginCreateHouse(h, x, a) PROVE RegisterInv'
  <2> DEFINE j == [N!Idle EXCEPT !.op = "createHouse", !.to = x, !.area = a]
  <2>2. /\ j \in Transaction /\ j.op = "createHouse" /\ ~j.written
        /\ j.to = x /\ j.area = a /\ DOMAIN j.marks = {}
    BY IdleIsBlank DEF Transaction, N!ResidentOps
  <2> HIDE DEF j
  <2>3. N!AreaAssignable(a) /\ N!Begin(h, j)
    BY <1>1 DEF N!BeginCreateHouse, j
  <2> QED BY <2>2, <2>3, BeginStep
          DEF Shaped, Current, Arrivals, Leavings, N!ResidentOps, N!Live
<1>2. ASSUME NEW x \in Houses, NEW a \in Areas \cup {None},
             NEW status \in {"EMPTY", "OCCUPIED", None}, N!BeginUpdateHouse(h, x, a, status)
      PROVE  RegisterInv'
  <2> DEFINE j == [N!Idle EXCEPT !.op = "updateHouse", !.to = x, !.area = a, !.status = status]
  <2>2. /\ j \in Transaction /\ j.op = "updateHouse" /\ ~j.written
        /\ j.to = x /\ j.area = a /\ j.status = status /\ DOMAIN j.marks = {}
    BY IdleIsBlank DEF Transaction, N!ResidentOps
  <2> HIDE DEF j
  <2>3. /\ N!Live(x) /\ N!StatusAllowed(x, status) /\ N!Begin(h, j)
        /\ a # None => N!AreaAssignable(a)
    BY <1>2 DEF N!BeginUpdateHouse, j
  <2> QED BY <2>2, <2>3, BeginStep
          DEF Shaped, Current, Arrivals, Leavings, N!ResidentOps, N!Live
<1>3. ASSUME NEW x \in Houses, N!BeginArchiveHouse(h, x) PROVE RegisterInv'
  <2> DEFINE j == [N!Idle EXCEPT !.op = "archiveHouse", !.to = x]
  <2>2. /\ j \in Transaction /\ j.op = "archiveHouse" /\ ~j.written
        /\ j.to = x /\ DOMAIN j.marks = {}
    BY IdleIsBlank DEF Transaction, N!ResidentOps
  <2> HIDE DEF j
  <2>3. N!Live(x) /\ N!ActiveIn(x) = {} /\ N!Begin(h, j)
    BY <1>3 DEF N!BeginArchiveHouse, j
  <2> QED BY <2>2, <2>3, BeginStep
          DEF Shaped, Current, Arrivals, Leavings, N!ResidentOps, N!Live
<1>4. ASSUME NEW a \in Areas, N!BeginArchiveArea(h, a) PROVE RegisterInv'
  <2> DEFINE j == [N!Idle EXCEPT !.op = "archiveArea", !.area = a]
  <2>2. /\ j \in Transaction /\ j.op = "archiveArea" /\ ~j.written
        /\ j.area = a /\ DOMAIN j.marks = {}
    BY IdleIsBlank DEF Transaction, N!ResidentOps
  <2> HIDE DEF j
  <2>3. N!ActiveHouses(a) = {} /\ N!Begin(h, j)
    BY <1>4 DEF N!BeginArchiveArea, j
  <2> QED BY <2>2, <2>3, BeginStep
          DEF Shaped, Current, Arrivals, Leavings, N!ResidentOps, N!Live
<1> QED BY <1>1, <1>2, <1>3, <1>4 DEF HouseBegins

LEMMA ResidentBeginSteps ==
  ASSUME RegisterInv, NEW h \in Requests, ResidentBegins(h) PROVE RegisterInv'
<1> USE DEF RegisterInv
<1>0. ASSUME NEW r \in Residents
      PROVE  resident[r] = [status |-> resident[r].status, house |-> resident[r].house]
  BY DEF RegisterTyped
<1>1. ASSUME NEW r \in Residents, NEW x \in Houses, N!BeginCreateResident(h, r, x)
      PROVE  RegisterInv'
  <2> DEFINE j == [N!Idle EXCEPT !.op = "createResident", !.resident = r, !.to = x]
  <2>2. /\ j \in Transaction /\ j.op = "createResident" /\ ~j.written /\ j.resident = r
        /\ j.from = None /\ j.to = x /\ DOMAIN j.marks = {}
    BY IdleIsBlank DEF Transaction, N!ResidentOps
  <2> HIDE DEF j
  <2>3. /\ N!HouseAssignable(x) /\ N!Begin(h, j) /\ resident[r] = N!NoResident
    BY <1>1 DEF N!BeginCreateResident, j, HomesExist
  <2> QED BY <2>2, <2>3, BeginStep
          DEF Shaped, Current, Arrivals, Leavings, N!ResidentOps, N!HouseAssignable, N!Live
<1>2. ASSUME NEW r \in Residents, NEW x \in Houses, N!BeginMoveResident(h, r, x)
      PROVE  RegisterInv'
  <2> DEFINE j == [N!Idle EXCEPT !.op = "moveResident", !.resident = r,
                                 !.from = resident[r].house, !.to = x]
  <2>1. /\ resident[r].status = "ACTIVE" /\ resident[r].house \in Houses /\ resident[r].house # x
        /\ house[resident[r].house].status # "NONE"
    BY <1>2 DEF N!BeginMoveResident, HomesExist
  <2>3. /\ j \in Transaction /\ j.op = "moveResident" /\ ~j.written /\ j.resident = r
        /\ j.from = resident[r].house /\ j.to = x /\ DOMAIN j.marks = {}
    BY <2>1, IdleIsBlank DEF Transaction, N!ResidentOps
  <2> HIDE DEF j
  <2>4. /\ N!HouseAssignable(x) /\ N!Begin(h, j)
    BY <1>2 DEF N!BeginMoveResident, j
  <2> QED BY <1>0, <2>1, <2>3, <2>4, BeginStep
          DEF Shaped, Current, Arrivals, Leavings, N!ResidentOps, N!HouseAssignable, N!Live
<1>3. ASSUME NEW r \in Residents, N!BeginArchiveResident(h, r) PROVE RegisterInv'
  <2> DEFINE j == [N!Idle EXCEPT !.op = "archiveResident", !.resident = r,
                                 !.from = resident[r].house]
  <2>1. /\ resident[r].status = "ACTIVE" /\ resident[r].house \in Houses
        /\ house[resident[r].house].status # "NONE"
    BY <1>3 DEF N!BeginArchiveResident, HomesExist
  <2>3. /\ j \in Transaction /\ j.op = "archiveResident" /\ ~j.written /\ j.resident = r
        /\ j.from = resident[r].house /\ j.to = None /\ DOMAIN j.marks = {}
    BY <2>1, IdleIsBlank DEF Transaction, N!ResidentOps
  <2> HIDE DEF j
  <2>4. N!Begin(h, j) /\ j.from # j.to
    BY <1>3, <2>1, <2>3, NothingIsNobody DEF N!BeginArchiveResident, j
  <2> QED BY <1>0, <2>1, <2>3, <2>4, BeginStep
          DEF Shaped, Current, Arrivals, Leavings, N!ResidentOps
<1>4. ASSUME NEW r \in Residents, N!BeginReactivateResident(h, r) PROVE RegisterInv'
  <2> DEFINE j == [N!Idle EXCEPT !.op = "reactivateResident", !.resident = r,
                                 !.to = resident[r].house]
  <2>1. resident[r].status = "ARCHIVED" /\ resident[r].house \in Houses
    BY <1>4 DEF N!BeginReactivateResident, HomesExist
  <2>3. /\ j \in Transaction /\ j.op = "reactivateResident" /\ ~j.written /\ j.resident = r
        /\ j.from = None /\ j.to = resident[r].house /\ DOMAIN j.marks = {}
    BY <2>1, IdleIsBlank DEF Transaction, N!ResidentOps
  <2> HIDE DEF j
  <2>4. N!HouseAssignable(j.to) /\ N!Begin(h, j)
    BY <1>4, <2>3 DEF N!BeginReactivateResident, j
  <2> QED BY <1>0, <2>1, <2>3, <2>4, BeginStep
          DEF Shaped, Current, Arrivals, Leavings, N!ResidentOps, N!HouseAssignable, N!Live
<1> QED BY <1>1, <1>2, <1>3, <1>4 DEF ResidentBegins

(* Nothing is asked of no transaction. *)
LEMMA BlankIsCurrent == (Shaped(N!Idle) /\ Current(N!Idle))'
<1>1. N!Idle' = N!Idle /\ N!Idle.op = "idle" /\ ~N!Idle.written /\ DOMAIN N!Idle.marks = {}
  BY IdleIsBlank DEF N!Idle
<1> QED BY <1>1 DEF Shaped, Current, N!ResidentOps, Arrivals, Leavings

(* What a transaction read is still so where its rows are as they were.     *)
LEMMA CurrentGoesOn ==
  ASSUME NEW j \in Transaction, Shaped(j), Current(j),
         NEW others, N!TouchedBy(j) \cap others = {},
         \A r \in Residents : resident'[r] = resident[r] \/ r # j.resident,
         \A a \in Areas : area'[a] = area[a] \/ a \in others,
         \A x \in Houses : /\ house'[x] = house[x] \/ x \in others
                           /\ N!ActiveIn(x)' = N!ActiveIn(x) \/ x \in others,
         \A a \in Areas : N!ActiveHouses(a)' \subseteq N!ActiveHouses(a) \/ a \in others
  PROVE  Current(j)'
<1>1. None \notin Areas \cup Houses
  BY NothingIsNobody
<1>2. \A x \in {j.from, j.to, j.area} \ {None} : x \notin others
  BY DEF N!TouchedBy
<1>3. \A x \in Houses \cap {j.from, j.to} : house'[x] = house[x] /\ N!ActiveIn(x)' = N!ActiveIn(x)
  BY <1>1, <1>2
<1>4. \A a \in Areas \cap {j.area} : area'[a] = area[a]
                                     /\ N!ActiveHouses(a)' \subseteq N!ActiveHouses(a)
  BY <1>1, <1>2
<1>5. Marks(j)' = Marks(j)
  <2>1. j.from \in Houses \cup {None} /\ j.to \in Houses \cup {None}
    BY DEF Transaction
  <2>2. j.from # None => N!Departure(j.from, j.resident)' = N!Departure(j.from, j.resident)
    BY <1>3, <2>1 DEF N!Departure, N!Live
  <2>3. j.to # None => N!Arrival(j.to)' = N!Arrival(j.to)
    BY <1>3, <2>1 DEF N!Arrival, N!Live
  <2> QED BY <2>2, <2>3 DEF Marks
<1>6. j.op = "createHouse" => N!AreaAssignable(j.area)'
  BY <1>4 DEF Current, Shaped, N!AreaAssignable
<1>7. j.op = "updateHouse" => /\ N!Live(j.to)' /\ N!StatusAllowed(j.to, j.status)'
                              /\ j.area # None => N!AreaAssignable(j.area)'
  <2>1. j.area \in Areas \cup {None}
    BY DEF Transaction
  <2> QED BY <1>3, <1>4, <2>1 DEF Current, Shaped, N!AreaAssignable, N!Live, N!StatusAllowed
<1>8. /\ j.op = "archiveHouse" => N!ActiveIn(j.to)' = {}
      /\ j.op = "archiveArea" => N!ActiveHouses(j.area)' = {}
  BY <1>3, <1>4 DEF Current, Shaped
<1>9. j.op \in Arrivals => N!HouseAssignable(j.to)'
  BY <1>3 DEF Current, Shaped, N!HouseAssignable, N!Live
<1>10. j.op \in N!ResidentOps => resident'[j.resident] = resident[j.resident]
  BY DEF Shaped
<1> QED BY <1>5, <1>6, <1>7, <1>8, <1>9, <1>10
        DEF Current, Arrivals, Leavings, N!ResidentOps, N!NoResident

(* A transaction that ends, and whose writes, if any, are to its own rows,  *)
(* leaves what others read as it is, unless they share rows with it.        *)
LEMMA OthersGoOn ==
  ASSUME RegisterInv, NEW h \in Requests, RegisterTyped',
         job' = [job EXCEPT ![h] = N!Idle],
         contested' = contested \/
           (contested' \subseteq contested /\ job[h].alone
              /\ contested \ contested' \subseteq N!TouchedBy(job[h])),
         \A r \in Residents :
           \/ resident'[r] = resident[r]
           \/ /\ r = job[h].resident
              /\ resident'[r].house \in N!TouchedBy(job[h]) \cup {None}
              /\ resident[r].status # "NONE" => resident'[r].status # "NONE",
         \A a \in Areas : area'[a] = area[a] \/ a \in N!TouchedBy(job[h]),
         \A x \in Houses : /\ house'[x] = house[x] \/ x \in N!TouchedBy(job[h])
                           /\ N!ActiveIn(x)' = N!ActiveIn(x) \/ x \in N!TouchedBy(job[h])
                           /\ house[x].status # "NONE" => house'[x].status # "NONE",
         \A a \in Areas : \/ N!ActiveHouses(a)' \subseteq N!ActiveHouses(a)
                          \/ a \in N!TouchedBy(job[h])
  PROVE  SharedIsContested' /\ ReadsAreCurrent'
<1> USE DEF RegisterInv
<1> DEFINE mine == N!TouchedBy(job[h])
<1>1. \A g \in Requests : job'[g] = IF g = h THEN N!Idle ELSE job[g]
  BY DEF RegisterTyped
<1>2. N!TouchedBy(job[h])' = {} /\ job'[h].resident = None
  BY <1>1, IdleTouchesNothing, NothingIsNobody DEF N!TouchedBy, N!Idle
<1>3. ASSUME NEW g \in Requests \ {h}
      PROVE  /\ N!TouchedBy(job[g])' \subseteq N!TouchedBy(job[g]) \cup mine
             /\ job[g].resident # job[h].resident \/ job[g].resident = None =>
                  N!TouchedBy(job[g])' = N!TouchedBy(job[g])
  <2>1. job'[g] = job[g]
    BY <1>1
  <2>2. None \notin Residents
    BY NothingIsNobody
  <2> QED BY <2>1, <2>2 DEF N!TouchedBy
<1>4. ASSUME NEW g \in Requests \ {h}, Share(job[g], job[h])
      PROVE  /\ ~job'[g].alone /\ contested' = contested
             /\ N!TouchedBy(job[g])' \subseteq contested'
  <2>1. /\ ~job[g].alone /\ ~job[h].alone
        /\ N!TouchedBy(job[g]) \cup mine \subseteq contested
    BY <1>4 DEF SharedIsContested
  <2> QED BY <1>1, <1>3, <2>1
<1>5. ASSUME NEW g \in Requests \ {h}, ~Share(job[g], job[h])
      PROVE  /\ N!TouchedBy(job[g])' = N!TouchedBy(job[g]) /\ job'[g] = job[g]
             /\ N!TouchedBy(job[g]) \cap mine = {}
             /\ job[g].resident # job[h].resident \/ job[g].resident = None
             /\ N!TouchedBy(job[g]) \subseteq contested => N!TouchedBy(job[g]) \subseteq contested'
  BY <1>1, <1>3, <1>5 DEF Share
<1>6. SharedIsContested'
  <2> SUFFICES ASSUME NEW f \in Requests, NEW g \in Requests, f # g, Share(job[f], job[g])'
               PROVE  /\ ~job'[f].alone /\ ~job'[g].alone
                      /\ N!TouchedBy(job[f])' \cup N!TouchedBy(job[g])' \subseteq contested'
    BY DEF SharedIsContested
  <2>1. f # h /\ g # h
    BY <1>2 DEF Share
  <2>2. CASE Share(job[f], job[h]) /\ Share(job[g], job[h])
    BY <1>4, <2>1, <2>2
  <2>3. ASSUME NEW e \in Requests \ {h}, NEW k \in Requests \ {h}, e # k,
               Share(job[e], job[h]), ~Share(job[k], job[h]), Share(job[e], job[k])'
        PROVE  ~job'[k].alone /\ N!TouchedBy(job[k])' \subseteq contested'
    <3>1. /\ N!TouchedBy(job[e])' \subseteq N!TouchedBy(job[e]) \cup mine
          /\ job'[e].resident = job[e].resident /\ job'[k].resident = job[k].resident
      BY <1>1, <1>3
    <3>2. Share(job[e], job[k])
      BY <1>5, <2>3, <3>1 DEF Share
    <3>3. /\ ~job[k].alone
          /\ N!TouchedBy(job[k]) \subseteq contested
      BY <2>3, <3>2 DEF SharedIsContested
    <3> QED BY <1>5, <2>3, <3>3
  <2>4. CASE Share(job[f], job[h]) /\ ~Share(job[g], job[h])
    BY <1>4, <2>1, <2>3, <2>4
  <2>5. CASE ~Share(job[f], job[h]) /\ Share(job[g], job[h])
    <3>1. Share(job[g], job[f])'
      BY DEF Share
    <3> QED BY <1>4, <2>1, <2>3, <2>5, <3>1
  <2>6. CASE ~Share(job[f], job[h]) /\ ~Share(job[g], job[h])
    <3>1. Share(job[f], job[g])
      BY <1>5, <2>1, <2>6 DEF Share
    <3>2. /\ ~job[f].alone /\ ~job[g].alone
          /\ N!TouchedBy(job[f]) \cup N!TouchedBy(job[g]) \subseteq contested
      BY <3>1 DEF SharedIsContested
    <3> QED BY <1>5, <2>1, <2>6, <3>2
  <2> QED BY <2>2, <2>4, <2>5, <2>6
<1>7. ASSUME NEW g \in Requests \ {h} PROVE Shaped(job[g])'
  <2>1. job'[g] = job[g] /\ Shaped(job[g]) /\ job[g] \in Transaction
    BY <1>1 DEF ReadsAreCurrent, RegisterTyped
  <2>2. \A r \in Residents : resident[r].status # "NONE" => resident'[r].status # "NONE"
    OBVIOUS
  <2> QED BY <2>1, <2>2 DEF Shaped, N!ResidentOps, Arrivals
<1>8. ASSUME NEW g \in Requests \ {h}, Undisturbed(job[g])' PROVE Current(job[g])'
  <2>0. PICK j : j = job[g]
    OBVIOUS
  <2>1. ~Share(j, job[h])
    BY <1>4, <1>8, <2>0 DEF Undisturbed
  <2>2. /\ job'[g] = j /\ j \in Transaction /\ Shaped(j) /\ N!TouchedBy(j) \cap mine = {}
        /\ Undisturbed(j)
    BY <1>5, <1>8, <2>0, <2>1 DEF Undisturbed, ReadsAreCurrent, RegisterTyped
  <2>3. Current(j)
    BY <2>0, <2>2 DEF ReadsAreCurrent
  <2>4. \A r \in Residents : resident'[r] = resident[r] \/ r # j.resident
    BY <1>5, <2>0, <2>1, NothingIsNobody
  <2>5. Current(j)'
    BY <2>2, <2>3, <2>4, CurrentGoesOn
  <2> QED BY <2>2, <2>5
<1>9. Shaped(job[h])' /\ Current(job[h])'
  BY <1>1, BlankIsCurrent
<1> QED BY <1>6, <1>7, <1>8, <1>9 DEF ReadsAreCurrent

(* The resident is written, and the houses are looked at: by the time these *)
(* are committed, they are as they were, unless others touched them.        *)
LEMMA WriteResidentStep ==
  ASSUME RegisterInv, NEW h \in Requests, N!WriteResident(h)
  PROVE  RegisterInv'
<1> USE DEF RegisterInv
<1> DEFINE j == job[h]
           new == [j EXCEPT !.written = TRUE, !.marks = Marks(j)]
<1>1. /\ UNCHANGED <<area, house, resident, contested>> /\ j.op \in N!ResidentOps
      /\ job' = [job EXCEPT ![h] = N!Idle] \/ job' = [job EXCEPT ![h] = new]
  BY DEF N!WriteResident, Marks
<1>2. j \in Transaction /\ Shaped(j) /\ (Undisturbed(j) => Current(j))
  BY DEF RegisterTyped, ReadsAreCurrent
<1>3. HomesExist' /\ N!OccupancyIsDerived' /\ N!ArchivedIsVacant'
  BY <1>1 DEF HomesExist, N!OccupancyIsDerived, N!ArchivedIsVacant, N!Live, N!ActiveIn
<1>4. CASE job' = [job EXCEPT ![h] = N!Idle]
  <2>1. RegisterTyped'
    BY <1>1, <1>4, IdleIsATransaction DEF RegisterTyped
  <2>2. SharedIsContested' /\ ReadsAreCurrent'
    <3>1. \A x \in Houses : N!ActiveIn(x)' = N!ActiveIn(x)
      BY <1>1 DEF N!ActiveIn
    <3>2. \A a \in Areas : N!ActiveHouses(a)' = N!ActiveHouses(a)
      BY <1>1 DEF N!ActiveHouses, N!Live
    <3> QED BY <1>1, <1>4, <2>1, <3>1, <3>2, OthersGoOn
  <2> QED BY <1>3, <2>1, <2>2
<1>5. CASE job' = [job EXCEPT ![h] = new]
  <2>1. /\ DOMAIN Marks(j) \subseteq {j.from, j.to} \cap Houses
        /\ Marks(j) \in [DOMAIN Marks(j) -> {"OCCUPIED", "EMPTY"}]
    BY <1>2 DEF Marks, N!Departure, N!Arrival, Transaction
  <2>2. /\ new \in Transaction /\ new.written /\ new.marks = Marks(j)
        /\ new.op = j.op /\ new.resident = j.resident /\ new.from = j.from /\ new.to = j.to
        /\ new.area = j.area /\ new.status = j.status /\ new.alone = j.alone
    <3>0. PICK marks : marks = Marks(j)
      OBVIOUS
    <3>1. marks \in UNION {[S -> {"OCCUPIED", "EMPTY"}] : S \in SUBSET Houses}
      BY <2>1, <3>0
    <3>2. new = [j EXCEPT !.written = TRUE, !.marks = marks]
      BY <3>0
    <3> HIDE DEF new
    <3> QED BY <1>2, <3>0, <3>1, <3>2 DEF Transaction
  <2> HIDE DEF new
  <2>3. Marks(new) = Marks(j)
    BY <2>2 DEF Marks
  <2>4. Shaped(new) /\ (Current(j) => Current(new))
    BY <1>1, <1>2, <2>1, <2>2, <2>3 DEF Shaped, Current, N!ResidentOps, Arrivals, Leavings
  <2>5. \A k : /\ N!TouchedBy(k)' = N!TouchedBy(k) /\ Share(k, j) = Share(k, new)
               /\ Share(j, k) = Share(new, k) /\ Shaped(k)' = Shaped(k) /\ Current(k)' = Current(k)
    <3>1. \A k : Share(k, j) = Share(k, new) /\ Share(j, k) = Share(new, k)
      BY <2>2, SameRows DEF Share
    <3>2. \A k : N!TouchedBy(k)' = N!TouchedBy(k) /\ Shaped(k)' = Shaped(k)
      BY <1>1 DEF Shaped, N!TouchedBy
    <3>3. ASSUME NEW k PROVE Marks(k)' = Marks(k)
      BY <1>1 DEF Marks, N!Live, N!ActiveIn, N!Arrival, N!Departure
    <3>4. /\ \A x : N!Live(x)' = N!Live(x) /\ N!ActiveIn(x)' = N!ActiveIn(x)
          /\ \A a : N!AreaAssignable(a)' = N!AreaAssignable(a) /\ N!ActiveHouses(a)' = N!ActiveHouses(a)
          /\ \A x : N!HouseAssignable(x)' = N!HouseAssignable(x)
          /\ \A x, s : N!StatusAllowed(x, s)' = N!StatusAllowed(x, s)
      BY <1>1 DEF N!Live, N!ActiveIn, N!AreaAssignable, N!HouseAssignable, N!StatusAllowed,
         N!ActiveHouses
    <3>5. ASSUME NEW k PROVE Current(k)' = Current(k)
      BY <1>1, <3>3, <3>4 DEF Current
    <3> QED BY <3>1, <3>2, <3>5
  <2>6. N!TouchedBy(new) = N!TouchedBy(j)
    BY <2>2, SameRows
  <2>7. \A g \in Requests : job'[g] = IF g = h THEN new ELSE job[g]
    BY <1>5 DEF RegisterTyped
  <2>8. RegisterTyped'
    BY <1>1, <1>5, <2>2 DEF RegisterTyped
  <2>9. SharedIsContested'
    <3> SUFFICES ASSUME NEW f \in Requests, NEW g \in Requests, f # g, Share(job[f], job[g])'
                 PROVE  /\ ~job'[f].alone /\ ~job'[g].alone
                        /\ N!TouchedBy(job[f])' \cup N!TouchedBy(job[g])' \subseteq contested'
      BY DEF SharedIsContested
    <3>1. \A e \in Requests : /\ N!TouchedBy(job[e])' = N!TouchedBy(job[e])
                              /\ job'[e].resident = job[e].resident
                              /\ job'[e].alone = job[e].alone
      BY <2>2, <2>5, <2>6, <2>7
    <3>2. Share(job[f], job[g])
      BY <3>1 DEF Share
    <3> QED BY <1>1, <3>1, <3>2 DEF SharedIsContested
  <2>10. ReadsAreCurrent'
    <3> SUFFICES ASSUME NEW g \in Requests
                 PROVE  Shaped(job[g])' /\ (Undisturbed(job[g])' => Current(job[g])')
      BY DEF ReadsAreCurrent
    <3>1. CASE g = h
      <4>1. Undisturbed(job[g])' => Undisturbed(j)
        BY <1>1, <2>2, <2>5, <2>6, <2>7, <3>1 DEF Undisturbed
      <4> QED BY <1>2, <2>4, <2>5, <2>7, <3>1, <4>1
    <3>2. CASE g # h
      <4>1. Undisturbed(job[g])' => Undisturbed(job[g])
        BY <1>1, <2>5, <2>7, <3>2 DEF Undisturbed
      <4> QED BY <2>5, <2>7, <3>2, <4>1 DEF ReadsAreCurrent
    <3> QED BY <3>1, <3>2
  <2> QED BY <1>3, <2>8, <2>9, <2>10
<1> QED BY <1>1, <1>4, <1>5

(* What a commit of a transaction of a resident changes, whoever else       *)
(* touched its rows: rows of its own.                                       *)
LEMMA ResidentCommitIsLocal ==
  ASSUME RegisterInv, NEW h \in Requests, N!CommitResident(h)
  PROVE  /\ RegisterTyped' /\ HomesExist'
         /\ \A r \in Residents :
              \/ resident'[r] = resident[r]
              \/ /\ r = job[h].resident
                 /\ resident'[r].house \in N!TouchedBy(job[h])
                 /\ resident'[r].status # "NONE"
         /\ \A x \in Houses :
              /\ house'[x] = house[x] \/ x \in N!TouchedBy(job[h])
              /\ house'[x].area = house[x].area /\ N!Live(x)' = N!Live(x)
              /\ N!ActiveIn(x)' = N!ActiveIn(x) \/ x \in N!TouchedBy(job[h])
              /\ house[x].status # "NONE" => house'[x].status # "NONE"
         /\ \A a \in Areas : N!ActiveHouses(a)' \subseteq N!ActiveHouses(a)
<1> USE DEF RegisterInv
<1> DEFINE j == job[h]
           r == j.resident
           mine == N!TouchedBy(j)
<1>0. None \notin Residents \cup Houses
  BY NothingIsNobody
<1>1. /\ j \in Transaction /\ Shaped(j) /\ j.written /\ j.op \in N!ResidentOps
      /\ r \in Residents
  BY DEF N!CommitResident, RegisterTyped, ReadsAreCurrent, Shaped
<1>2. /\ resident[r].house # None => resident[r].house \in mine
      /\ j.to # None => j.to \in mine
      /\ j.from # None => j.from \in mine
  BY <1>0, <1>1 DEF N!TouchedBy
<1>3. \A s \in Residents : s # r => resident'[s] = resident[s]
  BY <1>1 DEF N!CommitResident, RegisterTyped
<1>4. /\ resident'[r] \in [status : {"ACTIVE", "ARCHIVED"}, house : Houses]
      /\ resident'[r].house \in mine
      /\ house[resident'[r].house].status # "NONE"
  <2>1. CASE j.op \in {"archiveResident", "reactivateResident"}
    <3>1. resident[r].status # "NONE"
      BY <1>1, <2>1 DEF Shaped
    <3>2. resident[r].house \in Houses /\ house[resident[r].house].status # "NONE"
      BY <1>1, <3>1 DEF HomesExist
    <3>3. /\ resident'[r].house = resident[r].house
          /\ resident'[r] \in [status : {"ACTIVE", "ARCHIVED"}, house : Houses]
      BY <1>1, <2>1, <3>2 DEF N!CommitResident, RegisterTyped
    <3> QED BY <1>0, <1>2, <3>2, <3>3
  <2>2. CASE j.op \in {"createResident", "moveResident"}
    <3>1. j.to \in Houses /\ house[j.to].status # "NONE"
      BY <1>1, <2>2 DEF Shaped, Arrivals
    <3>2. resident'[r] = [status |-> "ACTIVE", house |-> j.to]
      BY <1>0, <1>1, <2>2, <3>1 DEF N!CommitResident, RegisterTyped
    <3> QED BY <1>0, <1>2, <3>1, <3>2
  <2> QED BY <1>1, <2>1, <2>2 DEF N!ResidentOps
<1>5. DOMAIN j.marks \subseteq mine \cap Houses /\ j.marks \in [DOMAIN j.marks -> {"OCCUPIED", "EMPTY"}]
  BY <1>0, <1>1, <1>2 DEF Shaped, Transaction
<1>6. \A x \in Houses :
        /\ house'[x] \in [status : N!HouseStatuses \cup {"NONE"}, area : Areas \cup {None},
                          deleted : BOOLEAN]
        /\ house'[x].area = house[x].area /\ house'[x].deleted = house[x].deleted
        /\ \/ house'[x] = house[x]
           \/ x \in DOMAIN j.marks /\ house'[x].status \in {"OCCUPIED", "EMPTY"}
  BY <1>5 DEF N!CommitResident, RegisterTyped, N!HouseStatuses
<1>7. \A x \in DOMAIN j.marks : house[x].status # "NONE"
  BY <1>0, <1>1, <1>5 DEF Shaped, N!ResidentOps, Arrivals, Leavings
<1>8. RegisterTyped'
  <2>1. house' \in [Houses -> [status : N!HouseStatuses \cup {"NONE"}, area : Areas \cup {None},
                               deleted : BOOLEAN]]
    BY <1>6 DEF N!CommitResident
  <2>2. resident' \in [Residents -> [status : {"NONE", "ACTIVE", "ARCHIVED"},
                                     house : Houses \cup {None}]]
    BY <1>3, <1>4 DEF N!CommitResident, RegisterTyped
  <2>3. area' = area /\ job' \in [Requests -> Transaction]
    BY IdleIsATransaction DEF N!CommitResident, RegisterTyped
  <2> QED BY <2>1, <2>2, <2>3 DEF RegisterTyped
<1>9. HomesExist'
  BY <1>3, <1>4, <1>6, <1>7 DEF HomesExist
<1>10. \A x \in Houses : N!Live(x)' = N!Live(x)
  BY <1>6, <1>7 DEF N!Live
<1>11. ASSUME NEW x \in Houses, x \notin mine PROVE N!ActiveIn(x)' = N!ActiveIn(x)
  <2>1. resident[r].house # x /\ resident'[r].house # x
    BY <1>0, <1>2, <1>4, <1>11
  <2> QED BY <1>3, <2>1 DEF N!ActiveIn
<1>12. ASSUME NEW a \in Areas, NEW x \in N!ActiveHouses(a)' PROVE x \in N!ActiveHouses(a)
  <2>1. x \in Houses /\ N!Live(x)' /\ house'[x].area = a /\ house'[x].status # "INACTIVE"
    BY <1>12 DEF N!ActiveHouses
  <2>2. N!Live(x) /\ house[x].area = a
    BY <1>6, <1>10, <2>1
  <2> QED BY <2>1, <2>2 DEF N!ActiveHouses, N!Live, HomesExist
<1> QED BY <1>1, <1>3, <1>4, <1>5, <1>6, <1>7, <1>8, <1>9, <1>10, <1>11, <1>12

(* Undisturbed, it leaves each of its houses that is live as its residents  *)
(* have it.                                                                 *)
LEMMA ResidentCommitSettles ==
  ASSUME RegisterInv, NEW h \in Requests, N!CommitResident(h),
         NEW x \in Houses, x \in N!TouchedBy(job[h]), x \notin contested'
  PROVE  /\ house'[x].deleted = FALSE
         /\ house'[x].status = "OCCUPIED" <=> N!ActiveIn(x)' # {}
<1> USE DEF RegisterInv
<1> DEFINE j == job[h]
           r == j.resident
<1>0. None \notin Residents \cup Houses
  BY NothingIsNobody
<1>1. /\ j \in Transaction /\ Shaped(j) /\ j.written /\ j.op \in N!ResidentOps
      /\ r \in Residents
      /\ house[x].status \in N!HouseStatuses \cup {"NONE"} /\ house[x].deleted \in BOOLEAN
  BY DEF N!CommitResident, RegisterTyped, ReadsAreCurrent, Shaped
<1>2. \/ x \notin contested
      \/ /\ j.alone /\ N!Live(x)
         /\ x = j.to \/ (x = j.from /\ N!ActiveIn(x) \subseteq {r})
  BY DEF N!CommitResident, N!PutRight
<1>3. Current(j)
  BY <1>1, <1>2 DEF ReadsAreCurrent, Undisturbed
<1>4. /\ \A s \in Residents : s # r => resident'[s] = resident[s]
      /\ j.op \in {"createResident", "moveResident"} =>
           resident'[r] = [status |-> "ACTIVE", house |-> j.to]
      /\ j.op = "archiveResident" => resident'[r] = [status |-> "ARCHIVED", house |-> j.from]
      /\ j.op = "reactivateResident" => resident'[r] = [status |-> "ACTIVE", house |-> j.to]
  BY <1>0, <1>1, <1>3 DEF N!CommitResident, RegisterTyped, Shaped, Current, Arrivals, Leavings
<1>5. /\ house'[x] = IF x \in DOMAIN Marks(j) THEN [house[x] EXCEPT !.status = Marks(j)[x]]
                     ELSE house[x]
  BY <1>1, <1>3 DEF N!CommitResident, Current
<1>6. (x = j.to /\ j.op \in Arrivals) \/ (x = j.from /\ j.op \in Leavings)
  <2>1. resident[r].house = None \/ resident[r].house = j.from \/ resident[r].house = j.to
    BY <1>1, <1>3 DEF Current, N!NoResident, N!ResidentOps, Arrivals, Leavings
  <2>2. x \in {j.from, j.to, j.area} \/ x = resident[r].house
    BY <1>0, <1>1 DEF N!TouchedBy
  <2>3. x # j.area
    BY <1>1, AreasAreNoHouses, NothingIsNobody DEF Transaction
  <2> QED BY <1>0, <1>1, <2>1, <2>2, <2>3 DEF Shaped, N!ResidentOps, Arrivals, Leavings
<1>7. CASE x = j.to /\ j.op \in Arrivals
  <2>1. N!Live(x) /\ house[x].status \in {"EMPTY", "OCCUPIED"}
    BY <1>1, <1>3, <1>7 DEF Current, N!HouseAssignable, N!Live, N!HouseStatuses
  <2>2. r \in N!ActiveIn(x)'
    BY <1>1, <1>4, <1>7 DEF N!ActiveIn, Arrivals
  <2>3. j.from # x
    BY <1>0, <1>1, <1>7 DEF Shaped, Arrivals, Leavings
  <2>4. /\ x \in DOMAIN Marks(j) <=> house[x].status = "EMPTY"
        /\ house[x].status = "EMPTY" => Marks(j)[x] = "OCCUPIED"
    BY <1>0, <1>7, <2>1, <2>3 DEF Marks, N!Departure, N!Arrival
  <2>5. house'[x].status = "OCCUPIED" /\ house'[x].deleted = house[x].deleted
    BY <1>5, <2>1, <2>4 DEF RegisterTyped
  <2> QED BY <1>1, <2>1, <2>2, <2>5 DEF N!Live
<1>8. CASE x = j.from /\ j.op \in Leavings
  <2>1. j.to # x /\ r \in N!ActiveIn(x)
    BY <1>1, <1>3, <1>8 DEF Shaped, Current, N!ActiveIn
  <2>2. N!ActiveIn(x)' = N!ActiveIn(x) \ {r}
    BY <1>1, <1>4, <1>8, <2>1 DEF N!ActiveIn, Leavings
  <2>3. N!Live(x) /\ house[x].status \in {"EMPTY", "OCCUPIED"}
    <3>1. ~house[x].deleted
      BY <1>1, <1>2, <2>1 DEF N!ArchivedIsVacant, N!Live
    <3> QED BY <1>1, <1>8, <3>1 DEF Shaped, HomesExist, N!Live, N!HouseStatuses
  <2>4. x \in DOMAIN Marks(j) <=> N!ActiveIn(x) \ {r} = {} /\ house[x].status = "OCCUPIED"
    BY <1>0, <1>8, <2>1, <2>3 DEF Marks, N!Departure, N!Arrival
  <2>5. x \in DOMAIN Marks(j) => Marks(j)[x] = "EMPTY"
    BY <2>1 DEF Marks, N!Departure, N!Arrival
  <2>6. /\ house'[x].deleted = house[x].deleted
        /\ house'[x].status = IF x \in DOMAIN Marks(j) THEN "EMPTY" ELSE house[x].status
    BY <1>5, <2>5 DEF RegisterTyped
  <2>7. CASE N!ActiveIn(x) \ {r} = {}
    BY <1>1, <2>2, <2>3, <2>4, <2>6, <2>7 DEF N!Live
  <2>8. CASE N!ActiveIn(x) \ {r} # {}
    <3>1. house[x].status = "OCCUPIED"
      BY <1>2, <2>1, <2>3, <2>8 DEF N!OccupancyIsDerived
    <3> QED BY <1>1, <2>2, <2>3, <2>4, <2>6, <2>8, <3>1 DEF N!Live
  <2> QED BY <2>7, <2>8
<1> QED BY <1>6, <1>7, <1>8

LEMMA CommitResidentStep ==
  ASSUME RegisterInv, NEW h \in Requests, N!CommitResident(h)
  PROVE  RegisterInv'
<1> USE DEF RegisterInv
<1> DEFINE j == job[h]
<1>1. /\ job' = [job EXCEPT ![h] = N!Idle] /\ area' = area
      /\ contested' = contested \ N!PutRight(j) /\ j.op \in N!ResidentOps
      /\ j \in Transaction
  BY DEF N!CommitResident, ReadsAreCurrent, Shaped, RegisterTyped
<1>2. \A x \in N!PutRight(j) : x \in Houses /\ j.alone /\ x \in N!TouchedBy(j)
  BY NothingIsNobody DEF N!PutRight, N!TouchedBy
<1>3. SharedIsContested' /\ ReadsAreCurrent'
  <2>1. \/ contested' = contested
        \/ /\ contested' \subseteq contested /\ j.alone
           /\ contested \ contested' \subseteq N!TouchedBy(j)
    BY <1>1, <1>2
  <2> QED BY <1>1, <2>1, ResidentCommitIsLocal, OthersGoOn
<1>4. ASSUME NEW x \in Houses \ contested', N!Live(x)'
      PROVE  house'[x].status = "OCCUPIED" <=> N!ActiveIn(x)' # {}
  <2>1. CASE x \in N!TouchedBy(j)
    BY <2>1, ResidentCommitSettles
  <2>2. CASE x \notin N!TouchedBy(j)
    <3>1. x \notin contested
      BY <1>1, <1>2, <2>2
    <3> QED BY <1>4, <2>2, <3>1, ResidentCommitIsLocal DEF N!OccupancyIsDerived
  <2> QED BY <2>1, <2>2
<1>5. ASSUME NEW x \in Houses \ contested', house'[x].deleted
      PROVE  N!ActiveIn(x)' = {} /\ house'[x].status = "INACTIVE"
  <2>1. x \notin N!TouchedBy(j)
    BY <1>5, ResidentCommitSettles
  <2>2. x \notin contested
    BY <1>1, <1>2, <2>1
  <2> QED BY <1>5, <2>1, <2>2, ResidentCommitIsLocal DEF N!ArchivedIsVacant
<1>6. ASSUME NEW a \in Areas \ contested', area'[a] = "ARCHIVED", NEW x \in Houses,
             N!Live(x)', house'[x].area = a
      PROVE  FALSE
  <2>1. a \notin contested
    BY <1>1, <1>2, AreasAreNoHouses
  <2> QED BY <1>1, <1>6, <2>1, ResidentCommitIsLocal DEF N!ArchivedIsVacant
<1>7. N!OccupancyIsDerived' /\ N!ArchivedIsVacant'
  BY <1>4, <1>5, <1>6 DEF N!OccupancyIsDerived, N!ArchivedIsVacant
<1> QED BY <1>3, <1>7, ResidentCommitIsLocal

(* The handlers of houses write the house that was read.                    *)
LEMMA CommitHouseStep ==
  ASSUME RegisterInv, NEW h \in Requests, N!CommitHouse(h)
  PROVE  RegisterInv'
<1> USE DEF RegisterInv
<1> DEFINE j == job[h]
           mine == N!TouchedBy(j)
<1> PICK y : y = j.to
  OBVIOUS
<1>0. None \notin Residents \cup Houses \cup Areas
  BY NothingIsNobody
<1>1. /\ j.op \in {"createHouse", "updateHouse", "archiveHouse"}
      /\ j \in Transaction /\ Shaped(j) /\ j.to = y /\ y \in Houses /\ y \in mine
      /\ j.area # None => j.area \in mine
      /\ UNCHANGED <<area, resident, contested>> /\ job' = [job EXCEPT ![h] = N!Idle]
      /\ house[y].status \in N!HouseStatuses \cup {"NONE"} /\ house[y].deleted \in BOOLEAN
      /\ house[y].area \in Areas \cup {None}
      /\ j.area \in Areas \cup {None}
  BY <1>0 DEF N!CommitHouse, RegisterTyped, ReadsAreCurrent, Shaped, N!TouchedBy, Transaction
<1>2. \A x \in Houses : x # y => house'[x] = house[x]
  BY <1>1 DEF N!CommitHouse, RegisterTyped
<1>3. j.op = "createHouse" =>
        /\ house[y].status = "NONE"
        /\ house'[y] = [status |-> "EMPTY", area |-> j.area, deleted |-> FALSE]
  BY <1>1 DEF N!CommitHouse, N!NoHouse, RegisterTyped
<1>4. j.op = "archiveHouse" =>
        /\ house'[y] = [house[y] EXCEPT !.status = "INACTIVE", !.deleted = TRUE]
        /\ house'[y].status = "INACTIVE" /\ house'[y].deleted = TRUE
        /\ house'[y].area = house[y].area
  <2>1. j.op = "archiveHouse" =>
          house'[y] = [house[y] EXCEPT !.status = "INACTIVE", !.deleted = TRUE]
    BY <1>1 DEF N!CommitHouse, RegisterTyped
  <2>2. house[y] \in [status : N!HouseStatuses \cup {"NONE"}, area : Areas \cup {None},
                      deleted : BOOLEAN]
    BY <1>1 DEF RegisterTyped
  <2> QED BY <2>1, <2>2
<1>5. j.op = "updateHouse" =>
        /\ house'[y] \in [status : N!HouseStatuses \cup {"NONE"}, area : Areas \cup {None},
                          deleted : BOOLEAN]
        /\ house'[y].status = IF j.status = None THEN house[y].status ELSE j.status
        /\ house'[y].area = IF j.area = None THEN house[y].area ELSE j.area
        /\ house'[y].deleted = house[y].deleted
  <2>1. j.op = "updateHouse" =>
          house'[y] = [house[y] EXCEPT !.status = IF j.status = None THEN @ ELSE j.status,
                                       !.area = IF j.area = None THEN @ ELSE j.area]
    BY <1>1 DEF N!CommitHouse, RegisterTyped
  <2>2. house[y] \in [status : N!HouseStatuses \cup {"NONE"}, area : Areas \cup {None},
                      deleted : BOOLEAN]
    BY <1>1 DEF RegisterTyped
  <2>3. j.status = None \/ j.status \in N!HouseStatuses
    BY <1>1 DEF Transaction, N!HouseStatuses
  <2> QED BY <1>1, <2>1, <2>2, <2>3
<1>6. /\ house'[y] \in [status : N!HouseStatuses \cup {"NONE"}, area : Areas \cup {None},
                        deleted : BOOLEAN]
      /\ house'[y].status # "NONE"
  <2>1. CASE j.op = "createHouse"
    <3>1. house'[y] = [status |-> "EMPTY", area |-> j.area, deleted |-> FALSE]
      BY <1>3, <2>1
    <3>2. j.area \in Areas \cup {None} /\ "EMPTY" \in N!HouseStatuses
      BY <1>1 DEF N!HouseStatuses
    <3> HIDE DEF j
    <3> QED BY <3>1, <3>2
  <2>2. CASE j.op = "archiveHouse"
    BY <1>1, <1>4, <2>2 DEF N!HouseStatuses, RegisterTyped
  <2>3. CASE j.op = "updateHouse"
    BY <1>1, <1>5, <2>3 DEF Shaped, Transaction
  <2> QED BY <1>1, <2>1, <2>2, <2>3
<1>7. RegisterTyped'
  <2>1. house' \in [Houses -> [status : N!HouseStatuses \cup {"NONE"}, area : Areas \cup {None},
                               deleted : BOOLEAN]]
    BY <1>2, <1>6 DEF N!CommitHouse, RegisterTyped
  <2> QED BY <1>1, <2>1, IdleIsATransaction DEF RegisterTyped
<1>8. \A x \in Houses : N!ActiveIn(x)' = N!ActiveIn(x)
  BY <1>1 DEF N!ActiveIn
<1>9. /\ N!Live(y)' => j.op = "createHouse" \/ (j.op = "updateHouse" /\ N!Live(y))
      /\ j.op = "updateHouse" => house'[y].deleted = house[y].deleted
  BY <1>1, <1>4, <1>5 DEF N!Live, Shaped
<1>10. \A a \in Areas : a \notin mine => N!ActiveHouses(a)' \subseteq N!ActiveHouses(a)
  <2> SUFFICES ASSUME NEW a \in Areas, a \notin mine, NEW x \in N!ActiveHouses(a)'
               PROVE  x \in N!ActiveHouses(a)
    OBVIOUS
  <2>1. x \in Houses /\ N!Live(x)' /\ house'[x].area = a
    BY DEF N!ActiveHouses
  <2>2. CASE x # y
    BY <1>2, <2>2 DEF N!ActiveHouses, N!Live
  <2>3. CASE x = y
    <3>1. j.op # "createHouse"
      BY <1>0, <1>1, <1>3, <2>1, <2>3 DEF Shaped
    <3>2. j.op = "updateHouse" /\ N!Live(y)
      <4>1. N!Live(y)'
        BY <2>1, <2>3
      <4> QED BY <1>9, <3>1, <4>1
    <3>3. house[y].area = a
      BY <1>1, <1>5, <2>1, <2>3, <3>2 DEF RegisterTyped
    <3>4. house[y].status # "INACTIVE"
      BY <1>1, <3>2 DEF HomesExist, N!Live
    <3> QED BY <1>1, <2>3, <3>2, <3>3, <3>4 DEF N!ActiveHouses
  <2> QED BY <2>2, <2>3
<1>11. SharedIsContested' /\ ReadsAreCurrent'
  BY <1>1, <1>2, <1>6, <1>7, <1>8, <1>10, OthersGoOn
<1>12. HomesExist'
  <2>1. house'[y].status = "INACTIVE" => house'[y].deleted
    <3>1. j.op = "createHouse" => house'[y].status # "INACTIVE"
      BY <1>3
    <3>2. j.op = "archiveHouse" => house'[y].deleted
      BY <1>1, <1>4 DEF RegisterTyped
    <3>3. j.op = "updateHouse" => (house'[y].status = "INACTIVE" => house[y].status = "INACTIVE")
      BY <1>1, <1>5 DEF Transaction
    <3> QED BY <1>1, <1>9, <3>1, <3>2, <3>3 DEF HomesExist
  <2> QED BY <1>1, <1>2, <1>6, <2>1 DEF HomesExist
<1>13. y \notin contested \/ (j.area # None /\ j.area \notin contested) => Current(j)
  BY <1>1 DEF ReadsAreCurrent, Undisturbed
<1>14. ASSUME y \notin contested
       PROVE  /\ N!Live(y)' => (house'[y].status = "OCCUPIED" <=> N!ActiveIn(y) # {})
              /\ house'[y].deleted => N!ActiveIn(y) = {} /\ house'[y].status = "INACTIVE"
  <2>1. Current(j)
    BY <1>13, <1>14
  <2>2. CASE j.op = "createHouse"
    <3>1. N!ActiveIn(y) = {}
      BY <1>1, <1>3, <2>2 DEF N!ActiveIn, HomesExist, N!NoResident
    <3> QED BY <1>3, <2>2, <3>1
  <2>3. CASE j.op = "archiveHouse"
    <3>1. house'[y].status = "INACTIVE" /\ house'[y].deleted
      BY <1>1, <1>4, <2>3 DEF RegisterTyped
    <3> QED BY <2>1, <2>3, <3>1 DEF Current, N!Live
  <2>4. CASE j.op = "updateHouse"
    <3>1. N!Live(y) /\ N!StatusAllowed(y, j.status)
      BY <2>1, <2>4 DEF Current
    <3>2. ~house'[y].deleted
      BY <1>9, <2>4, <3>1 DEF N!Live
    <3>3. house[y].status = "OCCUPIED" <=> N!ActiveIn(y) # {}
      BY <1>1, <1>14, <3>1 DEF N!OccupancyIsDerived
    <3>4. house'[y].status = IF j.status = None THEN house[y].status ELSE j.status
      BY <1>1, <1>5, <2>4 DEF RegisterTyped
    <3>5. j.status \in {"EMPTY", "OCCUPIED", None}
      BY <1>1 DEF Transaction
    <3> QED BY <3>1, <3>2, <3>3, <3>4, <3>5 DEF N!StatusAllowed
  <2> QED BY <1>1, <2>2, <2>3, <2>4
<1>15. ASSUME NEW a \in Areas \ contested, area[a] = "ARCHIVED", NEW x \in Houses,
              N!Live(x)', house'[x].area = a
       PROVE  FALSE
  <2>1. CASE x # y
    BY <1>2, <1>15, <2>1 DEF N!ArchivedIsVacant, N!Live
  <2>2. CASE x = y /\ a = j.area
    <3>1. Current(j)
      BY <1>0, <1>13, <1>15, <2>2
    <3>2. j.op \in {"createHouse", "updateHouse"} /\ a # None
      <4>1. N!Live(y)'
        BY <1>15, <2>2
      <4> QED BY <1>0, <1>9, <4>1
    <3>3. area[a] = "ACTIVE"
      BY <2>2, <3>1, <3>2 DEF Current, N!AreaAssignable
    <3> QED BY <1>15, <3>3
  <2>3. CASE x = y /\ a # j.area
    <3>0. N!Live(y)'
      BY <1>15, <2>3
    <3>1. j.op = "updateHouse" /\ N!Live(y)
      BY <1>3, <1>9, <1>15, <2>3, <3>0
    <3>2. house[y].area = a
      BY <1>1, <1>5, <1>15, <2>3, <3>1 DEF RegisterTyped
    <3> QED BY <1>1, <1>15, <3>1, <3>2 DEF N!ArchivedIsVacant
  <2> QED BY <2>1, <2>2, <2>3
<1>16. N!OccupancyIsDerived'
  <2> SUFFICES ASSUME NEW x \in Houses \ contested, N!Live(x)'
               PROVE  house'[x].status = "OCCUPIED" <=> N!ActiveIn(x) # {}
    BY <1>1, <1>8 DEF N!OccupancyIsDerived
  <2>1. CASE x = y
    <3>1. N!Live(y)'
      BY <2>1
    <3> QED BY <1>14, <2>1, <3>1
  <2>2. CASE x # y
    BY <1>1, <1>2, <2>2 DEF N!OccupancyIsDerived, N!Live
  <2> QED BY <2>1, <2>2
<1>17. N!ArchivedIsVacant'
  BY <1>1, <1>2, <1>8, <1>14, <1>15 DEF N!ArchivedIsVacant
<1> QED BY <1>7, <1>11, <1>12, <1>16, <1>17

LEMMA AreaSteps ==
  ASSUME RegisterInv,
         \/ \E a \in Areas : N!CreateArea(a)
         \/ \E h \in Requests : N!CommitArea(h) \/ N!Rollback(h)
         \/ UNCHANGED houses
  PROVE  RegisterInv'
<1> USE DEF RegisterInv
<1>1. ASSUME NEW a \in Areas, N!CreateArea(a) PROVE RegisterInv'
  <2>1. /\ UNCHANGED <<house, resident, job, contested>>
        /\ \A b \in Areas : area'[b] = area[b] \/ (area[b] = "NONE" /\ area'[b] = "ACTIVE")
        /\ area' \in [Areas -> {"NONE", "ACTIVE", "ARCHIVED"}]
    BY <1>1 DEF N!CreateArea, RegisterTyped
  <2>2. \A k \in Transaction : /\ Shaped(k)' = Shaped(k) /\ Share(k, k)' = Share(k, k)
                               /\ Marks(k)' = Marks(k)
                               /\ Shaped(k) /\ Current(k) => Current(k)'
    BY <2>1 DEF Shaped, Current, Marks, Share, N!TouchedBy, N!Live, N!ActiveIn,
       N!AreaAssignable, N!HouseAssignable, N!StatusAllowed, N!ActiveHouses, N!Arrival,
       N!Departure, Transaction
  <2>3. RegisterTyped'
    BY <2>1 DEF RegisterTyped
  <2>4. SharedIsContested'
    BY <2>1 DEF SharedIsContested, Share, N!TouchedBy
  <2>5. ASSUME NEW g \in Requests PROVE Shaped(job[g])' /\ (Undisturbed(job[g])' => Current(job[g])')
    <3>1. PICK k \in Transaction : k = job[g]
      BY DEF RegisterTyped
    <3>2. Shaped(k)' /\ (Undisturbed(k) => Current(k)')
      BY <2>2, <3>1 DEF ReadsAreCurrent
    <3>3. Undisturbed(job[g])' => Undisturbed(k)
      BY <2>1, <3>1 DEF Undisturbed, N!TouchedBy
    <3> QED BY <2>1, <3>1, <3>2, <3>3
  <2>6. ReadsAreCurrent'
    BY <2>5 DEF ReadsAreCurrent
  <2>7. HomesExist' /\ N!OccupancyIsDerived' /\ N!ArchivedIsVacant'
    BY <2>1 DEF HomesExist, N!OccupancyIsDerived, N!ArchivedIsVacant, N!Live, N!ActiveIn
  <2> QED BY <2>3, <2>4, <2>6, <2>7
<1>2. ASSUME NEW h \in Requests, N!CommitArea(h) PROVE RegisterInv'
  <2> DEFINE j == job[h]
             b == j.area
  <2>1. /\ j.op = "archiveArea" /\ b \in Areas /\ b \in N!TouchedBy(j)
        /\ UNCHANGED <<house, resident, contested>> /\ job' = [job EXCEPT ![h] = N!Idle]
        /\ area' = [area EXCEPT ![b] = "ARCHIVED"]
    BY <1>2, NothingIsNobody DEF N!CommitArea, ReadsAreCurrent, Shaped, N!TouchedBy
  <2>2. RegisterTyped' /\ HomesExist'
    BY <2>1, IdleIsATransaction DEF RegisterTyped, HomesExist
  <2>3. SharedIsContested' /\ ReadsAreCurrent'
    <3>1. \A a \in Areas : area'[a] = area[a] \/ a \in N!TouchedBy(j)
      BY <2>1 DEF RegisterTyped
    <3>2. \A x \in Houses : N!ActiveIn(x)' = N!ActiveIn(x)
      BY <2>1 DEF N!ActiveIn
    <3>3. \A a \in Areas : N!ActiveHouses(a)' = N!ActiveHouses(a)
      BY <2>1 DEF N!ActiveHouses, N!Live
    <3> QED BY <2>1, <2>2, <3>1, <3>2, <3>3, OthersGoOn
  <2>4. b \notin contested => N!ActiveHouses(b) = {}
    BY <2>1 DEF ReadsAreCurrent, Undisturbed, Current
  <2>5. N!OccupancyIsDerived' /\ N!ArchivedIsVacant'
    BY <2>1, <2>4 DEF RegisterTyped, N!OccupancyIsDerived, N!ArchivedIsVacant, N!ActiveHouses,
       N!Live, N!ActiveIn, HomesExist
  <2> QED BY <2>2, <2>3, <2>5
<1>3. ASSUME NEW h \in Requests, N!Rollback(h) PROVE RegisterInv'
  <2>1. UNCHANGED <<area, house, resident, contested>> /\ job' = [job EXCEPT ![h] = N!Idle]
    BY <1>3 DEF N!Rollback
  <2>2. RegisterTyped' /\ HomesExist'
    BY <2>1, IdleIsATransaction DEF RegisterTyped, HomesExist
  <2>3. SharedIsContested' /\ ReadsAreCurrent'
    <3>1. \A x \in Houses : N!ActiveIn(x)' = N!ActiveIn(x)
      BY <2>1 DEF N!ActiveIn
    <3>2. \A a \in Areas : N!ActiveHouses(a)' = N!ActiveHouses(a)
      BY <2>1 DEF N!ActiveHouses, N!Live
    <3> QED BY <2>1, <2>2, <3>1, <3>2, OthersGoOn
  <2>4. N!OccupancyIsDerived' /\ N!ArchivedIsVacant'
    BY <2>1 DEF N!OccupancyIsDerived, N!ArchivedIsVacant, N!Live, N!ActiveIn
  <2> QED BY <2>2, <2>3, <2>4
<1>4. CASE UNCHANGED houses
  <2>1. UNCHANGED <<area, house, resident, job, contested>>
    BY <1>4 DEF houses
  <2>2. \A k : Current(k)' = Current(k) /\ Shaped(k)' = Shaped(k)
    BY <2>1 DEF Current, Shaped, Marks, N!Live, N!ActiveIn, N!AreaAssignable, N!HouseAssignable,
       N!StatusAllowed, N!ActiveHouses, N!Arrival, N!Departure
  <2>3. ReadsAreCurrent'
    BY <2>1, <2>2 DEF ReadsAreCurrent, Undisturbed, N!TouchedBy
  <2>4. RegisterTyped' /\ HomesExist'
    BY <2>1 DEF RegisterTyped, HomesExist
  <2>6. SharedIsContested'
    BY <2>1 DEF SharedIsContested, Share, N!TouchedBy
  <2>5. N!OccupancyIsDerived' /\ N!ArchivedIsVacant'
    BY <2>1 DEF N!OccupancyIsDerived, N!ArchivedIsVacant, N!Live, N!ActiveIn
  <2> QED BY <2>3, <2>4, <2>5, <2>6
<1> QED BY <1>1, <1>2, <1>3, <1>4

LEMMA RegisterNext == RegisterInv /\ [N!Next]_houses => RegisterInv'
<1> SUFFICES ASSUME RegisterInv, [N!Next]_houses PROVE RegisterInv'
  OBVIOUS
<1>1. ASSUME NEW h \in Requests, N!HandlerStep(h)
      PROVE  \/ HouseBegins(h) \/ ResidentBegins(h)
             \/ N!WriteResident(h) \/ N!CommitResident(h) \/ N!CommitHouse(h)
             \/ N!CommitArea(h) \/ N!Rollback(h)
  BY <1>1 DEF N!HandlerStep, HouseBegins, ResidentBegins
<1>2. ASSUME NEW h \in Requests, N!HandlerStep(h) PROVE RegisterInv'
  BY <1>1, <1>2, HouseBeginSteps, ResidentBeginSteps, WriteResidentStep, CommitResidentStep,
     CommitHouseStep, AreaSteps
<1> QED BY <1>2, AreaSteps DEF N!Next

(* However the requests overlap, a house that no overlapping requests have  *)
(* left in doubt is OCCUPIED when and only when somebody lives there.       *)
THEOREM OccupancyFollowsResidents == Spec => []OccupancyIsDerived
<1>1. Init => RegisterInv
  BY RegisterInit DEF Init
<1>2. RegisterInv /\ [Next]_vars => RegisterInv'
  BY RegisterNext DEF Next, vars
<1>3. RegisterInv => OccupancyIsDerived
  BY DEF RegisterInv, OccupancyIsDerived
<1> QED BY <1>1, <1>2, <1>3, PTL DEF Spec

(* Nor does anybody live in an archived house, or is a house left in an     *)
(* archived area.                                                           *)
THEOREM NobodyIsArchivedAway == Spec => []ArchivedIsVacant
<1>1. Init => RegisterInv
  BY RegisterInit DEF Init
<1>2. RegisterInv /\ [Next]_vars => RegisterInv'
  BY RegisterNext DEF Next, vars
<1>3. RegisterInv => ArchivedIsVacant
  BY DEF RegisterInv, ArchivedIsVacant
<1> QED BY <1>1, <1>2, <1>3, PTL DEF Spec

(* What is begun is a transaction of the registers. *)
LEMMA BegunIsATransaction ==
  ASSUME RegisterTyped, NEW h \in Requests, HouseBegins(h) \/ ResidentBegins(h)
  PROVE  \E j \in Transaction : N!Begin(h, j)
<1> USE IdleIsBlank DEF Transaction, N!ResidentOps
<1>1. ASSUME NEW x \in Houses, NEW a \in Areas, N!BeginCreateHouse(h, x, a)
      PROVE  \E j \in Transaction : N!Begin(h, j)
  <2> DEFINE j == [N!Idle EXCEPT !.op = "createHouse", !.to = x, !.area = a]
  <2>1. j \in Transaction
    OBVIOUS
  <2> QED BY ONLY <1>1, <2>1 DEF N!BeginCreateHouse
<1>2. ASSUME NEW x \in Houses, NEW a \in Areas \cup {None},
             NEW status \in {"EMPTY", "OCCUPIED", None}, N!BeginUpdateHouse(h, x, a, status)
      PROVE  \E j \in Transaction : N!Begin(h, j)
  <2> DEFINE j == [N!Idle EXCEPT !.op = "updateHouse", !.to = x, !.area = a, !.status = status]
  <2>1. j \in Transaction
    OBVIOUS
  <2> QED BY ONLY <1>2, <2>1 DEF N!BeginUpdateHouse
<1>3. ASSUME NEW x \in Houses, N!BeginArchiveHouse(h, x)
      PROVE  \E j \in Transaction : N!Begin(h, j)
  <2> DEFINE j == [N!Idle EXCEPT !.op = "archiveHouse", !.to = x]
  <2>1. j \in Transaction
    OBVIOUS
  <2> QED BY ONLY <1>3, <2>1 DEF N!BeginArchiveHouse
<1>4. ASSUME NEW a \in Areas, N!BeginArchiveArea(h, a)
      PROVE  \E j \in Transaction : N!Begin(h, j)
  <2> DEFINE j == [N!Idle EXCEPT !.op = "archiveArea", !.area = a]
  <2>1. j \in Transaction
    OBVIOUS
  <2> QED BY ONLY <1>4, <2>1 DEF N!BeginArchiveArea
<1>5. \A r \in Residents : resident[r].house \in Houses \cup {None}
  BY DEF RegisterTyped
<1>6. ASSUME NEW r \in Residents, NEW x \in Houses, N!BeginCreateResident(h, r, x)
      PROVE  \E j \in Transaction : N!Begin(h, j)
  <2> DEFINE j == [N!Idle EXCEPT !.op = "createResident", !.resident = r, !.to = x]
  <2>1. j \in Transaction
    OBVIOUS
  <2> QED BY ONLY <1>6, <2>1 DEF N!BeginCreateResident
<1>7. ASSUME NEW r \in Residents, NEW x \in Houses, N!BeginMoveResident(h, r, x)
      PROVE  \E j \in Transaction : N!Begin(h, j)
  <2> DEFINE j == [N!Idle EXCEPT !.op = "moveResident", !.resident = r,
                                 !.from = resident[r].house, !.to = x]
  <2>1. j \in Transaction
    BY <1>5
  <2> QED BY ONLY <1>7, <2>1 DEF N!BeginMoveResident
<1>8. ASSUME NEW r \in Residents, N!BeginArchiveResident(h, r)
      PROVE  \E j \in Transaction : N!Begin(h, j)
  <2> DEFINE j == [N!Idle EXCEPT !.op = "archiveResident", !.resident = r,
                                 !.from = resident[r].house]
  <2>1. j \in Transaction
    BY <1>5
  <2> QED BY ONLY <1>8, <2>1 DEF N!BeginArchiveResident
<1>9. ASSUME NEW r \in Residents, N!BeginReactivateResident(h, r)
      PROVE  \E j \in Transaction : N!Begin(h, j)
  <2> DEFINE j == [N!Idle EXCEPT !.op = "reactivateResident", !.resident = r,
                                 !.to = resident[r].house]
  <2>1. j \in Transaction
    BY <1>5
  <2> QED BY ONLY <1>9, <2>1 DEF N!BeginReactivateResident
<1> QED BY ONLY <1>1, <1>2, <1>3, <1>4, <1>6, <1>7, <1>8, <1>9, HouseBegins(h) \/ ResidentBegins(h)
       DEF HouseBegins, ResidentBegins

LEMMA TouchedRows ==
  ASSUME RegisterTyped, NEW j \in Transaction
  PROVE  N!TouchedBy(j) \subseteq Areas \cup Houses
<1>1. {j.from, j.to, j.area} \subseteq Areas \cup Houses \cup {None}
  BY DEF Transaction
<1>2. \A r \in Residents : resident[r].house \in Houses \cup {None}
  BY DEF RegisterTyped
<1> QED BY <1>1, <1>2 DEF N!TouchedBy

(* Only areas and houses are contested. *)
LEMMA ContestedRows ==
  ASSUME RegisterInv, contested \subseteq Areas \cup Houses, [N!Next]_houses
  PROVE  contested' \subseteq Areas \cup Houses
<1>1. ASSUME NEW h \in Requests, NEW j \in Transaction, N!Begin(h, j)
      PROVE  contested' \subseteq Areas \cup Houses
  <2>1. contested' =
          contested \cup UNION {N!TouchedBy(j) \cup N!TouchedBy(job[g]) : g \in N!Rivals(j)}
    BY <1>1 DEF N!Begin
  <2>2. RegisterTyped /\ \A g \in N!Rivals(j) : job[g] \in Transaction
    BY DEF RegisterInv, RegisterTyped, N!Rivals
  <2> QED BY <2>1, <2>2, TouchedRows
<1>2. ASSUME NEW h \in Requests,
             \/ N!WriteResident(h) \/ N!CommitResident(h) \/ N!CommitHouse(h)
             \/ N!CommitArea(h) \/ N!Rollback(h)
      PROVE  contested' \subseteq contested
  BY <1>2 DEF N!WriteResident, N!CommitResident, N!CommitHouse, N!CommitArea, N!Rollback
<1>3. ASSUME NEW a \in Areas, N!CreateArea(a)
      PROVE  contested' = contested
  BY <1>3 DEF N!CreateArea
<1>4. ASSUME NEW h \in Requests, N!HandlerStep(h)
      PROVE  \/ HouseBegins(h) \/ ResidentBegins(h)
             \/ N!WriteResident(h) \/ N!CommitResident(h) \/ N!CommitHouse(h)
             \/ N!CommitArea(h) \/ N!Rollback(h)
  BY <1>4 DEF N!HandlerStep, HouseBegins, ResidentBegins
<1>5. ASSUME NEW h \in Requests, N!HandlerStep(h)
      PROVE  contested' \subseteq Areas \cup Houses
  <2>1. CASE HouseBegins(h) \/ ResidentBegins(h)
    BY <1>1, <2>1, BegunIsATransaction DEF RegisterInv
  <2> QED BY <1>2, <1>4, <1>5, <2>1
<1>6. CASE UNCHANGED houses
  BY <1>6 DEF houses
<1> QED BY <1>3, <1>5, <1>6 DEF N!Next

LEMMA RegisterIsTyped ==
  ASSUME RegisterInv, contested \subseteq Areas \cup Houses PROVE N!TypeOK
<1>1. ASSUME NEW h \in Requests
      PROVE  /\ job[h].op \in N!ResidentOps \cup
                  {"idle", "createHouse", "updateHouse", "archiveHouse", "archiveArea"}
             /\ job[h].written \in BOOLEAN /\ job[h].alone \in BOOLEAN
             /\ job[h].resident \in Residents \cup {None}
             /\ {job[h].from, job[h].to} \subseteq Houses \cup {None}
             /\ job[h].area \in Areas \cup {None}
             /\ DOMAIN job[h].marks \subseteq Houses
             /\ N!Range(job[h].marks) \subseteq {"OCCUPIED", "EMPTY"}
  <2>1. job[h] \in Transaction
    BY DEF RegisterInv, RegisterTyped
  <2>2. PICK S \in SUBSET Houses : job[h].marks \in [S -> {"OCCUPIED", "EMPTY"}]
    BY <2>1 DEF Transaction
  <2>3. /\ DOMAIN job[h].marks \subseteq Houses
        /\ N!Range(job[h].marks) \subseteq {"OCCUPIED", "EMPTY"}
    BY <2>2 DEF N!Range
  <2> QED BY <2>1, <2>3 DEF Transaction
<1> QED BY <1>1 DEF N!TypeOK, RegisterInv, RegisterTyped

(* The registers hold rows of their kinds, and requests transactions of     *)
(* theirs.                                                                  *)
THEOREM RegistersAreTyped == Spec => [](N!TypeOK /\ M!TypeOK)
<1> DEFINE Inv == RegisterInv /\ contested \subseteq Areas \cup Houses /\ M!TypeOK /\ Recorded
<1>1. Init => Inv
  BY RegisterInit, TypeInit DEF Init, N!Init
<1>2. Inv /\ [Next]_vars => Inv'
  <2> SUFFICES ASSUME Inv, [Next]_vars PROVE Inv'
    OBVIOUS
  <2>1. [N!Next]_houses /\ [M!Next]_members
    BY DEF Next, vars
  <2> QED BY <2>1, RegisterNext, ContestedRows, TypeNext
<1>3. Inv => N!TypeOK /\ M!TypeOK
  BY RegisterIsTyped
<1> HIDE DEF Inv
<1> QED BY <1>1, <1>2, <1>3, PTL DEF Spec
=============================================================================
