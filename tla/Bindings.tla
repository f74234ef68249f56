------------------------------ MODULE Bindings ------------------------------
(***************************************************************************)
(* Telegram bindings of one RT: which account speaks for which member and  *)
(* which resident.  Members bind their account with a code, in the         *)
(* telegram module; the residents module writes the same table when a      *)
(* resident is given an account.  Transactions run READ COMMITTED: what    *)
(* they read may have changed when they write.                             *)
(***************************************************************************)
EXTENDS Naturals, FiniteSets

CONSTANTS
  Members,    (* memberships *)
  Telegrams,  (* Telegram accounts *)
  Residents,
  Codes,
  None        (* null *)

VARIABLES
  active,     (* memberships that are active, of active users *)
  archived,   (* residents that are archived *)
  codes,      (* the settings that hold a code: what it binds, or None *)
  bindings,   (* telegram_bindings by account: member and resident, or None *)
  verifying,  (* /bind in progress, by account: code, member and resident *)
  usedBy      (* history: the accounts that each code has bound *)

vars == <<active, archived, codes, bindings, verifying, usedBy>>

Binding(m, x) == [member |-> m, resident |-> x]
Someone(S) == S \cup {None}

-----------------------------------------------------------------------------
(* Codes. *)

(* createBindingCode *)
CreateCode(c, m, x) ==
  /\ usedBy[c] = {}
  /\ codes[c] = None
  /\ m \in active
  /\ x \notin archived
  /\ codes' = [codes EXCEPT ![c] = [member |-> m, resident |-> x, expired |-> FALSE]]
  /\ UNCHANGED <<active, archived, bindings, verifying, usedBy>>

ExpireCode(c) ==
  /\ codes[c] # None
  /\ ~codes[c].expired
  /\ codes' = [codes EXCEPT ![c].expired = TRUE]
  /\ UNCHANGED <<active, archived, bindings, verifying, usedBy>>

(* The member is bound to another account. *)
IsTaken(a, m) == \E b \in Telegrams \ {a} : bindings[b] # None /\ bindings[b].member = m

(* verifyBindingCode's reads.  An expired code is deleted.                 *)
BeginVerify(a, c) ==
  /\ verifying[a] = None
  /\ codes[c] # None
  /\ IF codes[c].expired
     THEN codes' = [codes EXCEPT ![c] = None] /\ UNCHANGED verifying
     ELSE /\ codes[c].member \in active
          /\ codes[c].resident \notin archived
          /\ ~IsTaken(a, codes[c].member)
          /\ verifying' = [verifying EXCEPT ![a] =
               [code |-> c, member |-> codes[c].member, resident |-> codes[c].resident]]
          /\ UNCHANGED codes
  /\ UNCHANGED <<active, archived, bindings, usedBy>>

(* Mutant of Conflicts: the resident's index only. *)
ResidentConflicts(a, m, x) ==
  m \in Members /\ x # None /\
    \E b \in Telegrams \ {a} : bindings[b] # None /\ bindings[b].resident = x

(* The unique indexes on (rtId, membershipId) and (rtId, residentId): a row *)
(* of another account, also one that was not there when it was looked for. *)
Conflicts(a, m, x) ==
  \E b \in Telegrams \ {a} :
    /\ bindings[b] # None
    /\ \/ m # None /\ bindings[b].member = m
       \/ x # None /\ bindings[b].resident = x

(* setting.delete finds no row any more and fails, with all it belongs to. *)
IsUsedUp(c) == codes[c] = None

(* The writes of verifyBindingCode, or its rollback *)
EndVerify(a) ==
  LET v == verifying[a] IN
  /\ v # None
  /\ verifying' = [verifying EXCEPT ![a] = None]
  /\ IF IsUsedUp(v.code) \/ Conflicts(a, v.member, v.resident)
     THEN UNCHANGED <<codes, bindings, usedBy>>
     ELSE /\ bindings' = [bindings EXCEPT ![a] = Binding(v.member, v.resident)]
          /\ codes' = [codes EXCEPT ![v.code] = None]
          /\ usedBy' = [usedBy EXCEPT ![v.code] = @ \cup {a}]
  /\ UNCHANGED <<active, archived>>

-----------------------------------------------------------------------------
(* Residents' accounts. *)

(* Mutant of Without: the rows stay and name nobody. *)
WithoutName(x) ==
  [a \in Telegrams |-> IF bindings[a] # None /\ bindings[a].resident = x
                       THEN Binding(bindings[a].member, None) ELSE bindings[a]]

(* deleteMany of the resident's rows *)
Without(x) ==
  [a \in Telegrams |-> IF bindings[a] # None /\ bindings[a].resident = x THEN None
                       ELSE bindings[a]]

(* assertTelegramAccountBindableInTransaction and the unique index on the  *)
(* account: no row of the account but the resident's own.                  *)
IsBindable(x, a) == bindings[a] # None => bindings[a].resident = x

(* createResident and updateResident with an account: replaceTelegramBinding *)
BindResident(x, a) ==
  /\ x \notin archived
  /\ IsBindable(x, a)
  /\ bindings' = [Without(x) EXCEPT ![a] = Binding(None, x)]
  /\ UNCHANGED <<active, archived, codes, verifying, usedBy>>

(* updateResident with telegramAccountId null *)
UnbindResident(x) ==
  /\ x \notin archived
  /\ bindings' = Without(x)
  /\ UNCHANGED <<active, archived, codes, verifying, usedBy>>

(* archiveResident and reactivateResident leave the binding as it is.      *)
ArchiveResident(x) ==
  /\ x \notin archived
  /\ archived' = archived \cup {x}
  /\ UNCHANGED <<active, codes, bindings, verifying, usedBy>>

ReactivateResident(x) ==
  /\ x \in archived
  /\ archived' = archived \ {x}
  /\ UNCHANGED <<active, codes, bindings, verifying, usedBy>>

(* disableMembership, updateUser with a status *)
SetActive(m, status) ==
  /\ active' = IF status THEN active \cup {m} ELSE active \ {m}
  /\ UNCHANGED <<archived, codes, bindings, verifying, usedBy>>

-----------------------------------------------------------------------------

Init ==
  /\ active = Members
  /\ archived = {}
  /\ codes = [c \in Codes |-> None]
  /\ bindings = [a \in Telegrams |-> None]
  /\ verifying = [a \in Telegrams |-> None]
  /\ usedBy = [c \in Codes |-> {}]

Next ==
  \/ \E c \in Codes :
       \/ \E m \in Members, x \in Someone(Residents) : CreateCode(c, m, x)
       \/ ExpireCode(c)
       \/ \E a \in Telegrams : BeginVerify(a, c)
  \/ \E a \in Telegrams : EndVerify(a) \/ \E x \in Residents : BindResident(x, a)
  \/ \E x \in Residents : UnbindResident(x) \/ ArchiveResident(x) \/ ReactivateResident(x)
  \/ \E m \in Members, status \in BOOLEAN : SetActive(m, status)

Spec == Init /\ [][Next]_vars

-----------------------------------------------------------------------------
(* Properties. *)

Bound == [member : Someone(Members), resident : Someone(Residents)]
Coded == [member : Members, resident : Someone(Residents), expired : BOOLEAN]
Verified == [code : Codes, member : Members, resident : Someone(Residents)]

(* What the rows hold: a binding names a member or a resident. *)
TypeOK ==
  /\ active \subseteq Members
  /\ archived \subseteq Residents
  /\ codes \in [Codes -> Coded \cup {None}]
  /\ bindings \in [Telegrams -> (Bound \ {Binding(None, None)}) \cup {None}]
  /\ verifying \in [Telegrams -> Verified \cup {None}]
  /\ usedBy \in [Codes -> SUBSET Telegrams]

(* A member and a resident speak through one account each, though codes of *)
(* one member are verified by several accounts at the same time.           *)
OneAccountEach ==
  \A a, b \in Telegrams : a # b /\ bindings[a] # None /\ bindings[b] # None =>
    /\ bindings[a].member # None => bindings[a].member # bindings[b].member
    /\ bindings[a].resident # None => bindings[a].resident # bindings[b].resident

(* A code binds one account, also when two send it at the same time.       *)
CodeBindsOnce == \A c \in Codes : Cardinality(usedBy[c]) <= 1

(* A member's binding that names no resident is not touched by what is done *)
(* to residents: it ends only when its account is bound with another code. *)
MembersKeepTheirAccount ==
  [][\A a \in Telegrams :
       bindings[a] # None /\ bindings[a].resident = None /\ bindings'[a] # bindings[a] =>
         verifying[a] # None /\ verifying'[a] = None]_vars
=============================================================================
