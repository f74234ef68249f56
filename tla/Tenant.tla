------------------------------- MODULE Tenant -------------------------------
(***************************************************************************)
(* The components of one RT beside one another: houses and residents,      *)
(* Telegram bindings, members and their rights, posts, images, the creation *)
(* of notifications, and reports of the ledger.  What one takes from        *)
(* another (whether a member is active, a resident archived or a post       *)
(* deleted) it has as a change that may come at any time, so a behaviour of *)
(* all shows no more than behaviours of one at a time do: "part" names the  *)
(* one that is at work.                                                    *)
(***************************************************************************)
EXTENDS Naturals, FiniteSets

CONSTANTS
  Areas, Houses, Residents,
  Members, Telegrams, Codes,
  Users, Roles, SuperAdmin, Permissions, Manage, Owner, Deputy, Office, MaxRequests,
  Posts, Suffixes, Visitors, Reactions,
  Images, MaxFaults,
  Keys, Under, Long, Targets, Commands, Command,
  Accounts, Amounts, MaxEntries, MaxDay,
  Requests,  (* requests that are handled at the same time *)
  None       (* null *)

ASSUME NothingIsNobody ==
  None \notin Areas \cup Houses \cup Residents \cup Members \cup Posts \cup Images
ASSUME AreasAreNoHouses == Areas \cap Houses = {}
ASSUME SuperAdminIsApart == SuperAdmin \notin Roles
ASSUME ManageIsAPermission == Manage \in Permissions
ASSUME OfficersAreUsers == Owner \in Users /\ Deputy \in Users /\ Owner # Deputy
ASSUME OfficeIsARole == Office \in Roles
ASSUME BoundsAreNumbers == MaxRequests \in Nat /\ Suffixes \in Nat /\ MaxFaults \in Nat

VARIABLES
  part,
  area, house, resident, job, contested,
  active, archived, codes, bindings, verifying, usedBy,
  users, memberships, roles, permissions, administration, begun, given, appointed, asked,
  posts, rows, editing, hurried, refused,
  existing, images, files, upload, faults, crowded, leaked, bare,
  notices, calls,
  day, closed, counted, entries, drawn, report

N == INSTANCE Neighbourhood WITH Handlers <- Requests
B == INSTANCE Bindings
M == INSTANCE Members WITH request <- administration
C == INSTANCE Content WITH request <- editing
A == INSTANCE Attachments WITH request <- upload
T == INSTANCE Notices WITH request <- calls
R == INSTANCE Reports WITH archived <- closed

ASSUME VisitorsAreFinite == IsFiniteSet(Visitors)
ASSUME NothingIsNoRow == None \notin C!PostRow \cup A!ImageRow
ASSUME CommandsAreTyped == Command \in [Commands -> T!CommandRow]
ASSUME KeysAreTyped == Under \in [Keys -> SUBSET Keys] /\ Long \subseteq Keys
ASSUME TargetsAreFinite == IsFiniteSet(Targets)
ASSUME NoKeyIsNothing == None \notin Keys \cup (Nat \X Targets)
ASSUME LedgerIsFinite ==
  Amounts \subseteq Nat \ {0} /\ IsFiniteSet(Amounts) /\ MaxEntries \in Nat /\ MaxDay \in Nat

Parts == {"houses", "bindings", "members", "posts", "images", "notices", "reports"}
houses == <<area, house, resident, job, contested>>
binding == <<active, archived, codes, bindings, verifying, usedBy>>
members == <<users, memberships, roles, permissions, administration, begun, given, appointed, asked>>
content == <<posts, rows, editing, hurried, refused>>
pictures == <<existing, images, files, upload, faults, crowded, leaked, bare>>
announcing == <<notices, calls>>
ledger == <<day, closed, counted, entries, drawn, report>>
vars == <<part, houses, binding, members, content, pictures, announcing, ledger>>

-----------------------------------------------------------------------------

Init ==
  /\ part \in Parts
  /\ N!Init /\ B!Init /\ M!Init /\ C!Init /\ A!Init /\ T!Init /\ R!Init

Next ==
  \/ /\ part = "houses" /\ N!Next
     /\ UNCHANGED <<part, binding, members, content, pictures, announcing, ledger>>
  \/ /\ part = "bindings" /\ B!Next
     /\ UNCHANGED <<part, houses, members, content, pictures, announcing, ledger>>
  \/ /\ part = "members" /\ M!Next
     /\ UNCHANGED <<part, houses, binding, content, pictures, announcing, ledger>>
  \/ /\ part = "posts" /\ C!Next
     /\ UNCHANGED <<part, houses, binding, members, pictures, announcing, ledger>>
  \/ /\ part = "images" /\ A!Next
     /\ UNCHANGED <<part, houses, binding, members, content, announcing, ledger>>
  \/ /\ part = "notices" /\ T!Next
     /\ UNCHANGED <<part, houses, binding, members, content, pictures, ledger>>
  \/ /\ part = "reports" /\ R!Next
     /\ UNCHANGED <<part, houses, binding, members, content, pictures, announcing>>

Spec == Init /\ [][Next]_vars

-----------------------------------------------------------------------------
(* Properties: those of the components, which say what they are about. *)

(* The type of every variable. *)
TypeOK ==
  N!TypeOK /\ B!TypeOK /\ M!TypeOK /\ C!TypeOK /\ A!TypeOK /\ T!TypeOK /\ R!TypeOK

(* A house is OCCUPIED when and only when an active resident lives there,  *)
(* unless transactions that touched it overlapped.                         *)
OccupancyIsDerived == N!OccupancyIsDerived

(* Nobody lives in an archived house, no house is in an archived area.     *)
ArchivedIsVacant == N!ArchivedIsVacant

(* A member and a resident speak through one Telegram account each.        *)
OneAccountEach == B!OneAccountEach

(* Nobody holds rights that no administrator handed out, and only an       *)
(* administrator makes another.                                            *)
AuthorityIsHandedOn == M!AuthorityIsHandedOn

(* No request to add a user undoes the end of a membership.                *)
DisabledStaysDisabled == M!DisabledStaysDisabled

(* A member has the roles of one request, unless replacements overlapped.  *)
RolesAreOneReplacement == M!RolesAreOneReplacement

(* The count of reactions mirrors them, unless reactions overlapped.       *)
CountMirrorsRows == C!CountMirrorsRows

(* Images that are shown have whole files, files that are not needed are   *)
(* taken care of, and a cover is not lost unseen.                          *)
ImagesAndFiles == A!ImagesAndFiles

(* An event is announced once, and who is told that its rows are there is   *)
(* told the truth.                                                         *)
NotifiedOnce == T!NotifiedOnce

(* A cash flow report adds up, and that of a period that is over stays true. *)
ReportsHold == R!ReportsHold
=============================================================================
