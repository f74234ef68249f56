--------------------------- MODULE Neighbourhood ---------------------------
(***************************************************************************)
(* Areas, houses and residents: apps/api/src/modules/houses and residents. *)
(* Whether a house is OCCUPIED is derived from the residents assigned to   *)
(* it, a house with residents is not archived, nor is an area with houses. *)
(* Each handler checks this in a READ COMMITTED transaction that locks     *)
(* nothing it reads, so a check may be out of date at the commit.  What a  *)
(* transaction wrote is seen by itself only until then.  The services ask  *)
(* the same questions before the transaction does and are left out.        *)
(***************************************************************************)
EXTENDS FiniteSets, Functions

CONSTANTS
  Areas,
  Houses,
  Residents,
  Handlers,  (* requests served at the same time *)
  None       (* null *)

VARIABLES
  area,      (* status of each area *)
  house,     (* houses *)
  resident,  (* residents *)
  job,       (* open transactions *)
  contested  (* history: areas and houses that overlapping transactions shared *)
             (* and no transaction has put right since                         *)

vars == <<area, house, resident, job, contested>>

NoHouse == [status |-> "NONE", area |-> None, deleted |-> FALSE]
NoResident == [status |-> "NONE", house |-> None]

(* No transaction.  "marks" is what it is going to make of houses' status,  *)
(* "alone" whether no other touched its rows while it was open.             *)
Idle == [op |-> "idle", written |-> FALSE, resident |-> None, from |-> None, to |-> None,
         area |-> None, status |-> None, marks |-> <<>>, alone |-> TRUE]

-----------------------------------------------------------------------------
(* Reads. *)

Live(x) == house[x].status # "NONE" /\ ~house[x].deleted

ActiveIn(x) == {r \in Residents : resident[r] = [status |-> "ACTIVE", house |-> x]}

(* assertAreaAssignableInTransaction *)
AreaAssignable(a) == area[a] = "ACTIVE"

(* assertHouseAssignableInTransaction *)
HouseAssignable(x) == Live(x) /\ house[x].status # "INACTIVE"

(* assertHouseStatusUpdateAllowedInTransaction *)
StatusAllowed(x, status) ==
  /\ status = "EMPTY" => ActiveIn(x) = {}
  /\ status = "OCCUPIED" => ActiveIn(x) # {}

(* What archiveArea counts *)
ActiveHouses(a) ==
  {x \in Houses : Live(x) /\ house[x].area = a /\ house[x].status # "INACTIVE"}

(* markHouseOccupied *)
Arrival(x) == IF Live(x) /\ house[x].status = "EMPTY" THEN {x} ELSE {}

(* Mutant of Departure: who else lives there is not asked. *)
AnyDeparture(x, r) == IF Live(x) /\ house[x].status = "OCCUPIED" THEN {x} ELSE {}

(* markHouseEmptyWhenVacant, as the transaction that took r away sees it *)
Departure(x, r) ==
  IF ActiveIn(x) \ {r} = {} /\ Live(x) /\ house[x].status = "OCCUPIED" THEN {x} ELSE {}

-----------------------------------------------------------------------------
(* Transactions begin with their reads and checks. *)

(* The areas and houses of a transaction; the house a resident was found in *)
(* may not be the one the resident lives in by now.                         *)
TouchedBy(j) ==
  ({j.from, j.to, j.area} \cup {resident[r].house : r \in Residents \cap {j.resident}})
    \ {None}

(* Open transactions that touch a row j touches. *)
Rivals(j) ==
  {g \in Handlers : \/ TouchedBy(job[g]) \cap TouchedBy(j) # {}
                    \/ job[g].resident = j.resident /\ j.resident # None}

Begin(h, j) ==
  /\ job[h] = Idle
  /\ job' = [g \in Handlers |->
               CASE g = h -> [j EXCEPT !.alone = Rivals(j) = {}]
                 [] g \in Rivals(j) -> [job[g] EXCEPT !.alone = FALSE]
                 [] OTHER -> job[g]]
  /\ contested' = contested \cup UNION {TouchedBy(j) \cup TouchedBy(job[g]) : g \in Rivals(j)}
  /\ UNCHANGED <<area, house, resident>>

BeginCreateHouse(h, x, a) ==
  /\ house[x].status = "NONE"
  /\ AreaAssignable(a)
  /\ Begin(h, [Idle EXCEPT !.op = "createHouse", !.to = x, !.area = a])

(* updateHouse; None is an area or a status the request leaves out *)
BeginUpdateHouse(h, x, a, status) ==
  /\ Live(x)
  /\ a # None => AreaAssignable(a)
  /\ StatusAllowed(x, status)
  /\ Begin(h, [Idle EXCEPT !.op = "updateHouse", !.to = x, !.area = a, !.status = status])

(* Mutant of BeginArchiveHouse: its residents are not counted. *)
BeginArchiveAnyHouse(h, x) ==
  /\ Live(x)
  /\ Begin(h, [Idle EXCEPT !.op = "archiveHouse", !.to = x])

BeginArchiveHouse(h, x) ==
  /\ Live(x)
  /\ ActiveIn(x) = {}
  /\ Begin(h, [Idle EXCEPT !.op = "archiveHouse", !.to = x])

BeginArchiveArea(h, a) ==
  /\ area[a] = "ACTIVE"
  /\ ActiveHouses(a) = {}
  /\ Begin(h, [Idle EXCEPT !.op = "archiveArea", !.area = a])

BeginCreateResident(h, r, x) ==
  /\ resident[r].status = "NONE"
  /\ HouseAssignable(x)
  /\ Begin(h, [Idle EXCEPT !.op = "createResident", !.resident = r, !.to = x])

BeginArchiveResident(h, r) ==
  /\ resident[r].status = "ACTIVE"
  /\ Begin(h, [Idle EXCEPT !.op = "archiveResident", !.resident = r,
                           !.from = resident[r].house])

BeginReactivateResident(h, r) ==
  /\ resident[r].status = "ARCHIVED"
  /\ HouseAssignable(resident[r].house)
  /\ Begin(h, [Idle EXCEPT !.op = "reactivateResident", !.resident = r,
                           !.to = resident[r].house])

BeginMoveResident(h, r, x) ==
  /\ resident[r].status = "ACTIVE"
  /\ resident[r].house # x
  /\ HouseAssignable(x)
  /\ Begin(h, [Idle EXCEPT !.op = "moveResident", !.resident = r,
                           !.from = resident[r].house, !.to = x])

-----------------------------------------------------------------------------
(* Residents' handlers write the resident, then look at the houses. *)

ResidentOps == {"createResident", "archiveResident", "reactivateResident", "moveResident"}

(* The resident's row stays locked until the commit.  A moved resident is   *)
(* read again and must not have been archived.                              *)
WriteResident(h) ==
  LET j == job[h]
      emptied == IF j.from = None THEN {} ELSE Departure(j.from, j.resident)
      filled == IF j.to = None THEN {} ELSE Arrival(j.to)
  IN
  /\ j.op \in ResidentOps /\ ~j.written
  /\ ~\E g \in Handlers : job[g].written /\ job[g].resident = j.resident
  /\ job' = [job EXCEPT ![h] =
       IF j.op = "moveResident" /\ resident[j.resident].status # "ACTIVE" THEN Idle
       ELSE [j EXCEPT !.written = TRUE,
                      !.marks = [x \in emptied \cup filled |->
                                   IF x \in filled THEN "OCCUPIED" ELSE "EMPTY"]]]
  /\ UNCHANGED <<area, house, resident, contested>>

(* Where an arrival, or the departure of the last resident, was not         *)
(* disturbed, the status is right again.                                    *)
PutRight(j) ==
  {x \in Houses : /\ j.alone /\ Live(x)
                  /\ \/ x = j.to
                     \/ x = j.from /\ ActiveIn(x) \subseteq {j.resident}}

CommitResident(h) ==
  LET j == job[h]
      moved == IF j.to = None THEN resident[j.resident].house ELSE j.to
  IN
  /\ j.written
  /\ resident' = [resident EXCEPT ![j.resident] =
       CASE j.op = "archiveResident" -> [@ EXCEPT !.status = "ARCHIVED"]
         [] j.op = "reactivateResident" -> [@ EXCEPT !.status = "ACTIVE"]
         [] OTHER -> [status |-> "ACTIVE", house |-> moved]]
  /\ house' = [x \in Houses |-> IF x \in DOMAIN j.marks
                                THEN [house[x] EXCEPT !.status = j.marks[x]]
                                ELSE house[x]]
  /\ job' = [job EXCEPT ![h] = Idle]
  /\ contested' = contested \ PutRight(j)
  /\ UNCHANGED area

(* The handlers of houses and areas write one row each, named by its id.   *)
CommitHouse(h) ==
  LET j == job[h]
      old == house[j.to]
  IN
  /\ j.op \in {"createHouse", "updateHouse", "archiveHouse"}
  /\ j.op = "createHouse" => old.status = "NONE"
  /\ house' = [house EXCEPT ![j.to] =
       CASE j.op = "createHouse" -> [NoHouse EXCEPT !.status = "EMPTY", !.area = j.area]
         [] j.op = "archiveHouse" -> [old EXCEPT !.status = "INACTIVE", !.deleted = TRUE]
         [] OTHER -> [old EXCEPT !.status = IF j.status = None THEN @ ELSE j.status,
                                 !.area = IF j.area = None THEN @ ELSE j.area]]
  /\ job' = [job EXCEPT ![h] = Idle]
  /\ UNCHANGED <<area, resident, contested>>

CommitArea(h) ==
  /\ job[h].op = "archiveArea"
  /\ area' = [area EXCEPT ![job[h].area] = "ARCHIVED"]
  /\ job' = [job EXCEPT ![h] = Idle]
  /\ UNCHANGED <<house, resident, contested>>

CreateArea(a) ==
  /\ area[a] = "NONE"
  /\ area' = [area EXCEPT ![a] = "ACTIVE"]
  /\ UNCHANGED <<house, resident, job, contested>>

(* An error, the time limit of a transaction, or the end of the process.   *)
Rollback(h) ==
  /\ job[h] # Idle
  /\ job' = [job EXCEPT ![h] = Idle]
  /\ UNCHANGED <<area, house, resident, contested>>

-----------------------------------------------------------------------------

Init ==
  /\ area = [a \in Areas |-> "NONE"]
  /\ house = [x \in Houses |-> NoHouse]
  /\ resident = [r \in Residents |-> NoResident]
  /\ job = [h \in Handlers |-> Idle]
  /\ contested = {}

HandlerStep(h) ==
  \/ \E x \in Houses, a \in Areas : BeginCreateHouse(h, x, a)
  \/ \E x \in Houses, a \in Areas \cup {None}, status \in {"EMPTY", "OCCUPIED", None} :
       BeginUpdateHouse(h, x, a, status)
  \/ \E x \in Houses : BeginArchiveHouse(h, x)
  \/ \E a \in Areas : BeginArchiveArea(h, a)
  \/ \E r \in Residents :
       \/ \E x \in Houses : BeginCreateResident(h, r, x) \/ BeginMoveResident(h, r, x)
       \/ BeginArchiveResident(h, r)
       \/ BeginReactivateResident(h, r)
  \/ WriteResident(h)
  \/ CommitResident(h)
  \/ CommitHouse(h)
  \/ CommitArea(h)
  \/ Rollback(h)

Next ==
  \/ \E a \in Areas : CreateArea(a)
  \/ \E h \in Handlers : HandlerStep(h)

Spec == Init /\ [][Next]_vars

-----------------------------------------------------------------------------
(* Properties. *)

HouseStatuses == {"OCCUPIED", "EMPTY", "INACTIVE"}

(* The type of every variable. *)
TypeOK ==
  /\ area \in [Areas -> {"NONE", "ACTIVE", "ARCHIVED"}]
  /\ house \in [Houses -> [status: HouseStatuses \cup {"NONE"}, area: Areas \cup {None},
                           deleted: BOOLEAN]]
  /\ resident \in [Residents -> [status: {"NONE", "ACTIVE", "ARCHIVED"},
                                 house: Houses \cup {None}]]
  /\ \A h \in Handlers :
       /\ job[h].op \in ResidentOps \cup
            {"idle", "createHouse", "updateHouse", "archiveHouse", "archiveArea"}
       /\ job[h].written \in BOOLEAN /\ job[h].alone \in BOOLEAN
       /\ job[h].resident \in Residents \cup {None}
       /\ {job[h].from, job[h].to} \subseteq Houses \cup {None}
       /\ job[h].area \in Areas \cup {None}
       /\ DOMAIN job[h].marks \subseteq Houses
       /\ Range(job[h].marks) \subseteq {"OCCUPIED", "EMPTY"}
  /\ contested \subseteq Areas \cup Houses

(* Occupancy is derived from the assigned residents: a house is OCCUPIED    *)
(* when and only when an active resident lives there, unless transactions   *)
(* that touched it overlapped, and then until the next undisturbed arrival  *)
(* or last departure.                                                       *)
OccupancyIsDerived ==
  \A x \in Houses \ contested :
    Live(x) => (house[x].status = "OCCUPIED" <=> ActiveIn(x) # {})

(* Nobody is left in an archived house or moves into one, and no house is   *)
(* left in an archived area or gets assigned to one.                        *)
ArchivedIsVacant ==
  /\ \A x \in Houses \ contested :
       house[x].deleted => ActiveIn(x) = {} /\ house[x].status = "INACTIVE"
  /\ \A a \in Areas \ contested : area[a] = "ARCHIVED" =>
       ~\E x \in Houses : Live(x) /\ house[x].area = a
=============================================================================
