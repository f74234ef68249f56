---------------------------- MODULE Collections ----------------------------
(***************************************************************************)
(* Jimpitan collection sessions: apps/api/src/modules/jimpitan.  An        *)
(* officer records what each house paid (PER_HOUSE) or counts the round as *)
(* a whole (BULK_TOTAL) and submits; a treasurer validates or rejects.     *)
(*                                                                         *)
(* The repository's handlers run READ COMMITTED (create and update:        *)
(* SERIALIZABLE): they read the session, and write it with an updateMany   *)
(* that tests its status again.  A handler whose write depends on more     *)
(* than that test is two actions, with a job in flight in between; the     *)
(* others are one.  The schedule row, the officer and the notes that go    *)
(* with a session are left out.                                            *)
(***************************************************************************)
EXTENDS Integers, FiniteSets, Functions

CONSTANTS
  Sessions,  (* identities of collection sessions *)
  Routes,    (* pairs of an area and a date *)
  Houses,
  Amounts,   (* amounts an officer may enter *)
  Handlers,  (* requests served at the same time *)
  None       (* null *)

ASSUME AmountsAreMoney == Amounts \subseteq Nat \ {0}
ASSUME NothingIsNoRow == None \notin Sessions \cup Routes \cup Houses

VARIABLES
  session, (* jimpitan_collections *)
  items,   (* collection_items: per session, what the recorded houses paid *)
  job,     (* handlers between their reads and their guarded update *)
  shared   (* history: sessions that two handlers worked on at the same time *)

vars == <<session, items, job, shared>>

Modes == {"PER_HOUSE", "BULK_TOTAL"}
Editable == {"DRAFT", "IN_PROGRESS", "REJECTED"}
Active == {"DRAFT", "IN_PROGRESS", "SUBMITTED"}

NoSession == [status |-> "NONE", mode |-> "PER_HOUSE", total |-> 0, route |-> None]

Idle == [op |-> "idle", session |-> None, house |-> None, amount |-> 0,
         total |-> 0, mode |-> None, route |-> None]

-----------------------------------------------------------------------------
(* Reads. *)

(* calculatePaidTotal; an amount of 0 is a house that was not PAID *)
PaidTotal(paid) == FoldFunction(+, 0, paid)

(* activeDuplicateWhere *)
HasActiveDuplicate(s, route) ==
  \E other \in Sessions \ {s} :
    session[other].route = route /\ session[other].status \in Active

(* Mutant of Ready: an empty round may be submitted. *)
AlwaysReady(mode, total, recorded) == TRUE

(* assertCollectionModeSubmissionReady *)
Ready(mode, total, recorded) ==
  IF mode = "PER_HOUSE" THEN recorded # {} ELSE total > 0

Begin(h, new) ==
  /\ job[h] = Idle
  /\ job' = [job EXCEPT ![h] = new]
  /\ shared' = IF \E g \in Handlers : job[g].session = new.session
               THEN shared \cup {new.session} ELSE shared
End(h) == job' = [job EXCEPT ![h] = Idle] /\ UNCHANGED shared

-----------------------------------------------------------------------------
(* Handlers that are one action. *)

(* createCollection, with a total only when it is BULK_TOTAL *)
CreateCollection(s, route, mode, n) ==
  /\ session[s].status = "NONE"
  /\ ~HasActiveDuplicate(s, route)
  /\ mode = "PER_HOUSE" => n = 0
  /\ session' = [session EXCEPT ![s] =
       [status |-> "DRAFT", mode |-> mode, total |-> n, route |-> route]]
  /\ UNCHANGED <<items, job, shared>>

Move(s, from, to) ==
  /\ session[s].status \in from
  /\ session' = [session EXCEPT ![s].status = to]
  /\ UNCHANGED <<items, job, shared>>

StartCollection(s) == Move(s, {"DRAFT", "REJECTED"}, "IN_PROGRESS")
GenerateChecklist(s) ==
  session[s].mode = "PER_HOUSE" /\ Move(s, Editable, "IN_PROGRESS")
RejectCollection(s) == Move(s, {"SUBMITTED"}, "REJECTED")
CancelCollection(s) == Move(s, Editable \cup {"SUBMITTED"}, "CANCELLED")

(* setBulkCollectionTotal *)
SetBulkTotal(s, n) ==
  /\ session[s].status \in Editable
  /\ session[s].mode = "BULK_TOTAL"
  /\ session' = [session EXCEPT ![s].total = n, ![s].status = "IN_PROGRESS"]
  /\ UNCHANGED <<items, job, shared>>

-----------------------------------------------------------------------------
(* Handlers that write what they read earlier. *)

(* upsertCollectionItems of one house: the item is written, its row locked  *)
(* and not yet visible, and the paid total is taken with it.                *)
RecordItem(h, s, house, n) ==
  /\ session[s].status \in Editable
  /\ session[s].mode = "PER_HOUSE"
  /\ \A g \in Handlers : ~(/\ job[g].op = "upsert"
                           /\ job[g].session = s
                           /\ job[g].house = house)
  /\ Begin(h, [Idle EXCEPT
       !.op = "upsert", !.session = s, !.house = house, !.amount = n,
       !.total = PaidTotal([x \in DOMAIN items[s] \cup {house} |->
                             IF x = house THEN n ELSE items[s][x]])])
  /\ UNCHANGED <<session, items>>

(* submitCollection up to its readiness check *)
PrepareSubmit(h, s) ==
  LET total == IF session[s].mode = "BULK_TOTAL" THEN session[s].total
                                                ELSE PaidTotal(items[s]) IN
  /\ session[s].status \in Editable
  /\ Ready(session[s].mode, total, DOMAIN items[s])
  /\ Begin(h, [Idle EXCEPT !.op = "submit", !.session = s, !.total = total])
  /\ UNCHANGED <<session, items>>

(* updateCollection, the service's checks: None and 0 stand for what the    *)
(* request leaves out.                                                      *)
PrepareUpdate(h, s, route, mode, n) ==
  /\ session[s].status \in Editable
  /\ n > 0 => "BULK_TOTAL" = IF mode = None THEN session[s].mode ELSE mode
  /\ mode \in {None, session[s].mode} \/ DOMAIN items[s] = {}
  /\ Begin(h, [Idle EXCEPT !.op = "update", !.session = s, !.route = route,
                           !.mode = mode, !.total = n])
  /\ UNCHANGED <<session, items>>

(* validateCollection up to its readiness check *)
PrepareValidate(h, s) ==
  /\ session[s].status = "SUBMITTED"
  /\ Ready(session[s].mode, session[s].total, DOMAIN items[s])
  /\ Begin(h, [Idle EXCEPT !.op = "validate", !.session = s])
  /\ UNCHANGED <<session, items>>

(* Mutants of StatusTest: items of a submitted session are still taken, or  *)
(* a session is only held against cancellation of its validation.           *)
EditableOrSubmitted(j) == Editable \cup {"SUBMITTED"}
EditableOrCancelled(j) ==
  IF j.op = "validate" THEN {"SUBMITTED"} ELSE Editable \cup {"CANCELLED"}

StatusTest(j) == IF j.op = "validate" THEN {"SUBMITTED"} ELSE Editable

(* The guarded updates, each committed with what its handler wrote before. *)
CommitItem(h) ==
  LET j == job[h] IN
  /\ j.op = "upsert"
  /\ session[j.session].status \in StatusTest(j)
  /\ session' = [session EXCEPT ![j.session].status = "IN_PROGRESS",
                                ![j.session].total = j.total]
  /\ items' = [items EXCEPT ![j.session] =
       [x \in DOMAIN @ \cup {j.house} |-> IF x = j.house THEN j.amount ELSE @[x]]]
  /\ End(h)

(* Mutant of CommitSubmit: the total is not written. *)
SubmitOldTotal(h) ==
  LET j == job[h] IN
  /\ j.op = "submit"
  /\ session[j.session].status \in StatusTest(j)
  /\ session' = [session EXCEPT ![j.session].status = "SUBMITTED"]
  /\ End(h)
  /\ UNCHANGED items

CommitSubmit(h) ==
  LET j == job[h] IN
  /\ j.op = "submit"
  /\ session[j.session].status \in StatusTest(j)
  /\ session' = [session EXCEPT ![j.session].status = "SUBMITTED",
                                ![j.session].total = j.total]
  /\ End(h)
  /\ UNCHANGED items

(* updateCollection, the repository's transaction: a mode of PER_HOUSE      *)
(* resets the total, and a total that is given replaces it.                 *)
CommitUpdate(h) ==
  LET j == job[h]
      old == session[j.session]
  IN
  /\ j.op = "update"
  /\ old.status \in StatusTest(j)
  /\ j.route # None => ~HasActiveDuplicate(j.session, j.route)
  /\ session' = [session EXCEPT ![j.session] =
       [status |-> old.status,
        mode |-> IF j.mode = None THEN old.mode ELSE j.mode,
        total |-> IF j.total > 0 \/ j.mode = "PER_HOUSE" THEN j.total ELSE old.total,
        route |-> IF j.route = None THEN old.route ELSE j.route]]
  /\ End(h)
  /\ UNCHANGED items

CommitValidate(h) ==
  LET j == job[h] IN
  /\ j.op = "validate"
  /\ session[j.session].status \in StatusTest(j)
  /\ session' = [session EXCEPT ![j.session].status = "VALIDATED"]
  /\ End(h)
  /\ UNCHANGED items

(* assertSingleStateUpdate: the row changed meanwhile, all is rolled back.  *)
(* The SERIALIZABLE update also fails on a duplicate and on any conflict.   *)
Rollback(h) ==
  /\ job[h].op # "idle"
  /\ \/ session[job[h].session].status \notin StatusTest(job[h])
     \/ job[h].op = "update"
  /\ End(h)
  /\ UNCHANGED <<session, items>>

(* The process dies: no open transaction commits. *)
Crash ==
  /\ \E h \in Handlers : job[h].op # "idle"
  /\ job' = [h \in Handlers |-> Idle]
  /\ UNCHANGED <<session, items, shared>>

-----------------------------------------------------------------------------

Init ==
  /\ session = [s \in Sessions |-> NoSession]
  /\ items = [s \in Sessions |-> <<>>]
  /\ job = [h \in Handlers |-> Idle]
  /\ shared = {}

SessionStep(s) ==
  \/ \E r \in Routes :
       \E m \in Modes, n \in Amounts \cup {0} : CreateCollection(s, r, m, n)
  \/ StartCollection(s)
  \/ GenerateChecklist(s)
  \/ RejectCollection(s)
  \/ CancelCollection(s)
  \/ \E n \in Amounts : SetBulkTotal(s, n)

HandlerStep(h) ==
  \/ \E s \in Sessions :
       \/ \E x \in Houses, n \in Amounts \cup {0} : RecordItem(h, s, x, n)
       \/ PrepareSubmit(h, s)
       \/ \E route \in Routes \cup {None}, m \in Modes \cup {None},
            n \in Amounts \cup {0} : PrepareUpdate(h, s, route, m, n)
       \/ PrepareValidate(h, s)
  \/ CommitItem(h)
  \/ CommitSubmit(h)
  \/ CommitUpdate(h)
  \/ CommitValidate(h)
  \/ Rollback(h)

Next ==
  \/ \E s \in Sessions : SessionStep(s)
  \/ \E h \in Handlers : HandlerStep(h)
  \/ Crash

Spec == Init /\ [][Next]_vars

-----------------------------------------------------------------------------
(* Properties. *)

Statuses == Active \cup Editable \cup {"NONE", "VALIDATED", "CANCELLED"}

(* The type of every variable. *)
TypeOK ==
  /\ session \in [Sessions -> [status: Statuses, mode: Modes, total: Nat,
                               route: Routes \cup {None}]]
  /\ \A s \in Sessions :
       /\ DOMAIN items[s] \subseteq Houses
       /\ \A x \in DOMAIN items[s] : items[s][x] \in Amounts \cup {0}
  /\ job \in [Handlers ->
       [op: {"idle", "upsert", "submit", "update", "validate"},
        session: Sessions \cup {None}, house: Houses \cup {None},
        amount: Amounts \cup {0}, total: Nat, mode: Modes \cup {None},
        route: Routes \cup {None}]]
  /\ shared \subseteq Sessions

(* What a treasurer reviews and then validates stays what it is: from the   *)
(* moment a session is SUBMITTED only a rejection or a cancellation touches *)
(* it, whatever item, total or mode updates are still in flight, and once   *)
(* VALIDATED nothing does.                                                  *)
FrozenUnderReview ==
  [][\A s \in Sessions :
       session[s].status \in {"SUBMITTED", "VALIDATED"} =>
         /\ items'[s] = items[s]
         /\ session'[s] = [session[s] EXCEPT !.status = session'[s].status]
         /\ session[s].status = "VALIDATED" => session'[s] = session[s]]_vars

(* A cancelled session is never taken up again, by no request in flight.   *)
CancelledForGood ==
  [][\A s \in Sessions :
       session[s].status = "CANCELLED" =>
         session'[s] = session[s] /\ items'[s] = items[s]]_vars

(* Where no two handlers worked on a session at the same time, its total    *)
(* and its items agree: the total of a PER_HOUSE session under review is    *)
(* the sum its houses paid, without which finance refuses to post it, and a *)
(* BULK_TOTAL session has no house items.                                   *)
TotalsMatchItems ==
  \A s \in Sessions \ shared :
    IF session[s].mode = "BULK_TOTAL" THEN DOMAIN items[s] = {}
    ELSE session[s].status \in {"SUBMITTED", "VALIDATED"} =>
           session[s].total = PaidTotal(items[s])

(* A session passes review only with what its mode requires: recorded       *)
(* houses, or a positive total; again unless handlers overlapped.           *)
ReviewedIsReady ==
  \A s \in Sessions \ shared :
    session[s].status \in {"SUBMITTED", "VALIDATED"} =>
      \/ session[s].mode = "PER_HOUSE" /\ DOMAIN items[s] # {}
      \/ session[s].mode = "BULK_TOTAL" /\ session[s].total > 0
=============================================================================
