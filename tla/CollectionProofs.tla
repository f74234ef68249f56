-------------------------- MODULE CollectionProofs --------------------------
(***************************************************************************)
(* What becomes of collection sessions under review, for any number of     *)
(* sessions, houses and overlapping handlers.  PaidTotal is a fold, out of *)
(* the provers' reach: the proofs follow which items it was taken of and   *)
(* never expand it.                                                        *)
(***************************************************************************)
EXTENDS Collections, TLAPS

IsRow(r) ==
  r = [status |-> r.status, mode |-> r.mode, total |-> r.total, route |-> r.route]

(* The inductive invariant: the shape of the rows, and that a handler in    *)
(* flight works on a session.                                              *)
Shape ==
  /\ session = [s \in Sessions |-> session[s]]
  /\ items = [s \in Sessions |-> items[s]]
  /\ \A s \in Sessions : IsRow(session[s])
  /\ job = [h \in Handlers |-> job[h]]
  /\ \A h \in Handlers : job[h].op # "idle" => job[h].session \in Sessions

-----------------------------------------------------------------------------

LEMMA RowsStayRows ==
  ASSUME NEW r, IsRow(r), NEW status, NEW total
  PROVE  /\ IsRow([r EXCEPT !.status = status])
         /\ IsRow([r EXCEPT !.status = status, !.total = total])
         /\ [r EXCEPT !.status = r.status] = r
<1>1. PICK st, mode, tot, route :
        r = [status |-> st, mode |-> mode, total |-> tot, route |-> route]
  BY DEF IsRow
<1>2. [r EXCEPT !.status = status] =
        [status |-> status, mode |-> mode, total |-> tot, route |-> route]
  BY <1>1
<1>3. [r EXCEPT !.status = status, !.total = total] =
        [status |-> status, mode |-> mode, total |-> total, route |-> route]
  <2>1. [r EXCEPT !.status = status, !.total = total] =
          [[r EXCEPT !.status = status] EXCEPT !.total = total]
    BY <1>1
  <2>2. [[status |-> status, mode |-> mode, total |-> tot, route |-> route]
           EXCEPT !.total = total] =
          [status |-> status, mode |-> mode, total |-> total, route |-> route]
    OBVIOUS
  <2> QED BY <1>2, <2>1, <2>2
<1>4. [r EXCEPT !.status = r.status] = r
  BY <1>1
<1> QED BY <1>2, <1>3, <1>4 DEF IsRow

LEMMA JobsEnd ==
  ASSUME Shape, NEW h \in Handlers, End(h)
  PROVE  /\ job' = [g \in Handlers |-> job'[g]]
         /\ \A g \in Handlers : job'[g].op # "idle" => job'[g].session \in Sessions
BY DEF Shape, End, Idle

LEMMA JobsBegin ==
  ASSUME Shape, NEW h \in Handlers, NEW new, Begin(h, new), new.session \in Sessions
  PROVE  /\ job' = [g \in Handlers |-> job'[g]]
         /\ \A g \in Handlers : job'[g].op # "idle" => job'[g].session \in Sessions
BY DEF Shape, Begin

(* What a handler's guarded update is about. *)
LEMMA TestedStatus ==
  ASSUME NEW j
  PROVE  \/ j.op = "validate" /\ StatusTest(j) = {"SUBMITTED"}
         \/ /\ j.op # "validate"
            /\ "SUBMITTED" \notin StatusTest(j)
            /\ "VALIDATED" \notin StatusTest(j)
            /\ "CANCELLED" \notin StatusTest(j)
BY DEF StatusTest, Editable

-----------------------------------------------------------------------------
(* The handlers, each with the invariant and what the properties say.      *)

Untouched(s) == session'[s] = session[s] /\ items'[s] = items[s]

OnlyStatus(s) ==
  /\ items'[s] = items[s]
  /\ session'[s] = [session[s] EXCEPT !.status = session'[s].status]

Respects ==
  /\ Shape'
  /\ \A s \in Sessions :
       /\ session[s].status = "SUBMITTED" => OnlyStatus(s)
       /\ session[s].status \in {"VALIDATED", "CANCELLED"} => Untouched(s)

(* A step that leaves the tables alone. *)
LEMMA TablesAlone ==
  ASSUME Shape, UNCHANGED <<session, items>>,
         job' = [h \in Handlers |-> job'[h]],
         \A h \in Handlers : job'[h].op # "idle" => job'[h].session \in Sessions
  PROVE  Respects
BY RowsStayRows DEF Respects, Shape, OnlyStatus, Untouched

(* A step that rewrites one session, from a status the properties let go.  *)
LEMMA OneRow ==
  ASSUME Shape, NEW s \in Sessions, NEW row, IsRow(row),
         session' = [session EXCEPT ![s] = row],
         items' = [t \in Sessions |-> items'[t]],
         \A t \in Sessions \ {s} : items'[t] = items[t],
         session[s].status \notin {"VALIDATED", "CANCELLED"},
         session[s].status = "SUBMITTED" => /\ items'[s] = items[s]
                                            /\ row = [session[s] EXCEPT !.status = row.status],
         job' = [h \in Handlers |-> job'[h]],
         \A h \in Handlers : job'[h].op # "idle" => job'[h].session \in Sessions
  PROVE  Respects
<1>1. /\ session' = [t \in Sessions |-> session'[t]]
      /\ session'[s] = row
      /\ \A t \in Sessions \ {s} : session'[t] = session[t]
  BY DEF Shape
<1>2. Shape'
  BY <1>1 DEF Shape
<1>3. ASSUME NEW t \in Sessions \ {s} PROVE OnlyStatus(t) /\ Untouched(t)
  BY <1>1, RowsStayRows DEF OnlyStatus, Untouched, Shape
<1> QED BY <1>1, <1>2, <1>3 DEF Respects, OnlyStatus

LEMMA SessionStepRespects ==
  ASSUME Shape, NEW s \in Sessions, SessionStep(s)
  PROVE  Respects
<1>1. /\ IsRow(session[s])
      /\ items = [t \in Sessions |-> items[t]]
      /\ session = [t \in Sessions |-> session[t]]
      /\ job = [h \in Handlers |-> job[h]]
      /\ \A h \in Handlers : job[h].op # "idle" => job[h].session \in Sessions
  BY DEF Shape
<1>2. ASSUME NEW r, NEW m, NEW n, CreateCollection(s, r, m, n) PROVE Respects
  <2> DEFINE row == [status |-> "DRAFT", mode |-> m, total |-> n, route |-> r]
  <2>1. IsRow(row)
    BY DEF IsRow
  <2>2. session' = [session EXCEPT ![s] = row] /\ UNCHANGED <<items, job>>
        /\ session[s].status = "NONE"
    BY <1>2 DEF CreateCollection
  <2> HIDE DEF row
  <2> QED BY <1>1, <2>1, <2>2, OneRow
<1>3. ASSUME NEW from, NEW to, Move(s, from, to),
             "VALIDATED" \notin from, "CANCELLED" \notin from
      PROVE  Respects
  <2> DEFINE row == [session[s] EXCEPT !.status = to]
  <2>1. IsRow(row) /\ row.status = to
    BY <1>1, RowsStayRows DEF IsRow
  <2>2. session' = [session EXCEPT ![s] = row] /\ UNCHANGED <<items, job>>
        /\ session[s].status \in from
    BY <1>3 DEF Move
  <2>3. row = [session[s] EXCEPT !.status = row.status]
    BY <2>1
  <2> HIDE DEF row
  <2> QED BY <1>1, <1>3, <2>1, <2>2, <2>3, OneRow
<1>4. ASSUME NEW n, SetBulkTotal(s, n) PROVE Respects
  <2> DEFINE row == [session[s] EXCEPT !.status = "IN_PROGRESS", !.total = n]
  <2>1. IsRow(row)
    BY <1>1, RowsStayRows
  <2>2. session' = [session EXCEPT ![s] = row] /\ UNCHANGED <<items, job>>
        /\ session[s].status \in Editable
    BY <1>1, <1>4 DEF SetBulkTotal, IsRow
  <2> HIDE DEF row
  <2> QED BY <1>1, <2>1, <2>2, OneRow DEF Editable
<1>5. "VALIDATED" \notin Editable \cup {"SUBMITTED"}
      /\ "CANCELLED" \notin Editable \cup {"SUBMITTED"}
  BY DEF Editable
<1> QED
  BY <1>2, <1>3, <1>4, <1>5
     DEF SessionStep, StartCollection, GenerateChecklist, RejectCollection, CancelCollection

(* A guarded update: it commits on a status its handler tests again. *)
LEMMA CommitRespects ==
  ASSUME Shape, NEW h \in Handlers,
         CommitItem(h) \/ CommitSubmit(h) \/ CommitUpdate(h) \/ CommitValidate(h)
  PROVE  Respects
<1>1. PICK j : j = job[h]
  OBVIOUS
<1>2. PICK s : s = j.session
  OBVIOUS
<1>3. End(h) /\ s \in Sessions /\ session[s].status \in StatusTest(j)
  BY <1>1, <1>2 DEF CommitItem, CommitSubmit, CommitUpdate, CommitValidate, Shape
<1>4. /\ IsRow(session[s])
      /\ items = [t \in Sessions |-> items[t]]
      /\ session = [t \in Sessions |-> session[t]]
      /\ job' = [g \in Handlers |-> job'[g]]
      /\ \A g \in Handlers : job'[g].op # "idle" => job'[g].session \in Sessions
  BY <1>3, JobsEnd DEF Shape
<1>5. j.op # "validate" => session[s].status \notin {"SUBMITTED", "VALIDATED", "CANCELLED"}
  BY <1>3, TestedStatus
<1>6. CASE CommitItem(h)
  <2>1. PICK row : row = [session[s] EXCEPT !.status = "IN_PROGRESS", !.total = j.total]
    OBVIOUS
  <2>2. IsRow(row)
    BY <1>4, <2>1, RowsStayRows
  <2>3. /\ session' = [session EXCEPT ![s] = row]
        /\ j.op # "validate"
        /\ items' = [t \in Sessions |-> items'[t]]
        /\ \A t \in Sessions \ {s} : items'[t] = items[t]
    BY <1>1, <1>2, <1>4, <1>6, <2>1 DEF CommitItem
  <2> QED BY <1>3, <1>4, <1>5, <2>2, <2>3, OneRow
<1>7. CASE CommitSubmit(h)
  <2>1. PICK row : row = [session[s] EXCEPT !.status = "SUBMITTED", !.total = j.total]
    OBVIOUS
  <2>2. IsRow(row)
    BY <1>4, <2>1, RowsStayRows
  <2>3. /\ session' = [session EXCEPT ![s] = row]
        /\ j.op # "validate"
        /\ items' = items
    BY <1>1, <1>2, <1>4, <1>7, <2>1 DEF CommitSubmit
  <2> QED BY <1>3, <1>4, <1>5, <2>2, <2>3, OneRow
<1>8. CASE CommitUpdate(h)
  <2>1. PICK row :
          row = [status |-> session[s].status,
                 mode |-> IF j.mode = None THEN session[s].mode ELSE j.mode,
                 total |-> IF j.total > 0 \/ j.mode = "PER_HOUSE"
                           THEN j.total ELSE session[s].total,
                 route |-> IF j.route = None THEN session[s].route ELSE j.route]
    OBVIOUS
  <2>2. IsRow(row)
    BY <2>1 DEF IsRow
  <2>3. /\ session' = [session EXCEPT ![s] = row]
        /\ j.op # "validate"
        /\ items' = items
    BY <1>1, <1>2, <1>8, <2>1 DEF CommitUpdate
  <2> QED BY <1>3, <1>4, <1>5, <2>2, <2>3, OneRow
<1>9. CASE CommitValidate(h)
  <2>1. PICK row : row = [session[s] EXCEPT !.status = "VALIDATED"]
    OBVIOUS
  <2>2. IsRow(row) /\ row = [session[s] EXCEPT !.status = row.status]
    BY <1>4, <2>1, RowsStayRows DEF IsRow
  <2>3. /\ session' = [session EXCEPT ![s] = row]
        /\ items' = items
        /\ session[s].status = "SUBMITTED"
    BY <1>1, <1>2, <1>3, <1>9, <2>1 DEF CommitValidate, StatusTest
  <2> QED BY <1>3, <1>4, <2>2, <2>3, OneRow
<1> QED BY <1>6, <1>7, <1>8, <1>9

LEMMA HandlerStepRespects ==
  ASSUME Shape, NEW h \in Handlers, HandlerStep(h)
  PROVE  Respects
<1>1. ASSUME NEW s \in Sessions, NEW x \in Houses, NEW n, RecordItem(h, s, x, n) PROVE Respects
  <2>1. PICK total : Begin(h, [Idle EXCEPT !.op = "upsert", !.session = s, !.house = x,
                                           !.amount = n, !.total = total])
    BY <1>1 DEF RecordItem
  <2>2. [Idle EXCEPT !.op = "upsert", !.session = s, !.house = x,
                     !.amount = n, !.total = total].session \in Sessions
    BY DEF Idle
  <2> QED BY <1>1, <2>1, <2>2, JobsBegin, TablesAlone DEF RecordItem
<1>2. ASSUME NEW s \in Sessions, PrepareSubmit(h, s) PROVE Respects
  <2>1. PICK total : Begin(h, [Idle EXCEPT !.op = "submit", !.session = s, !.total = total])
    BY <1>2 DEF PrepareSubmit
  <2>2. [Idle EXCEPT !.op = "submit", !.session = s, !.total = total].session \in Sessions
    BY DEF Idle
  <2> QED BY <1>2, <2>1, <2>2, JobsBegin, TablesAlone DEF PrepareSubmit
<1>3. ASSUME NEW s \in Sessions, NEW route, NEW m, NEW n, PrepareUpdate(h, s, route, m, n)
      PROVE  Respects
  <2>1. Begin(h, [Idle EXCEPT !.op = "update", !.session = s, !.route = route,
                              !.mode = m, !.total = n])
    BY <1>3 DEF PrepareUpdate
  <2>2. [Idle EXCEPT !.op = "update", !.session = s, !.route = route,
                     !.mode = m, !.total = n].session \in Sessions
    BY DEF Idle
  <2> QED BY <1>3, <2>1, <2>2, JobsBegin, TablesAlone DEF PrepareUpdate
<1>4. ASSUME NEW s \in Sessions, PrepareValidate(h, s) PROVE Respects
  <2>1. [Idle EXCEPT !.op = "validate", !.session = s].session \in Sessions
    BY DEF Idle
  <2> QED BY <1>4, <2>1, JobsBegin, TablesAlone DEF PrepareValidate
<1>5. ASSUME Rollback(h) PROVE Respects
  BY <1>5, JobsEnd, TablesAlone DEF Rollback
<1> QED BY <1>1, <1>2, <1>3, <1>4, <1>5, CommitRespects DEF HandlerStep

-----------------------------------------------------------------------------
(* The theorems. *)

LEMMA InitHasShape == Init => Shape
BY DEF Init, Shape, NoSession, IsRow, Idle

LEMMA StepRespects == Shape /\ [Next]_vars => Respects
<1> SUFFICES ASSUME Shape, [Next]_vars PROVE Respects
  OBVIOUS
<1>1. CASE UNCHANGED vars
  BY <1>1, TablesAlone DEF vars, Shape
<1>2. CASE Crash
  BY <1>2, TablesAlone DEF Crash, Idle, Shape
<1> QED BY <1>1, <1>2, SessionStepRespects, HandlerStepRespects DEF Next

(* What is under review does not change, whichever handlers that began      *)
(* before the submission commit after it; what is VALIDATED never does.     *)
THEOREM ReviewFreezes == Spec => FrozenUnderReview
<1>1. Shape /\ [Next]_vars => Shape'
  BY StepRespects DEF Respects
<1>2. Shape /\ [Next]_vars =>
        [\A s \in Sessions :
           session[s].status \in {"SUBMITTED", "VALIDATED"} =>
             /\ items'[s] = items[s]
             /\ session'[s] = [session[s] EXCEPT !.status = session'[s].status]
             /\ session[s].status = "VALIDATED" => session'[s] = session[s]]_vars
  BY StepRespects, RowsStayRows DEF Respects, OnlyStatus, Untouched, Shape
<1> QED BY InitHasShape, <1>1, <1>2, PTL DEF Spec, FrozenUnderReview

(* A cancelled session keeps its rows, whatever is still in flight.         *)
THEOREM CancellationIsFinal == Spec => CancelledForGood
<1>1. Shape /\ [Next]_vars => Shape'
  BY StepRespects DEF Respects
<1>2. Shape /\ [Next]_vars =>
        [\A s \in Sessions :
           session[s].status = "CANCELLED" =>
             session'[s] = session[s] /\ items'[s] = items[s]]_vars
  BY StepRespects DEF Respects, Untouched
<1> QED BY InitHasShape, <1>1, <1>2, PTL DEF Spec, CancelledForGood

-----------------------------------------------------------------------------
(* Totals and readiness, where no two handlers overlapped. *)

(* What a session under review was found to be. *)
Reviewed(mode, total, paid) ==
  IF mode = "PER_HOUSE" THEN total = PaidTotal(paid) /\ DOMAIN paid # {}
                        ELSE total > 0

Sound(s) ==
  /\ session[s].mode \in Modes
  /\ session[s].status = "NONE" => DOMAIN items[s] = {}
  /\ s \notin shared =>
       /\ session[s].mode = "BULK_TOTAL" => DOMAIN items[s] = {}
       /\ session[s].status \in {"SUBMITTED", "VALIDATED"} =>
            Reviewed(session[s].mode, session[s].total, items[s])

(* What handler j read of its session s that still holds. *)
Current(j, s) ==
  /\ session[s].status # "NONE"
  /\ j.op = "update" => j.mode \in Modes \cup {None}
  /\ s \notin shared =>
       /\ j.op = "upsert" => session[s].mode = "PER_HOUSE"
       /\ j.op = "submit" => Reviewed(session[s].mode, j.total, items[s])
       /\ j.op = "update" =>
            j.mode \in {None, session[s].mode} \/ DOMAIN items[s] = {}

(* The inductive invariant: besides the shape and what each handler read,   *)
(* that a handler works alone on a session that is not shared.              *)
Agreed ==
  /\ Shape
  /\ \A s \in Sessions : Sound(s)
  /\ \A h \in Handlers : job[h].op # "idle" => Current(job[h], job[h].session)
  /\ \A g, h \in Handlers :
       /\ job[g].op # "idle" /\ job[h].op # "idle"
       /\ job[g].session = job[h].session
       /\ job[g].session \notin shared
       => g = h

(* A step that rewrites one session while no handler begins: what remains   *)
(* to show is about that session alone.                                     *)
LEMMA OneSession ==
  ASSUME Agreed, Shape', NEW s \in Sessions, shared' = shared,
         \A t \in Sessions \ {s} : session'[t] = session[t] /\ items'[t] = items[t],
         \A g \in Handlers : job'[g] \in {job[g], Idle},
         Sound(s)',
         \A g \in Handlers :
           job'[g] = job[g] /\ job[g].op # "idle" /\ job[g].session = s =>
             Current(job[g], s)'
  PROVE  Agreed'
<1>1. Idle.op = "idle"
  BY DEF Idle
<1>2. ASSUME NEW t \in Sessions PROVE Sound(t)'
  <2>1. CASE t # s
    BY <2>1 DEF Sound, Agreed
  <2> QED BY <2>1
<1>3. ASSUME NEW g \in Handlers, job'[g].op # "idle"
      PROVE  Current(job[g], job[g].session)' /\ job'[g] = job[g]
  <2>1. job'[g] = job[g] /\ job[g].op # "idle" /\ job[g].session \in Sessions
    BY <1>1, <1>3 DEF Agreed, Shape
  <2>2. CASE job[g].session # s
    BY <2>1, <2>2 DEF Agreed, Current
  <2>3. CASE job[g].session = s
    BY <2>1, <2>3 DEF Current
  <2> QED BY <2>1, <2>2, <2>3
<1> QED BY <1>2, <1>3 DEF Agreed

(* A handler that begins shares its session with any other at work there.   *)
LEMMA OneMore ==
  ASSUME Agreed, Shape', NEW h \in Handlers, NEW new, Begin(h, new),
         UNCHANGED <<session, items>>, new.session \in Sessions,
         Current(new, new.session)
  PROVE  Agreed'
<1>1. shared \subseteq shared'
  BY DEF Begin
<1>2. /\ job'[h] = new
      /\ \A g \in Handlers \ {h} : job'[g] = job[g]
  BY DEF Begin, Agreed, Shape
<1>3. ASSUME NEW t \in Sessions PROVE Sound(t)'
  BY <1>1 DEF Sound, Agreed
<1>4. ASSUME NEW g \in Handlers, job'[g].op # "idle"
      PROVE  Current(job[g], job[g].session)'
  BY <1>1, <1>2, <1>4 DEF Current, Agreed
<1>5. ASSUME NEW f \in Handlers, NEW g \in Handlers,
             job'[f].op # "idle", job'[g].op # "idle",
             job'[f].session = job'[g].session, job'[f].session \notin shared'
      PROVE  f = g
  <2>1. \A i \in Handlers : job[i].session = new.session => new.session \in shared'
    BY DEF Begin
  <2> QED BY <1>1, <1>2, <1>5, <2>1 DEF Agreed
<1> QED BY <1>3, <1>4, <1>5 DEF Agreed

LEMMA SessionStepAgrees ==
  ASSUME Agreed, Shape', NEW s \in Sessions, SessionStep(s)
  PROVE  Agreed'
<1>1. /\ Sound(s)
      /\ IsRow(session[s])
      /\ session = [t \in Sessions |-> session[t]]
      /\ \A g \in Handlers :
           job[g].op # "idle" /\ job[g].session = s => Current(job[g], s)
  BY DEF Agreed, Shape
<1>2. ASSUME NEW r, NEW m \in Modes, NEW n, CreateCollection(s, r, m, n) PROVE Agreed'
  <2>1. /\ session[s].status = "NONE"
        /\ session'[s] = [status |-> "DRAFT", mode |-> m, total |-> n, route |-> r]
        /\ \A t \in Sessions \ {s} : session'[t] = session[t]
        /\ UNCHANGED <<items, job, shared>>
    BY <1>1, <1>2 DEF CreateCollection
  <2>2. Sound(s)'
    BY <1>1, <2>1 DEF Sound
  <2>3. \A g \in Handlers : ~(job[g].op # "idle" /\ job[g].session = s)
    BY <1>1, <2>1 DEF Current
  <2> QED BY <2>1, <2>2, <2>3, OneSession
<1>3. ASSUME NEW from, NEW to, Move(s, from, to),
             to \notin {"NONE", "SUBMITTED", "VALIDATED"}
      PROVE  Agreed'
  <2>1. /\ session'[s] = [session[s] EXCEPT !.status = to]
        /\ \A t \in Sessions \ {s} : session'[t] = session[t]
        /\ UNCHANGED <<items, job, shared>>
    BY <1>1, <1>3 DEF Move
  <2>2. /\ session'[s].status = to
        /\ session'[s].mode = session[s].mode
        /\ session'[s].total = session[s].total
    BY <1>1, <2>1 DEF IsRow
  <2>3. Sound(s)'
    BY <1>1, <1>3, <2>1, <2>2 DEF Sound
  <2>4. \A g \in Handlers :
          job[g].op # "idle" /\ job[g].session = s => Current(job[g], s)'
    BY <1>1, <1>3, <2>1, <2>2 DEF Current
  <2> QED BY <2>1, <2>3, <2>4, OneSession
<1>4. ASSUME NEW n, SetBulkTotal(s, n) PROVE Agreed'
  <2>1. /\ session'[s] = [session[s] EXCEPT !.status = "IN_PROGRESS", !.total = n]
        /\ \A t \in Sessions \ {s} : session'[t] = session[t]
        /\ UNCHANGED <<items, job, shared>>
    BY <1>1, <1>4 DEF SetBulkTotal
  <2>2. /\ session'[s].status = "IN_PROGRESS"
        /\ session'[s].mode = session[s].mode
    BY <1>1, <2>1 DEF IsRow
  <2>3. Sound(s)'
    BY <1>1, <2>1, <2>2 DEF Sound
  <2>4. \A g \in Handlers :
          job[g].op # "idle" /\ job[g].session = s => Current(job[g], s)'
    BY <1>1, <2>1, <2>2 DEF Current
  <2> QED BY <2>1, <2>3, <2>4, OneSession
<1> QED
  BY <1>2, <1>3, <1>4
     DEF SessionStep, StartCollection, GenerateChecklist, RejectCollection, CancelCollection

(* A guarded update of a session no other handler works on, or shared.      *)
LEMMA CommitAgrees ==
  ASSUME Agreed, Shape', NEW h \in Handlers,
         CommitItem(h) \/ CommitSubmit(h) \/ CommitUpdate(h) \/ CommitValidate(h)
  PROVE  Agreed'
<1>1. PICK j, s : j = job[h] /\ s = j.session
  OBVIOUS
<1>2. /\ End(h)
      /\ j.op # "idle"
      /\ s \in Sessions
      /\ session[s].status \in StatusTest(j)
  BY <1>1 DEF CommitItem, CommitSubmit, CommitUpdate, CommitValidate, Agreed, Shape
<1>3. /\ Sound(s) /\ Current(j, s)
      /\ IsRow(session[s])
      /\ session = [t \in Sessions |-> session[t]]
      /\ items = [t \in Sessions |-> items[t]]
  BY <1>1, <1>2 DEF Agreed, Shape
<1>4. /\ job'[h] = Idle
      /\ \A g \in Handlers : job'[g] \in {job[g], Idle}
      /\ shared' = shared
  BY <1>2 DEF End, Agreed, Shape
<1>5. ASSUME session'[s].status # "NONE",
             NEW g \in Handlers,
             job'[g] = job[g], job[g].op # "idle", job[g].session = s
      PROVE  Current(job[g], s)'
  <2>1. g # h
    BY <1>4, <1>5 DEF Idle
  <2>2. s \in shared
    BY <1>1, <1>2, <1>5, <2>1 DEF Agreed
  <2>3. Current(job[g], s)
    BY <1>5 DEF Agreed
  <2> QED BY <1>4, <1>5, <2>2, <2>3 DEF Current
<1>6. CASE CommitItem(h)
  <2>1. /\ j.op = "upsert"
        /\ session'[s] = [session[s] EXCEPT !.status = "IN_PROGRESS", !.total = j.total]
        /\ \A t \in Sessions \ {s} : session'[t] = session[t] /\ items'[t] = items[t]
    BY <1>1, <1>2, <1>3, <1>6 DEF CommitItem
  <2>2. session'[s].status = "IN_PROGRESS" /\ session'[s].mode = session[s].mode
    BY <1>3, <2>1 DEF IsRow
  <2>3. Sound(s)'
    BY <1>3, <1>4, <2>1, <2>2 DEF Sound, Current
  <2> QED BY <1>2, <1>4, <1>5, <2>1, <2>2, <2>3, OneSession
<1>7. CASE CommitSubmit(h)
  <2>1. /\ j.op = "submit"
        /\ session'[s] = [session[s] EXCEPT !.status = "SUBMITTED", !.total = j.total]
        /\ \A t \in Sessions \ {s} : session'[t] = session[t]
        /\ items' = items
    BY <1>1, <1>2, <1>3, <1>7 DEF CommitSubmit
  <2>2. /\ session'[s].status = "SUBMITTED"
        /\ session'[s].mode = session[s].mode
        /\ session'[s].total = j.total
    BY <1>3, <2>1 DEF IsRow
  <2>3. Sound(s)'
    BY <1>3, <1>4, <2>1, <2>2 DEF Sound, Current
  <2> QED BY <1>2, <1>4, <1>5, <2>1, <2>2, <2>3, OneSession
<1>8. CASE CommitUpdate(h)
  <2>1. /\ j.op = "update"
        /\ session'[s].status = session[s].status
        /\ session'[s].mode = IF j.mode = None THEN session[s].mode ELSE j.mode
        /\ \A t \in Sessions \ {s} : session'[t] = session[t]
        /\ items' = items
    BY <1>1, <1>2, <1>3, <1>8 DEF CommitUpdate
  <2>2. session[s].status \notin {"SUBMITTED", "VALIDATED"}
    BY <1>2, <2>1, TestedStatus
  <2>3. session'[s].status # "NONE"
    BY <1>3, <2>1 DEF Current
  <2>4. session'[s].mode \in Modes
    BY <1>3, <2>1 DEF Sound, Current
  <2>5. Sound(s)'
    BY <1>3, <1>4, <2>1, <2>2, <2>3, <2>4 DEF Sound, Current
  <2> QED BY <1>2, <1>4, <1>5, <2>1, <2>3, <2>5, OneSession
<1>9. CASE CommitValidate(h)
  <2>1. /\ j.op = "validate"
        /\ session'[s] = [session[s] EXCEPT !.status = "VALIDATED"]
        /\ \A t \in Sessions \ {s} : session'[t] = session[t]
        /\ items' = items
    BY <1>1, <1>2, <1>3, <1>9 DEF CommitValidate
  <2>2. /\ session'[s].status = "VALIDATED"
        /\ session'[s].mode = session[s].mode
        /\ session'[s].total = session[s].total
        /\ session[s].status = "SUBMITTED"
    BY <1>2, <1>3, <2>1 DEF IsRow, StatusTest
  <2>3. Sound(s)'
    BY <1>3, <1>4, <2>1, <2>2 DEF Sound
  <2> QED BY <1>2, <1>4, <1>5, <2>1, <2>2, <2>3, OneSession
<1> QED BY <1>6, <1>7, <1>8, <1>9

LEMMA HandlerStepAgrees ==
  ASSUME Agreed, Shape', NEW h \in Handlers, HandlerStep(h)
  PROVE  Agreed'
<1>1. ASSUME NEW s \in Sessions, NEW x \in Houses, NEW n, RecordItem(h, s, x, n) PROVE Agreed'
  <2>1. PICK total : Begin(h, [Idle EXCEPT !.op = "upsert", !.session = s, !.house = x,
                                           !.amount = n, !.total = total])
    BY <1>1 DEF RecordItem
  <2> DEFINE new == [Idle EXCEPT !.op = "upsert", !.session = s, !.house = x,
                                 !.amount = n, !.total = total]
  <2>2. new.op = "upsert" /\ new.session = s
    BY DEF Idle
  <2>3. Current(new, s)
    BY <1>1, <2>2 DEF RecordItem, Current, Editable
  <2>4. Begin(h, new)
    BY <2>1
  <2> HIDE DEF new
  <2> QED BY <1>1, <2>2, <2>3, <2>4, OneMore DEF RecordItem
<1>2. ASSUME NEW s \in Sessions, PrepareSubmit(h, s) PROVE Agreed'
  <2>1. PICK total :
          /\ total = IF session[s].mode = "BULK_TOTAL" THEN session[s].total
                                                       ELSE PaidTotal(items[s])
          /\ Ready(session[s].mode, total, DOMAIN items[s])
          /\ Begin(h, [Idle EXCEPT !.op = "submit", !.session = s, !.total = total])
    BY <1>2 DEF PrepareSubmit
  <2> DEFINE new == [Idle EXCEPT !.op = "submit", !.session = s, !.total = total]
  <2>2. new.op = "submit" /\ new.session = s /\ new.total = total
    BY DEF Idle
  <2>3. Reviewed(session[s].mode, total, items[s])
    BY <2>1 DEF Reviewed, Ready
  <2>4. Current(new, s)
    BY <1>2, <2>2, <2>3 DEF PrepareSubmit, Current, Editable
  <2>5. Begin(h, new)
    BY <2>1
  <2> HIDE DEF new
  <2> QED BY <1>2, <2>2, <2>4, <2>5, OneMore DEF PrepareSubmit
<1>3. ASSUME NEW s \in Sessions, NEW route, NEW m \in Modes \cup {None}, NEW n,
             PrepareUpdate(h, s, route, m, n)
      PROVE  Agreed'
  <2> DEFINE new == [Idle EXCEPT !.op = "update", !.session = s, !.route = route,
                                 !.mode = m, !.total = n]
  <2>1. new.op = "update" /\ new.session = s /\ new.mode = m
    BY DEF Idle
  <2>2. Current(new, s)
    BY <1>3, <2>1 DEF PrepareUpdate, Current, Editable
  <2>3. Begin(h, new)
    BY <1>3 DEF PrepareUpdate
  <2> HIDE DEF new
  <2> QED BY <1>3, <2>1, <2>2, <2>3, OneMore DEF PrepareUpdate
<1>4. ASSUME NEW s \in Sessions, PrepareValidate(h, s) PROVE Agreed'
  <2> DEFINE new == [Idle EXCEPT !.op = "validate", !.session = s]
  <2>1. new.op = "validate" /\ new.session = s
    BY DEF Idle
  <2>2. Current(new, s)
    BY <1>4, <2>1 DEF PrepareValidate, Current
  <2>3. Begin(h, new)
    BY <1>4 DEF PrepareValidate
  <2> HIDE DEF new
  <2> QED BY <1>4, <2>1, <2>2, <2>3, OneMore DEF PrepareValidate
<1>5. ASSUME Rollback(h) PROVE Agreed'
  <2>1. PICK s : s = job[h].session
    OBVIOUS
  <2>2. /\ s \in Sessions
        /\ UNCHANGED <<session, items, shared>>
        /\ \A g \in Handlers : job'[g] \in {job[g], Idle}
    BY <1>5, <2>1 DEF Rollback, End, Agreed, Shape
  <2>3. Sound(s)'
    <3>1. Sound(s)
      BY <2>2 DEF Agreed
    <3> QED BY <2>2, <3>1 DEF Sound
  <2>4. ASSUME NEW g \in Handlers, job'[g] = job[g], job[g].op # "idle", job[g].session = s
        PROVE  Current(job[g], s)'
    <3>1. Current(job[g], s)
      BY <2>4 DEF Agreed
    <3> QED BY <2>2, <2>4, <3>1 DEF Current
  <2> QED BY <2>2, <2>3, <2>4, OneSession
<1> QED BY <1>1, <1>2, <1>3, <1>4, <1>5, CommitAgrees DEF HandlerStep

LEMMA InitAgrees == Init => Agreed
BY InitHasShape DEF Init, Agreed, Sound, NoSession, Idle, Modes

LEMMA StepAgrees == Agreed /\ [Next]_vars => Agreed'
<1> SUFFICES ASSUME Agreed, [Next]_vars PROVE Agreed'
  OBVIOUS
<1>1. Shape'
  BY StepRespects DEF Agreed, Respects
<1>2. CASE UNCHANGED vars
  BY <1>1, <1>2 DEF vars, Agreed, Sound, Current
<1>3. CASE Crash
  BY <1>1, <1>3 DEF Crash, Agreed, Sound, Idle
<1> QED BY <1>1, <1>2, <1>3, SessionStepAgrees, HandlerStepAgrees DEF Next

(* A total under review is the sum of the items it stands beside, and a     *)
(* bulk session has none, for any number of houses and of handlers, as long *)
(* as no two worked on the session at once.                                 *)
THEOREM TotalsAgree == Spec => []TotalsMatchItems
<1>1. Agreed => TotalsMatchItems
  BY DEF Agreed, Sound, Reviewed, Modes, TotalsMatchItems
<1> QED BY InitAgrees, StepAgrees, <1>1, PTL DEF Spec

(* Nothing empty passes review, under the same condition.                   *)
THEOREM ReviewIsOfSomething == Spec => []ReviewedIsReady
<1>1. Agreed => ReviewedIsReady
  BY DEF Agreed, Sound, Reviewed, Modes, ReviewedIsReady
<1> QED BY InitAgrees, StepAgrees, <1>1, PTL DEF Spec
=============================================================================
