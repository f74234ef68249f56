--------------------------- MODULE DeliveryProofs ---------------------------
(***************************************************************************)
(* What delivery promises, for any number of notifications, passes, events *)
(* and faults.  That a PENDING notification keeps an event needs a         *)
(* strengthening: a pass which read the notification before it was retried *)
(* still settles its old event, so the event that carries the retry has to *)
(* be another one.                                                         *)
(***************************************************************************)
EXTENDS Delivery, SequenceTheorems, FiniteSetTheorems, TLAPS

Settles(p, e) == process[p].pc = "settling" /\ Current(p) = e

(* An event that n can be delivered with: whoever settles it knows that n   *)
(* is PENDING, and will write the outcome.                                  *)
Carries(e, n) ==
  /\ outbox[e].of = n
  /\ outbox[e].status \in {"PENDING", "PROCESSING"}
  /\ \A p \in Processes : Settles(p, e) => process[p].seen = "PENDING"

PendingIsCarried ==
  \A n \in Notifications : notification[n] = "PENDING" => \E e \in Events : Carries(e, n)

(* A pass that was told its message arrived was told the truth. *)
AnswersAreTrue ==
  \A p \in Processes :
    (process[p].pc \in {"answered", "settling"} /\ process[p].ok)
      => delivered[outbox[Current(p)].of] > 0

(* The inductive invariant. *)
DeliveryInv ==
  /\ TypeOK
  /\ PendingIsCarried
  /\ AnswersAreTrue
  /\ ProcessedMeansDelivered

-----------------------------------------------------------------------------
(* What steps do to the outbox. *)

LEMMA RowsAreTyped ==
  ASSUME TypeOK
  PROVE  \A e \in Events : outbox[e] \in EventRow /\ outbox[e].of \in Notifications
<1> SUFFICES ASSUME NEW e \in Events
             PROVE  outbox[e] \in EventRow /\ outbox[e].of \in Notifications
  OBVIOUS
<1>1. outbox[e] \in EventRow
  BY ElementOfSeq, LenProperties DEF TypeOK, Events
<1> QED BY <1>1 DEF EventRow

(* The event a pass is at. *)
LEMMA CurrentIsEvent ==
  ASSUME TypeOK, NEW p \in Processes, process[p].batch # <<>>
  PROVE  /\ Current(p) \in Events
         /\ outbox[Current(p)] \in EventRow
         /\ Tail(process[p].batch) \in Seq(Events)
<1>1. process[p].batch \in Seq(Events)
  BY DEF TypeOK, Passes
<1>2. Current(p) \in Events /\ Tail(process[p].batch) \in Seq(Events)
  BY <1>1, HeadTailProperties DEF Current
<1> QED BY <1>2, ElementOfSeq DEF TypeOK, Events

LEMMA RowChanges ==
  ASSUME NEW box \in Seq(EventRow), NEW e \in DOMAIN box, NEW row \in EventRow
  PROVE  /\ [box EXCEPT ![e] = row] \in Seq(EventRow)
         /\ DOMAIN [box EXCEPT ![e] = row] = DOMAIN box
         /\ [box EXCEPT ![e] = row][e] = row
         /\ \A f \in DOMAIN box \ {e} : [box EXCEPT ![e] = row][f] = box[f]
BY ExceptSeq, LenProperties

LEMMA RowIsAdded ==
  ASSUME NEW box \in Seq(EventRow), NEW row \in EventRow
  PROVE  /\ Append(box, row) \in Seq(EventRow)
         /\ DOMAIN box \subseteq DOMAIN Append(box, row)
         /\ Len(box) + 1 \in DOMAIN Append(box, row) /\ Len(box) + 1 \notin DOMAIN box
         /\ Append(box, row)[Len(box) + 1] = row
         /\ DOMAIN Append(box, row) = DOMAIN box \cup {Len(box) + 1}
         /\ \A f \in DOMAIN box : Append(box, row)[f] = box[f]
BY AppendProperties, LenProperties

(* Passes stay typed when the outbox grows. *)
LEMMA PassesGrow ==
  ASSUME NEW S, NEW T, S \subseteq T, NEW s \in Seq(S)
  PROVE  s \in Seq(T)
BY SeqMonotonic

LEMMA EventIsRow ==
  ASSUME NEW n \in Notifications
  PROVE  Event(n) \in EventRow /\ Event(n).of = n /\ Event(n).status = "PENDING"
         /\ Event(n).stale = FALSE
BY DEF Event, EventRow


(* The fields of a pass, and passes that stay typed. *)
LEMMA PassesAreTyped ==
  ASSUME TypeOK, NEW p \in Processes
  PROVE  /\ process[p] \in Passes
         /\ process[p].batch \in Seq(Events) /\ process[p].found \subseteq Events
         /\ Idle \in Passes
<1>1. << >> \in Seq(Events)
  BY EmptySeq
<1>2. Idle \in Passes
  BY <1>1 DEF Idle, Passes
<1>3. process[p] \in Passes
  BY DEF TypeOK
<1> QED BY <1>2, <1>3 DEF Passes

-----------------------------------------------------------------------------
(* Steps of administrators. *)

(* A notification becomes PENDING together with an event of its own, which  *)
(* no pass has seen yet.                                                    *)
LEMMA NewEventStep ==
  ASSUME DeliveryInv, NEW n \in Notifications,
         outbox' = Append(outbox, Event(n)),
         notification' = [notification EXCEPT ![n] = "PENDING"],
         UNCHANGED <<delivered, process, faults>>
  PROVE  DeliveryInv'
<1>1. TypeOK /\ outbox \in Seq(EventRow) /\ Event(n) \in EventRow
  BY EventIsRow DEF DeliveryInv, TypeOK
<1> PICK new : new = Len(outbox) + 1
  OBVIOUS
<1>2. /\ outbox' \in Seq(EventRow) /\ Events \subseteq Events' /\ Events' = Events \cup {new}
      /\ new \in Events' /\ new \notin Events /\ outbox'[new] = Event(n)
      /\ \A f \in Events : outbox'[f] = outbox[f]
  BY <1>1, RowIsAdded DEF Events
<1>3. \A p \in Processes : process[p].batch # <<>> => Current(p) \in Events
  BY <1>1, CurrentIsEvent
<1>4. \A p \in Processes : process[p].pc \in {"answered", "settling"} => Current(p) \in Events
  BY <1>1, <1>3 DEF TypeOK
<1>5. TypeOK'
  <2>1. \A p \in Processes : process'[p] \in Passes'
    <3> SUFFICES ASSUME NEW p \in Processes PROVE process[p] \in Passes'
      OBVIOUS
    <3>1. process[p].batch \in Seq(Events') /\ process[p].found \in SUBSET Events'
      BY <1>1, <1>2, PassesAreTyped, SeqMonotonic
    <3> QED BY <1>1, <3>1, PassesAreTyped DEF Passes
  <2>2. process' \in [Processes -> Passes']
    BY <1>1, <2>1 DEF TypeOK
  <2>3. notification' \in [Notifications -> Statuses \cup {"none"}]
    BY <1>1 DEF TypeOK, Statuses, Undelivered
  <2> QED BY <1>1, <1>2, <2>2, <2>3 DEF TypeOK
<1>6. PendingIsCarried'
  <2>1. ASSUME NEW m \in Notifications, m # n, notification'[m] = "PENDING"
        PROVE  \E e \in Events' : Carries(e, m)'
    <3>1. PICK e \in Events : Carries(e, m)
      BY <1>1, <2>1 DEF DeliveryInv, PendingIsCarried, TypeOK
    <3>2. Carries(e, m)'
      BY <1>2, <3>1 DEF Carries, Settles, Current
    <3> QED BY <1>2, <3>2
  <2>2. Carries(new, n)'
    <3>1. \A p \in Processes : ~Settles(p, new)'
      BY <1>2, <1>4 DEF Settles, Current
    <3> QED BY <1>2, <3>1, EventIsRow DEF Carries
  <2> QED BY <1>2, <2>1, <2>2 DEF PendingIsCarried
<1>7. AnswersAreTrue'
  BY <1>2, <1>4 DEF DeliveryInv, AnswersAreTrue, Current
<1>8. ProcessedMeansDelivered'
  <2>1. outbox'[new].status # "PROCESSED"
    BY <1>2, EventIsRow
  <2> QED BY <1>2, <2>1 DEF DeliveryInv, ProcessedMeansDelivered
<1> QED BY <1>5, <1>6, <1>7, <1>8 DEF DeliveryInv

(* A notification that leaves PENDING, or was not in it, needs no event. *)
LEMMA StatusStep ==
  ASSUME DeliveryInv, NEW n \in Notifications, NEW status \in Final \cup {"FAILED"},
         notification' = [notification EXCEPT ![n] = status],
         UNCHANGED <<outbox, delivered, process, faults>>
  PROVE  DeliveryInv'
<1>1. TypeOK'
  BY DEF DeliveryInv, TypeOK, Passes, Events, Statuses, Undelivered, Final
<1>2. \A m \in Notifications : notification'[m] = "PENDING" => notification[m] = "PENDING"
  BY DEF DeliveryInv, TypeOK, Final
<1>3. PendingIsCarried'
  BY <1>2 DEF DeliveryInv, PendingIsCarried, Carries, Settles, Current, Events
<1>4. AnswersAreTrue' /\ ProcessedMeansDelivered'
  BY DEF DeliveryInv, AnswersAreTrue, ProcessedMeansDelivered, Current, Events
<1> QED BY <1>1, <1>3, <1>4 DEF DeliveryInv

LEMMA AdministrationStep ==
  ASSUME DeliveryInv, Administration
  PROVE  DeliveryInv'
<1>1. ASSUME NEW n \in Notifications, CreateNotification(n) \/ RetryDelivery(n) PROVE DeliveryInv'
  BY <1>1, NewEventStep DEF CreateNotification, RetryDelivery
<1>2. ASSUME NEW n \in Notifications, CancelNotification(n) PROVE DeliveryInv'
  BY <1>2, StatusStep DEF CancelNotification, Final
<1>3. ASSUME NEW n \in Notifications, NEW result \in Final \cup {"FAILED"},
             MarkDeliveryResult(n, result)
      PROVE  DeliveryInv'
  BY <1>3, StatusStep DEF MarkDeliveryResult
<1> QED BY <1>1, <1>2, <1>3 DEF Administration

-----------------------------------------------------------------------------
(* Steps of a pass, up to the one that settles. *)

(* Events stay what they are of, and those that can carry a notification    *)
(* still can; who begins to settle has just read the notification.          *)
LEMMA PassStep ==
  ASSUME DeliveryInv, TypeOK', UNCHANGED notification,
         Events' = Events,
         \A e \in Events :
           /\ outbox'[e].of = outbox[e].of
           /\ outbox[e].status \in {"PENDING", "PROCESSING"}
                => outbox'[e].status \in {"PENDING", "PROCESSING"}
           /\ outbox'[e].status = "PROCESSED" => outbox[e].status = "PROCESSED",
         \A n \in Notifications : delivered[n] > 0 => delivered'[n] > 0,
         \A p \in Processes : process'[p].pc = "settling" =>
           \/ /\ process[p].pc = "settling" /\ process'[p].batch = process[p].batch
              /\ process'[p].seen = process[p].seen
           \/ notification[outbox[Head(process'[p].batch)].of] = process'[p].seen,
         AnswersAreTrue'
  PROVE  DeliveryInv'
<1>1. \A e \in Events : outbox[e].of \in Notifications
  BY RowsAreTyped DEF DeliveryInv
<1>2. PendingIsCarried'
  <2> SUFFICES ASSUME NEW n \in Notifications, notification[n] = "PENDING"
               PROVE  \E e \in Events' : Carries(e, n)'
    BY DEF PendingIsCarried
  <2>1. PICK e \in Events : Carries(e, n)
    BY DEF DeliveryInv, PendingIsCarried
  <2>2. \A p \in Processes : Settles(p, e)' => process'[p].seen = "PENDING"
    BY <2>1 DEF Carries, Settles, Current
  <2> QED BY <2>1, <2>2 DEF Carries
<1>3. ProcessedMeansDelivered'
  BY <1>1 DEF DeliveryInv, ProcessedMeansDelivered
<1> QED BY <1>2, <1>3 DEF DeliveryInv

(* A step that changes one row of the outbox at most, without settling it. *)
LEMMA GrowStaleStep ==
  ASSUME DeliveryInv, NEW e \in Events, GrowStale(e)
  PROVE  DeliveryInv'
<1>1. TypeOK /\ outbox \in Seq(EventRow) /\ outbox[e] \in EventRow
  BY ElementOfSeq, LenProperties DEF DeliveryInv, TypeOK, Events
<1> DEFINE row == [outbox[e] EXCEPT !.stale = TRUE]
<1>2. row \in EventRow /\ row.of = outbox[e].of /\ row.status = outbox[e].status
  BY <1>1 DEF EventRow
<1>3. outbox' = [outbox EXCEPT ![e] = row]
  BY DEF GrowStale
<1> HIDE DEF row
<1>4. /\ outbox' \in Seq(EventRow) /\ Events' = Events /\ outbox'[e] = row
      /\ \A f \in Events \ {e} : outbox'[f] = outbox[f]
  BY <1>1, <1>2, <1>3, RowChanges DEF Events
<1>5. UNCHANGED <<notification, delivered, process>> /\ faults' \in 0 .. MaxFaults
  BY <1>1, BoundsAreNumbers DEF GrowStale, TypeOK
<1>6. TypeOK'
  BY <1>1, <1>4, <1>5 DEF TypeOK, Passes
<1>7. AnswersAreTrue'
  <2>1. \A f \in Events : outbox'[f].of = outbox[f].of
    BY <1>2, <1>4
  <2>2. \A p \in Processes : process[p].pc \in {"answered", "settling"} => Current(p) \in Events
    BY <1>1, CurrentIsEvent DEF TypeOK
  <2> QED BY <1>5, <2>1, <2>2 DEF DeliveryInv, AnswersAreTrue, Current
<1> QED BY <1>2, <1>4, <1>5, <1>6, <1>7, PassStep


(* The same, for the pass p alone, which neither sends nor settles next, or *)
(* has just read what it settles.                                           *)
LEMMA OnePassStep ==
  ASSUME DeliveryInv, UNCHANGED <<notification, delivered>>, faults' \in 0 .. MaxFaults,
         outbox' \in Seq(EventRow), Events' = Events,
         \A e \in Events :
           /\ outbox'[e].of = outbox[e].of
           /\ outbox[e].status \in {"PENDING", "PROCESSING"}
                => outbox'[e].status \in {"PENDING", "PROCESSING"}
           /\ outbox'[e].status = "PROCESSED" => outbox[e].status = "PROCESSED",
         NEW p \in Processes, NEW pass \in Passes,
         process' = [process EXCEPT ![p] = pass],
         pass.pc \in {"sending", "answered", "settling"} => pass.batch # <<>>,
         \/ pass.pc \in {"idle", "claiming", "sending"}
         \/ /\ pass.pc = "settling" /\ process[p].pc = "answered"
            /\ pass.batch = process[p].batch /\ pass.ok = process[p].ok
            /\ notification[outbox[Head(pass.batch)].of] = pass.seen
  PROVE  DeliveryInv'
<1>1. TypeOK
  BY DEF DeliveryInv
<1>2. process'[p] = pass /\ \A r \in Processes \ {p} : process'[r] = process[r]
  BY <1>1 DEF TypeOK
<1>3. TypeOK'
  <2>1. process' \in [Processes -> Passes']
    BY <1>1 DEF TypeOK, Passes
  <2>2. \A r \in Processes :
          process'[r].pc \in {"sending", "answered", "settling"} => process'[r].batch # <<>>
    BY <1>1, <1>2 DEF TypeOK
  <2> QED BY <1>1, <2>1, <2>2 DEF TypeOK
<1>4. \A r \in Processes : process[r].pc \in {"answered", "settling"} => Current(r) \in Events
  BY <1>1, CurrentIsEvent DEF TypeOK
<1>5. AnswersAreTrue'
  <2>1. ASSUME NEW r \in Processes, process'[r].pc \in {"answered", "settling"}, process'[r].ok
        PROVE  /\ process[r].pc \in {"answered", "settling"} /\ process[r].ok
               /\ process'[r].batch = process[r].batch
    BY <1>2, <2>1
  <2> QED BY <1>4, <2>1 DEF DeliveryInv, AnswersAreTrue, Current
<1>6. \A r \in Processes : process'[r].pc = "settling" =>
        \/ /\ process[r].pc = "settling" /\ process'[r].batch = process[r].batch
           /\ process'[r].seen = process[r].seen
        \/ notification[outbox[Head(process'[r].batch)].of] = process'[r].seen
  BY <1>2
<1> QED BY <1>3, <1>5, <1>6, PassStep

LEMMA StartPassStep ==
  ASSUME DeliveryInv, NEW p \in Processes, StartPass(p)
  PROVE  DeliveryInv'
<1>1. TypeOK /\ outbox' = Recovered /\ UNCHANGED <<notification, delivered, faults>>
  BY DEF DeliveryInv, StartPass
<1>2. \A e \in Events :
        /\ Recovered[e] \in EventRow
        /\ Recovered[e].of = outbox[e].of
        /\ Recovered[e] = outbox[e] \/ Recovered[e].status = "PENDING"
  BY <1>1, RowsAreTyped, EventIsRow DEF Recovered
<1>3. Recovered \in Seq(EventRow) /\ DOMAIN Recovered = Events
  <2>1. Len(outbox) \in Nat /\ Events = 1 .. Len(outbox)
    BY <1>1, LenProperties DEF TypeOK, Events
  <2>2. Recovered \in [1 .. Len(outbox) -> EventRow]
    BY <1>2, <2>1 DEF Recovered
  <2> QED BY <2>1, <2>2, SeqDef DEF Recovered
<1> DEFINE pass == [Idle EXCEPT !.pc = "claiming", !.found = Candidates(Recovered)]
<1>4. Candidates(Recovered) \subseteq Events
  BY <1>3 DEF Candidates
<1>5. pass \in Passes /\ pass.pc = "claiming"
  <2> HIDE DEF Candidates
  <2> QED BY <1>1, <1>4, PassesAreTyped DEF Passes
<1>6. process' = [process EXCEPT ![p] = pass]
  BY DEF StartPass
<1> HIDE DEF pass
<1>7. faults' \in 0 .. MaxFaults
  BY <1>1 DEF TypeOK
<1>8. outbox' \in Seq(EventRow) /\ Events' = Events
  BY <1>1, <1>3 DEF Events
<1> QED BY <1>1, <1>2, <1>5, <1>6, <1>7, <1>8, OnePassStep

LEMMA ClaimNextStep ==
  ASSUME DeliveryInv, NEW p \in Processes, ClaimNext(p)
  PROVE  DeliveryInv'
<1>1. /\ TypeOK /\ UNCHANGED <<notification, delivered, faults>> /\ outbox \in Seq(EventRow)
      /\ process[p] \in Passes /\ process[p].batch \in Seq(Events) /\ process[p].pc = "claiming"
      /\ process[p].found \subseteq Events
  BY PassesAreTyped DEF DeliveryInv, ClaimNext, TypeOK
<1>2. PICK e \in process[p].found :
        /\ outbox' = [outbox EXCEPT ![e].status = IF Claimable(e) THEN "PROCESSING" ELSE @]
        /\ process' = [process EXCEPT ![p].found = @ \ {e},
                           ![p].batch = IF Claimable(e) THEN Append(@, e) ELSE @]
  BY DEF ClaimNext
<1>3. e \in Events /\ outbox[e] \in EventRow /\ e \in DOMAIN outbox
  BY <1>1, RowsAreTyped DEF Events
<1> DEFINE status == IF Claimable(e) THEN "PROCESSING" ELSE outbox[e].status
           row == [outbox[e] EXCEPT !.status = status]
           pass == [process[p] EXCEPT !.found = @ \ {e},
                           !.batch = IF Claimable(e) THEN Append(@, e) ELSE @]
<1>4. /\ row \in EventRow /\ row.of = outbox[e].of
      /\ row.status = outbox[e].status \/ (row.status = "PROCESSING" /\ outbox[e].status = "PENDING")
  <2>1. /\ status \in {"PENDING", "PROCESSING", "PROCESSED", "FAILED"}
        /\ status = outbox[e].status \/ (status = "PROCESSING" /\ outbox[e].status = "PENDING")
    <3>1. Claimable(e) => outbox[e].status = "PENDING"
      BY DEF Claimable
    <3>2. outbox[e].status \in {"PENDING", "PROCESSING", "PROCESSED", "FAILED"}
      BY <1>3 DEF EventRow
    <3> QED BY <3>1, <3>2
  <2> HIDE DEF status
  <2>2. row \in EventRow /\ row.of = outbox[e].of /\ row.status = status
    BY <1>3, <2>1 DEF EventRow
  <2> HIDE DEF row
  <2> QED BY <2>1, <2>2
<1>5. outbox' = [outbox EXCEPT ![e] = row]
  BY <1>2, <1>3
<1>6. pass \in Passes /\ pass.pc = "claiming"
  <2>1. Append(process[p].batch, e) \in Seq(Events)
    BY <1>1, <1>3, AppendProperties
  <2> QED BY <1>1, <2>1 DEF Passes
<1>7. process' = [process EXCEPT ![p] = pass]
  BY <1>2
<1> HIDE DEF row, pass
<1>8. /\ outbox' \in Seq(EventRow) /\ Events' = Events /\ outbox'[e] = row
      /\ \A f \in Events \ {e} : outbox'[f] = outbox[f]
  BY <1>1, <1>3, <1>4, <1>5, RowChanges DEF Events
<1>9. \A f \in Events :
           /\ outbox'[f].of = outbox[f].of
           /\ outbox[f].status \in {"PENDING", "PROCESSING"}
                => outbox'[f].status \in {"PENDING", "PROCESSING"}
           /\ outbox'[f].status = "PROCESSED" => outbox[f].status = "PROCESSED"
  BY <1>4, <1>8
<1>10. faults' \in 0 .. MaxFaults
  BY <1>1 DEF TypeOK
<1> QED BY <1>1, <1>6, <1>7, <1>8, <1>9, <1>10, OnePassStep

(* A step that leaves the outbox as it is. *)
LEMMA QuietPassStep ==
  ASSUME DeliveryInv, UNCHANGED <<notification, outbox, delivered>>, faults' \in 0 .. MaxFaults,
         NEW p \in Processes, NEW pass \in Passes,
         process' = [process EXCEPT ![p] = pass],
         pass.pc \in {"sending", "answered", "settling"} => pass.batch # <<>>,
         \/ pass.pc \in {"idle", "claiming", "sending"}
         \/ /\ pass.pc = "settling" /\ process[p].pc = "answered"
            /\ pass.batch = process[p].batch /\ pass.ok = process[p].ok
            /\ notification[outbox[Head(pass.batch)].of] = pass.seen
  PROVE  DeliveryInv'
<1>1. outbox' \in Seq(EventRow) /\ Events' = Events
  BY DEF DeliveryInv, TypeOK, Events
<1> QED BY <1>1, OnePassStep

(* The rest of a batch. *)
LEMMA NextInBatchIsTyped ==
  ASSUME TypeOK, NEW p \in Processes, process[p].batch # <<>>
  PROVE  /\ NextInBatch(process[p]) \in Passes
         /\ NextInBatch(process[p]).pc \in {"idle", "sending"}
         /\ NextInBatch(process[p]).pc = "sending" => NextInBatch(process[p]).batch # <<>>
<1>1. process[p].batch \in Seq(Events) /\ Idle \in Passes
  BY PassesAreTyped
<1>2. CASE Len(process[p].batch) = 1
  BY <1>1, <1>2 DEF NextInBatch, Idle
<1>3. CASE Len(process[p].batch) # 1
  <2> DEFINE rest == Tail(process[p].batch)
  <2>1. rest \in Seq(Events) /\ Len(rest) # 0
    BY <1>1, <1>3, HeadTailProperties, LenProperties
  <2>2. rest # <<>>
    BY <2>1, EmptySeq
  <2> HIDE DEF rest
  <2>3. [Idle EXCEPT !.pc = "sending", !.batch = rest] \in Passes
    BY <1>1, <2>1 DEF Passes
  <2>4. /\ [Idle EXCEPT !.pc = "sending", !.batch = rest].pc = "sending"
        /\ [Idle EXCEPT !.pc = "sending", !.batch = rest].batch = rest
    BY DEF Idle
  <2>5. NextInBatch(process[p]) = [Idle EXCEPT !.pc = "sending", !.batch = rest]
    BY <1>3 DEF NextInBatch, rest
  <2> QED BY <2>2, <2>3, <2>4, <2>5
<1> QED BY <1>2, <1>3

LEMMA EndClaimsStep ==
  ASSUME DeliveryInv, NEW p \in Processes, EndClaims(p)
  PROVE  DeliveryInv'
<1>1. /\ TypeOK /\ UNCHANGED <<notification, outbox, delivered>> /\ faults' \in 0 .. MaxFaults
      /\ process[p].batch \in Seq(Events) /\ Idle \in Passes /\ Idle.pc = "idle"
  BY PassesAreTyped DEF DeliveryInv, EndClaims, TypeOK, Idle
<1>2. CASE process[p].batch = <<>>
  <2>1. process' = [process EXCEPT ![p] = Idle]
    BY <1>2 DEF EndClaims
  <2> QED BY <1>1, <2>1, QuietPassStep
<1>3. CASE process[p].batch # <<>>
  <2> DEFINE pass == [Idle EXCEPT !.pc = "sending", !.batch = process[p].batch]
  <2>1. process' = [process EXCEPT ![p] = pass]
    BY <1>3 DEF EndClaims
  <2>2. pass \in Passes
    BY <1>1 DEF Passes
  <2>3. pass.pc = "sending" /\ pass.batch = process[p].batch
    BY DEF Idle
  <2> HIDE DEF pass
  <2> QED BY <1>1, <1>3, <2>1, <2>2, <2>3, QuietPassStep
<1> QED BY <1>2, <1>3

LEMMA CrashStep ==
  ASSUME DeliveryInv, NEW p \in Processes, Crash(p)
  PROVE  DeliveryInv'
<1>1. /\ UNCHANGED <<notification, outbox, delivered>> /\ faults' \in 0 .. MaxFaults
      /\ process' = [process EXCEPT ![p] = Idle] /\ Idle \in Passes
  BY PassesAreTyped, BoundsAreNumbers DEF DeliveryInv, Crash, TypeOK
<1>2. Idle.pc = "idle"
  BY DEF Idle
<1> QED BY <1>1, <1>2, QuietPassStep

LEMMA BeginSettleStep ==
  ASSUME DeliveryInv, NEW p \in Processes, BeginSettle(p)
  PROVE  DeliveryInv'
<1>1. /\ TypeOK /\ UNCHANGED <<notification, outbox, delivered>> /\ faults' \in 0 .. MaxFaults
      /\ process[p] \in Passes /\ process[p].pc = "answered" /\ process[p].batch # <<>>
  BY PassesAreTyped DEF DeliveryInv, BeginSettle, TypeOK
<1>2. Current(p) \in Events /\ outbox[Current(p)].of \in Notifications
  BY <1>1, CurrentIsEvent, RowsAreTyped
<1>3. CASE outbox[Current(p)].status = "PROCESSING"
  <2> DEFINE seen == notification[outbox[Current(p)].of]
             pass == [process[p] EXCEPT !.pc = "settling", !.seen = seen]
  <2>1. process' = [process EXCEPT ![p] = pass]
    BY <1>3 DEF BeginSettle
  <2>2. seen \in Statuses \cup {"none"}
    BY <1>1, <1>2 DEF TypeOK
  <2>3. /\ pass \in Passes /\ pass.pc = "settling" /\ pass.batch = process[p].batch
        /\ pass.ok = process[p].ok /\ pass.seen = seen
    BY <1>1, <2>2 DEF Passes
  <2>4. notification[outbox[Head(pass.batch)].of] = pass.seen
    <3> HIDE DEF pass
    <3> QED BY <2>3 DEF Current
  <2> HIDE DEF pass, seen
  <2> QED BY <1>1, <2>1, <2>3, <2>4, QuietPassStep
<1>4. CASE outbox[Current(p)].status # "PROCESSING"
  <2>1. process' = [process EXCEPT ![p] = NextInBatch(process[p])]
    BY <1>4 DEF BeginSettle
  <2> QED BY <1>1, <2>1, NextInBatchIsTyped, QuietPassStep
<1> QED BY <1>3, <1>4


LEMMA SendStep ==
  ASSUME DeliveryInv, NEW p \in Processes, Send(p)
  PROVE  DeliveryInv'
<1>1. /\ TypeOK /\ UNCHANGED <<notification, outbox, faults>> /\ Events' = Events
      /\ process[p] \in Passes /\ process[p].pc = "sending" /\ process[p].batch # <<>>
  BY PassesAreTyped DEF DeliveryInv, Send, TypeOK, Events
<1>2. Current(p) \in Events /\ outbox[Current(p)].of \in Notifications
  BY <1>1, CurrentIsEvent, RowsAreTyped
<1> DEFINE n == outbox[Current(p)].of
<1>3. PICK ok \in BOOLEAN, arrived \in BOOLEAN :
        /\ ok => arrived
        /\ delivered' = [delivered EXCEPT ![n] =
             IF arrived /\ delivered[n] < MaxMessages THEN delivered[n] + 1 ELSE delivered[n]]
        /\ process' = [process EXCEPT ![p].pc = "answered", ![p].ok = ok]
  BY DEF Send
<1> HIDE DEF n
<1>4. /\ process'[p] = [process[p] EXCEPT !.pc = "answered", !.ok = ok]
      /\ \A r \in Processes \ {p} : process'[r] = process[r]
  BY <1>1, <1>3 DEF TypeOK
<1>5. /\ process'[p] \in Passes /\ process'[p].pc = "answered" /\ process'[p].ok = ok
      /\ process'[p].batch = process[p].batch
  BY <1>1, <1>4 DEF Passes
<1>6. /\ delivered' \in [Notifications -> 0 .. MaxMessages]
      /\ \A m \in Notifications : delivered[m] > 0 => delivered'[m] > 0
      /\ ok => delivered'[n] > 0
  <2>1. n \in Notifications /\ delivered \in [Notifications -> 0 .. MaxMessages]
    BY <1>1, <1>2 DEF TypeOK, n
  <2>2. CASE arrived /\ delivered[n] < MaxMessages
    <3>1. delivered[n] + 1 \in 1 .. MaxMessages
      BY <2>1, <2>2, BoundsAreNumbers
    <3>2. delivered' = [delivered EXCEPT ![n] = delivered[n] + 1]
      BY <1>3, <2>2
    <3> QED BY <2>1, <3>1, <3>2, BoundsAreNumbers
  <2>3. CASE ~(arrived /\ delivered[n] < MaxMessages)
    <3>1. delivered' = [delivered EXCEPT ![n] = delivered[n]]
      BY <1>3, <2>3
    <3>2. delivered' = delivered
      BY <2>1, <3>1
    <3>3. ok => delivered[n] > 0
      BY <1>3, <2>1, <2>3, BoundsAreNumbers
    <3> QED BY <2>1, <3>2, <3>3
  <2> QED BY <2>2, <2>3
<1>7. TypeOK'
  <2>1. process' \in [Processes -> Passes']
    BY <1>1, <1>3, <1>5 DEF TypeOK, Passes
  <2>2. \A r \in Processes :
          process'[r].pc \in {"sending", "answered", "settling"} => process'[r].batch # <<>>
    BY <1>1, <1>4, <1>5 DEF TypeOK
  <2> QED BY <1>1, <1>6, <2>1, <2>2 DEF TypeOK
<1>8. AnswersAreTrue'
  <2>1. \A r \in Processes : process[r].pc \in {"answered", "settling"} =>
          Current(r) \in Events /\ outbox[Current(r)].of \in Notifications
    BY <1>1, CurrentIsEvent, RowsAreTyped DEF TypeOK
  <2>2. (process'[p].ok => delivered'[outbox'[Head(process'[p].batch)].of] > 0)
    BY <1>1, <1>5, <1>6 DEF Current, n
  <2> QED BY <1>1, <1>4, <1>6, <2>1, <2>2 DEF DeliveryInv, AnswersAreTrue, Current
<1> QED BY <1>1, <1>4, <1>5, <1>6, <1>7, <1>8, PassStep

-----------------------------------------------------------------------------
(* Settling an event.  What becomes of its notification leaves PENDING only *)
(* a notification that was retried since the pass read it.                  *)

LEMMA StatusAfterIsFinal ==
  ASSUME TypeOK, NEW p \in Processes, process[p].pc = "settling",
         NEW now \in Statuses \cup {"none"}
  PROVE  /\ StatusAfter(process[p], now) \in Statuses \cup {"none"}
         /\ now \in Final => StatusAfter(process[p], now) = now
         /\ StatusAfter(process[p], now) = "PENDING" =>
              now = "PENDING" /\ process[p].seen # "PENDING"
<1> DEFINE q == process[p]
<1>1. q.seen \in Final \/ now # q.seen => StatusAfter(q, now) = now
  BY DEF StatusAfter
<1>2. ~(q.seen \in Final \/ now # q.seen) => StatusAfter(q, now) \in {"SENT", "FAILED"}
  BY DEF StatusAfter
<1> HIDE DEF q
<1>3. /\ StatusAfter(q, now) \in Statuses \cup {"none"}
      /\ now \in Final => StatusAfter(q, now) = now
      /\ StatusAfter(q, now) = "PENDING" => now = "PENDING" /\ q.seen # "PENDING"
  BY <1>1, <1>2 DEF Statuses, Undelivered, Final
<1> QED BY <1>3 DEF q

LEMMA SettleStep ==
  ASSUME DeliveryInv, NEW p \in Processes, Settle(p)
  PROVE  DeliveryInv'
<1> DEFINE q == process[p]
<1> PICK e : e = Current(p)
  OBVIOUS
<1>1. /\ TypeOK /\ UNCHANGED <<delivered, faults>> /\ outbox \in Seq(EventRow)
      /\ q \in Passes /\ q.pc = "settling" /\ q.batch # <<>>
  BY PassesAreTyped DEF DeliveryInv, Settle, TypeOK
<1>2. e \in Events /\ outbox[e] \in EventRow /\ e \in DOMAIN outbox
      /\ outbox[e].of \in Notifications
  BY <1>1, CurrentIsEvent, RowsAreTyped DEF Events
<1> PICK n \in Notifications : n = outbox[e].of
  BY <1>2
<1> DEFINE row == [outbox[e] EXCEPT !.status = Outcome(q.ok), !.stale = FALSE]
<1>3. Outcome(q.ok) \in {"PROCESSED", "FAILED"} /\ (Outcome(q.ok) = "PROCESSED" => q.ok)
  BY <1>1 DEF Outcome, Passes
<1>4. row \in EventRow /\ row.of = n /\ row.status = Outcome(q.ok)
  BY <1>2, <1>3 DEF EventRow
<1>5. outbox' = [outbox EXCEPT ![e] = row]
  BY DEF Settle
<1> HIDE DEF row
<1>6. /\ outbox' \in Seq(EventRow) /\ Events' = Events /\ outbox'[e] = row
      /\ \A f \in Events \ {e} : outbox'[f] = outbox[f]
  BY <1>1, <1>2, <1>4, <1>5, RowChanges DEF Events
<1>7. /\ process'[p] = NextInBatch(q) /\ process'[p] \in Passes
      /\ process'[p].pc \in {"idle", "sending"}
      /\ process'[p].pc = "sending" => process'[p].batch # <<>>
      /\ \A r \in Processes \ {p} : process'[r] = process[r]
  BY <1>1, NextInBatchIsTyped DEF Settle, TypeOK
<1>8. notification[n] \in Statuses \cup {"none"}
  BY <1>1 DEF TypeOK
<1>9. /\ notification'[n] = StatusAfter(q, notification[n])
      /\ notification' = [notification EXCEPT ![n] = StatusAfter(q, notification[n])]
      /\ \A m \in Notifications \ {n} : notification'[m] = notification[m]
  BY <1>1 DEF Settle, TypeOK
<1>10. TypeOK'
  <2>1. process' \in [Processes -> Passes']
    BY <1>1, <1>6, <1>7 DEF Settle, TypeOK, Passes
  <2>2. \A r \in Processes :
          process'[r].pc \in {"sending", "answered", "settling"} => process'[r].batch # <<>>
    BY <1>1, <1>7 DEF TypeOK
  <2>3. notification' \in [Notifications -> Statuses \cup {"none"}]
    BY <1>1, <1>8, <1>9, StatusAfterIsFinal DEF TypeOK
  <2> QED BY <1>1, <1>6, <2>1, <2>2, <2>3 DEF TypeOK
<1>11. PendingIsCarried'
  <2> SUFFICES ASSUME NEW m \in Notifications, notification'[m] = "PENDING"
               PROVE  \E f \in Events' : Carries(f, m)'
    BY DEF PendingIsCarried
  <2>1. notification[m] = "PENDING" /\ (m = n => q.seen # "PENDING")
    BY <1>1, <1>8, <1>9, StatusAfterIsFinal
  <2>2. PICK f \in Events : Carries(f, m)
    BY <2>1 DEF DeliveryInv, PendingIsCarried
  <2>3. f # e
    BY <1>1, <2>1, <2>2 DEF Carries, Settles
  <2>4. \A r \in Processes : Settles(r, f)' => Settles(r, f) /\ process'[r].seen = process[r].seen
    BY <1>7 DEF Settles, Current
  <2> QED BY <1>6, <2>2, <2>3, <2>4 DEF Carries
<1>12. \A f \in Events : outbox'[f].of = outbox[f].of
  BY <1>4, <1>6
<1>13. AnswersAreTrue'
  <2>1. \A r \in Processes : process[r].pc \in {"answered", "settling"} => Current(r) \in Events
    BY <1>1, CurrentIsEvent DEF TypeOK
  <2> QED BY <1>1, <1>7, <1>12, <2>1 DEF DeliveryInv, AnswersAreTrue, Current
<1>14. ProcessedMeansDelivered'
  <2>1. q.ok => delivered[n] > 0
    BY <1>1 DEF DeliveryInv, AnswersAreTrue
  <2> QED BY <1>1, <1>3, <1>4, <1>6, <2>1 DEF DeliveryInv, ProcessedMeansDelivered
<1> QED BY <1>10, <1>11, <1>13, <1>14 DEF DeliveryInv

-----------------------------------------------------------------------------
(* The theorems. *)

LEMMA InitHolds == Init => DeliveryInv
<1> SUFFICES ASSUME Init PROVE DeliveryInv
  OBVIOUS
<1>1. Idle.pc = "idle"
  BY DEF Idle
<1>2. Events = {} /\ outbox \in Seq(EventRow)
  BY EmptySeq, LenProperties DEF Init, Events
<1>3. Idle \in Passes
  <2>1. << >> \in Seq(Events)
    BY EmptySeq
  <2> QED BY <2>1 DEF Idle, Passes
<1>4. TypeOK
  BY <1>1, <1>2, <1>3, BoundsAreNumbers DEF Init, TypeOK
<1>5. PendingIsCarried /\ AnswersAreTrue /\ ProcessedMeansDelivered
  BY <1>1, <1>2 DEF Init, PendingIsCarried, AnswersAreTrue, ProcessedMeansDelivered
<1> QED BY <1>4, <1>5 DEF DeliveryInv

LEMMA StepHolds == DeliveryInv /\ [Next]_vars => DeliveryInv'
<1> SUFFICES ASSUME DeliveryInv, [Next]_vars PROVE DeliveryInv'
  OBVIOUS
<1>1. CASE UNCHANGED vars
  BY <1>1 DEF vars, DeliveryInv, TypeOK, PendingIsCarried, Carries, Settles, AnswersAreTrue,
              ProcessedMeansDelivered, Current, Events, Passes
<1>2. ASSUME NEW p \in Processes, Pass(p) PROVE DeliveryInv'
  BY <1>2, StartPassStep, ClaimNextStep, EndClaimsStep, SendStep, BeginSettleStep, SettleStep
     DEF Pass
<1> QED BY <1>1, <1>2, AdministrationStep, GrowStaleStep, CrashStep DEF Next

(* Notifications, events and passes keep their types, whatever overlaps.    *)
THEOREM TypeCorrect == Spec => []TypeOK
<1>1. DeliveryInv => TypeOK
  BY DEF DeliveryInv
<1> QED BY InitHolds, StepHolds, <1>1, PTL DEF Spec

(* A notification that is shown as PENDING has an event some pass can       *)
(* deliver it with, even when a pass settles an event it claimed before the *)
(* notification was retried.                                                *)
THEOREM PendingIsNeverStranded == Spec => []PendingHasEvent
<1>1. DeliveryInv => PendingHasEvent
  BY DEF DeliveryInv, PendingIsCarried, Carries, PendingHasEvent
<1> QED BY InitHolds, StepHolds, <1>1, PTL DEF Spec

(* An event is PROCESSED only when its message reached the chat.            *)
THEOREM ProcessedIsDelivered == Spec => []ProcessedMeansDelivered
<1>1. DeliveryInv => ProcessedMeansDelivered
  BY DEF DeliveryInv
<1> QED BY InitHolds, StepHolds, <1>1, PTL DEF Spec

(* SENT and CANCELLED are never left, whatever pass settles an event of the *)
(* notification at that moment.                                             *)
THEOREM FinalStatusStays == Spec => FinalIsFinal
<1>1. TypeOK /\ [Next]_vars =>
        [\A n \in Notifications :
           notification[n] \in Final => notification'[n] = notification[n]]_vars
  <2> SUFFICES ASSUME TypeOK, Next, NEW n \in Notifications, notification[n] \in Final
               PROVE  notification'[n] = notification[n]
    OBVIOUS
  <2>1. CASE Administration
    BY <2>1 DEF Administration, CreateNotification, CancelNotification, RetryDelivery,
                MarkDeliveryResult, TypeOK, Final, Undelivered
  <2>2. ASSUME NEW p \in Processes, Settle(p) PROVE notification'[n] = notification[n]
    BY <2>2, StatusAfterIsFinal DEF Settle, TypeOK
  <2>3. ASSUME NEW p \in Processes, Pass(p) PROVE notification'[n] = notification[n]
    BY <2>2, <2>3 DEF Pass, StartPass, ClaimNext, EndClaims, Send, BeginSettle
  <2> QED BY <2>1, <2>3 DEF Next, GrowStale, Crash
<1>2. DeliveryInv => TypeOK
  BY DEF DeliveryInv
<1> QED BY InitHolds, StepHolds, <1>1, <1>2, PTL DEF Spec, FinalIsFinal

-----------------------------------------------------------------------------
(* Passes while nothing fails: no process dies and no claim outlives its    *)
(* time.                                                                    *)

(* An event is in the batch of one pass, and there once. *)
HeldOnce ==
  \A p, q \in Processes :
    \A i \in DOMAIN process[p].batch, j \in DOMAIN process[q].batch :
      process[p].batch[i] = process[q].batch[j] => p = q /\ i = j

HeldAreClaimed ==
  \A p \in Processes : \A i \in DOMAIN process[p].batch :
    outbox[process[p].batch[i]].status = "PROCESSING"

ClaimedAreHeld == \A e \in Events : outbox[e].status = "PROCESSING" => Batched(e)

(* Telegram was asked to send the message of e. *)
Asked(e) ==
  \/ outbox[e].status \in {"PROCESSED", "FAILED"}
  \/ \E p \in Processes : process[p].pc \in {"answered", "settling"} /\ Current(p) = e

AskedFor(n) == {e \in Events : outbox[e].of = n /\ Asked(e)}

AskedOnce == \A n \in Notifications : delivered[n] <= Cardinality(AskedFor(n))

Healthy ==
  /\ HeldOnce /\ HeldAreClaimed /\ ClaimedAreHeld /\ AskedOnce
  /\ \A e \in Events : ~outbox[e].stale
  /\ \A p \in Processes : process[p].pc = "idle" => process[p].batch = <<>>

LEMMA PositionsAreFinite == ASSUME NEW S, NEW s \in Seq(S) PROVE IsFiniteSet(DOMAIN s)
<1>1. Len(s) \in Nat /\ DOMAIN s = 1 .. Len(s)
  BY LenProperties
<1> QED BY <1>1, FS_Interval

LEMMA EventsAreFinite == (TypeOK => IsFiniteSet(Events)) /\ (TypeOK' => IsFiniteSet(Events'))
BY PositionsAreFinite DEF TypeOK, Events

LEMMA AskedIsFinite ==
  ASSUME TypeOK, NEW n
  PROVE  IsFiniteSet(AskedFor(n)) /\ Cardinality(AskedFor(n)) \in Nat
BY EventsAreFinite, FS_Subset, FS_CardinalityType DEF AskedFor

(* What was asked for stays asked for. *)
LEMMA AskedGrows ==
  ASSUME TypeOK, TypeOK', AskedOnce, delivered' = delivered, Events \subseteq Events',
         \A e \in Events : outbox'[e].of = outbox[e].of /\ (Asked(e) => Asked(e)')
  PROVE  AskedOnce'
<1> SUFFICES ASSUME NEW n \in Notifications
             PROVE  delivered[n] <= Cardinality(AskedFor(n)')
  BY DEF AskedOnce
<1>1. AskedFor(n) \subseteq AskedFor(n)'
  BY DEF AskedFor
<1>2. IsFiniteSet(AskedFor(n)') /\ Cardinality(AskedFor(n)') \in Nat
  BY EventsAreFinite, FS_Subset, FS_CardinalityType DEF AskedFor
<1>3. Cardinality(AskedFor(n)) <= Cardinality(AskedFor(n)')
  BY <1>1, <1>2, FS_Subset
<1>4. delivered[n] <= Cardinality(AskedFor(n)) /\ delivered[n] \in Nat
  BY BoundsAreNumbers DEF AskedOnce, TypeOK
<1> QED BY <1>2, <1>3, <1>4, AskedIsFinite

(* A pass that has something to send or to settle is at the first event of  *)
(* its batch.                                                              *)
LEMMA CurrentIsFirst ==
  ASSUME TypeOK, NEW p \in Processes, process[p].batch # <<>>
  PROVE  /\ 1 \in DOMAIN process[p].batch
         /\ process[p].batch[1] = Current(p)
<1>1. process[p].batch \in Seq(Events)
  BY PassesAreTyped
<1> QED BY <1>1, EmptySeq, LenProperties DEF Current

(* What is left of a batch when its first event is done with. *)
LEMMA RestOfBatch ==
  ASSUME TypeOK, NEW p \in Processes, process[p].batch # <<>>
  PROVE  LET old == process[p].batch
             new == NextInBatch(process[p]).batch
         IN  /\ \A i \in DOMAIN new : i + 1 \in DOMAIN old /\ new[i] = old[i + 1]
             /\ \A i \in DOMAIN old \ {1} : i - 1 \in DOMAIN new /\ new[i - 1] = old[i]
             /\ DOMAIN new \subseteq Nat \ {0} /\ DOMAIN old \subseteq Nat \ {0}
<1> DEFINE old == process[p].batch
           new == NextInBatch(process[p]).batch
<1>1. old \in Seq(Events) /\ Len(old) \in Nat \ {0} /\ DOMAIN old = 1 .. Len(old)
  BY PassesAreTyped, EmptySeq, LenProperties
<1>2. CASE Len(old) = 1
  <2>1. new = <<>>
    BY <1>2 DEF NextInBatch, Idle
  <2> QED BY <1>1, <1>2, <2>1
<1>3. CASE Len(old) # 1
  <2>1. new = Tail(old)
    BY <1>3 DEF NextInBatch, Idle
  <2>2. /\ Len(new) = Len(old) - 1 /\ DOMAIN new = 1 .. Len(new)
        /\ \A i \in 1 .. Len(new) : new[i] = old[i + 1]
    BY <1>1, <2>1, HeadTailProperties, LenProperties
  <2> HIDE DEF new, old
  <2>3. \A i \in DOMAIN new : i + 1 \in DOMAIN old /\ new[i] = old[i + 1]
    BY <1>1, <2>2
  <2>4. \A i \in DOMAIN old \ {1} : i - 1 \in DOMAIN new /\ new[i - 1] = old[i]
    BY <1>1, <2>2
  <2> QED BY <1>1, <2>2, <2>3, <2>4 DEF new, old
<1> QED BY <1>2, <1>3

(* A step that leaves the batches and the events as they are. *)
LEMMA BatchesStay ==
  ASSUME TypeOK, TypeOK', Healthy, delivered' = delivered,
         Events \subseteq Events',
         \A e \in Events : outbox'[e] = outbox[e],
         \A e \in Events' \ Events : outbox'[e].status = "PENDING" /\ ~outbox'[e].stale,
         \A p \in Processes :
           /\ process'[p].batch = process[p].batch
           /\ process'[p].pc = "idle" => process[p].batch = <<>>
           /\ process[p].pc \in {"answered", "settling"} =>
                process'[p].pc \in {"answered", "settling"}
  PROVE  Healthy'
<1>1. \A p \in Processes : \A i \in DOMAIN process[p].batch : process[p].batch[i] \in Events
  <2> SUFFICES ASSUME NEW p \in Processes, NEW i \in DOMAIN process[p].batch
               PROVE  process[p].batch[i] \in Events
    OBVIOUS
  <2>1. process[p].batch \in Seq(Events)
    BY PassesAreTyped
  <2> QED BY <2>1, ElementOfSeq, LenProperties
<1>2. HeldOnce'
  BY DEF Healthy, HeldOnce
<1>3. HeldAreClaimed'
  BY <1>1 DEF Healthy, HeldAreClaimed
<1>4. ClaimedAreHeld'
  BY DEF Healthy, ClaimedAreHeld, Batched
<1>5. \A e \in Events : Asked(e) => Asked(e)'
  BY DEF Asked, Current
<1>6. AskedOnce'
  BY <1>5, AskedGrows DEF Healthy
<1> QED BY <1>2, <1>3, <1>4, <1>6 DEF Healthy

LEMMA AdministrationHealth ==
  ASSUME TypeOK, TypeOK', Healthy, Administration
  PROVE  Healthy'
<1>1. \A p \in Processes : process[p].pc = "idle" => process[p].batch = <<>>
  BY DEF Healthy
<1>2. ASSUME NEW n \in Notifications, outbox' = Append(outbox, Event(n)),
             UNCHANGED <<delivered, process>>
      PROVE  Healthy'
  <2>1. outbox \in Seq(EventRow) /\ Event(n) \in EventRow
    BY EventIsRow DEF TypeOK
  <2>2. /\ Events \subseteq Events' /\ Events' = Events \cup {Len(outbox) + 1}
        /\ outbox'[Len(outbox) + 1] = Event(n)
        /\ \A f \in Events : outbox'[f] = outbox[f]
    BY <1>2, <2>1, RowIsAdded DEF Events
  <2>3. Event(n).status = "PENDING" /\ Event(n).stale = FALSE
    BY EventIsRow
  <2>4. \A e \in Events' \ Events : outbox'[e] = Event(n)
    BY <2>2
  <2>5. \A e \in Events' \ Events : outbox'[e].status = "PENDING" /\ ~outbox'[e].stale
    BY <2>3, <2>4
  <2> QED BY <1>1, <1>2, <2>2, <2>5, BatchesStay
<1>3. CASE UNCHANGED <<outbox, delivered, process>>
  <2>1. Events' = Events
    BY <1>3 DEF Events
  <2> QED BY <1>1, <1>3, <2>1, BatchesStay
<1> QED BY <1>2, <1>3
     DEF Administration, CreateNotification, RetryDelivery, CancelNotification, MarkDeliveryResult

(* No claim is taken back, for none outlived its time. *)
LEMMA StartPassHealth ==
  ASSUME TypeOK, TypeOK', Healthy, NEW p \in Processes, StartPass(p)
  PROVE  Healthy'
<1>1. outbox' = outbox /\ Events' = Events
  <2>1. Recovered = [e \in Events |-> outbox[e]]
    BY DEF Recovered, Healthy
  <2>2. outbox = [e \in Events |-> outbox[e]]
    BY LenProperties DEF TypeOK, Events
  <2> QED BY <2>1, <2>2 DEF StartPass, Events
<1>2. process'[p].batch = <<>> /\ process'[p].pc = "claiming"
  BY DEF StartPass, TypeOK, Idle
<1>3. \A r \in Processes \ {p} : process'[r] = process[r]
  BY DEF StartPass, TypeOK
<1>4. process[p].pc = "idle" /\ process[p].batch = <<>> /\ delivered' = delivered
  BY DEF StartPass, Healthy
<1>5. \A r \in Processes : /\ process'[r].batch = process[r].batch
                           /\ process'[r].pc = "idle" => process[r].batch = <<>>
                           /\ process[r].pc \in {"answered", "settling"} =>
                                process'[r].pc \in {"answered", "settling"}
  BY <1>2, <1>3, <1>4 DEF Healthy
<1> QED BY <1>1, <1>4, <1>5, BatchesStay

(* The batch gets an event that is in no other. *)
LEMMA ClaimNextHealth ==
  ASSUME TypeOK, TypeOK', Healthy, NEW p \in Processes, ClaimNext(p)
  PROVE  Healthy'
<1>1. /\ process[p] \in Passes /\ process[p].batch \in Seq(Events) /\ process[p].pc = "claiming"
      /\ process[p].found \subseteq Events /\ delivered' = delivered
      /\ outbox \in Seq(EventRow)
  BY PassesAreTyped DEF ClaimNext, TypeOK
<1>2. PICK e \in process[p].found :
        /\ outbox' = [outbox EXCEPT ![e].status = IF Claimable(e) THEN "PROCESSING" ELSE @]
        /\ process' = [process EXCEPT ![p].found = @ \ {e},
                           ![p].batch = IF Claimable(e) THEN Append(@, e) ELSE @]
  BY DEF ClaimNext
<1>3. /\ e \in Events /\ Events' = Events /\ outbox[e] \in EventRow
      /\ \A f \in Events \ {e} : outbox'[f] = outbox[f]
      /\ outbox'[e] = [outbox[e] EXCEPT !.status = IF Claimable(e) THEN "PROCESSING" ELSE @]
  <2>1. e \in Events /\ outbox[e] \in EventRow
    BY <1>1, RowsAreTyped
  <2>2. Events' = Events
    BY <1>2 DEF Events
  <2>3. outbox = [f \in Events |-> outbox[f]]
    BY LenProperties DEF TypeOK, Events
  <2> QED BY <1>2, <2>1, <2>2, <2>3 DEF Events
<1>4. /\ \A r \in Processes \ {p} : process'[r] = process[r]
      /\ process'[p].pc = "claiming"
      /\ process'[p].batch = IF Claimable(e) THEN Append(process[p].batch, e)
                             ELSE process[p].batch
  BY <1>1, <1>2 DEF TypeOK, Passes
<1>5. CASE ~Claimable(e)
  <2>1. \A f \in Events : outbox'[f] = outbox[f]
    BY <1>3, <1>5 DEF EventRow
  <2>2. \A r \in Processes : /\ process'[r].batch = process[r].batch
                             /\ process'[r].pc = process[r].pc
    BY <1>1, <1>4, <1>5
  <2>3. \A r \in Processes : process'[r].pc = "idle" => process[r].batch = <<>>
    BY <2>2 DEF Healthy
  <2> QED BY <1>1, <1>3, <2>1, <2>2, <2>3, BatchesStay
<1>6. CASE Claimable(e)
  <2>1. /\ outbox[e].status = "PENDING" /\ outbox'[e].status = "PROCESSING"
        /\ outbox'[e].of = outbox[e].of /\ outbox'[e].stale = outbox[e].stale
    BY <1>3, <1>6 DEF Claimable, EventRow
  <2> DEFINE old == process[p].batch
             last == Len(old) + 1
  <2>2. /\ DOMAIN process'[p].batch = DOMAIN old \cup {last}
        /\ last \notin DOMAIN old
        /\ process'[p].batch[last] = e
        /\ \A i \in DOMAIN old : process'[p].batch[i] = old[i]
    BY <1>1, <1>3, <1>4, <1>6, AppendProperties, LenProperties
  <2> HIDE DEF last
  <2>3. \A r \in Processes : \A i \in DOMAIN process[r].batch : process[r].batch[i] \in Events \ {e}
    <3> SUFFICES ASSUME NEW r \in Processes, NEW i \in DOMAIN process[r].batch
                 PROVE  process[r].batch[i] \in Events /\ process[r].batch[i] # e
      OBVIOUS
    <3>1. process[r].batch \in Seq(Events)
      BY PassesAreTyped
    <3>2. process[r].batch[i] \in Events
      BY <3>1, ElementOfSeq, LenProperties
    <3> QED BY <2>1, <3>2 DEF Healthy, HeldAreClaimed
  <2>4. HeldOnce'
    <3> SUFFICES ASSUME NEW r \in Processes, NEW s \in Processes,
                        NEW i \in DOMAIN process'[r].batch, NEW j \in DOMAIN process'[s].batch,
                        process'[r].batch[i] = process'[s].batch[j]
                 PROVE  r = s /\ i = j
      BY DEF HeldOnce
    <3>1. \/ i \in DOMAIN process[r].batch /\ process'[r].batch[i] = process[r].batch[i]
          \/ r = p /\ i = last /\ process'[r].batch[i] = e
      BY <1>4, <2>2
    <3>2. \/ j \in DOMAIN process[s].batch /\ process'[s].batch[j] = process[s].batch[j]
          \/ s = p /\ j = last /\ process'[s].batch[j] = e
      BY <1>4, <2>2
    <3> QED BY <2>3, <3>1, <3>2 DEF Healthy, HeldOnce
  <2>5. HeldAreClaimed'
    <3> SUFFICES ASSUME NEW r \in Processes, NEW i \in DOMAIN process'[r].batch
                 PROVE  outbox'[process'[r].batch[i]].status = "PROCESSING"
      BY DEF HeldAreClaimed
    <3>1. \/ i \in DOMAIN process[r].batch /\ process'[r].batch[i] = process[r].batch[i]
          \/ process'[r].batch[i] = e
      BY <1>4, <2>2
    <3>2. CASE process'[r].batch[i] = e
      BY <2>1, <3>2
    <3>3. CASE i \in DOMAIN process[r].batch /\ process'[r].batch[i] = process[r].batch[i]
      <4>1. process[r].batch[i] \in Events \ {e}
        BY <2>3, <3>3
      <4>2. outbox[process[r].batch[i]].status = "PROCESSING"
        BY <3>3 DEF Healthy, HeldAreClaimed
      <4> QED BY <1>3, <3>3, <4>1, <4>2
    <3> QED BY <3>1, <3>2, <3>3
  <2>6. ClaimedAreHeld'
    <3> SUFFICES ASSUME NEW f \in Events, outbox'[f].status = "PROCESSING"
                 PROVE  \E r \in Processes : \E i \in DOMAIN process'[r].batch :
                          process'[r].batch[i] = f
      BY <1>3 DEF ClaimedAreHeld, Batched
    <3>1. CASE f = e
      BY <2>2, <3>1
    <3>2. CASE f # e
      <4>1. PICK r \in Processes : \E i \in DOMAIN process[r].batch : process[r].batch[i] = f
        BY <1>3, <3>2 DEF Healthy, ClaimedAreHeld, Batched
      <4>2. PICK i \in DOMAIN process[r].batch : process[r].batch[i] = f
        BY <4>1
      <4>3. i \in DOMAIN process'[r].batch /\ process'[r].batch[i] = f
        BY <1>4, <2>2, <4>2
      <4> QED BY <4>3
    <3> QED BY <3>1, <3>2
  <2>7. \A f \in Events : Asked(f) => Asked(f)'
    <3>1. \A r \in Processes : process[r].pc \in {"answered", "settling"} => r # p
      BY <1>1
    <3> QED BY <1>3, <1>4, <2>1, <3>1 DEF Asked, Current
  <2>8. AskedOnce'
    BY <1>1, <1>3, <2>1, <2>7, AskedGrows DEF Healthy
  <2>9. /\ \A f \in Events' : ~outbox'[f].stale
        /\ \A r \in Processes : process'[r].pc = "idle" => process'[r].batch = <<>>
    BY <1>3, <1>4, <2>1 DEF Healthy
  <2> QED BY <2>4, <2>5, <2>6, <2>8, <2>9 DEF Healthy
<1> QED BY <1>5, <1>6

LEMMA EndClaimsHealth ==
  ASSUME TypeOK, TypeOK', Healthy, NEW p \in Processes, EndClaims(p)
  PROVE  Healthy'
<1>1. /\ Events' = Events /\ UNCHANGED <<outbox, delivered>>
      /\ process[p].pc = "claiming"
      /\ \A r \in Processes \ {p} : process'[r] = process[r]
      /\ process'[p] = IF process[p].batch = <<>> THEN Idle
                       ELSE [Idle EXCEPT !.pc = "sending", !.batch = process[p].batch]
  BY DEF EndClaims, TypeOK, Events
<1>2. /\ process'[p].batch = process[p].batch
      /\ process'[p].pc = "idle" => process[p].batch = <<>>
  BY <1>1 DEF Idle
<1>3. \A r \in Processes : /\ process'[r].batch = process[r].batch
                           /\ process'[r].pc = "idle" => process[r].batch = <<>>
                           /\ process[r].pc \in {"answered", "settling"} =>
                                process'[r].pc \in {"answered", "settling"}
  BY <1>1, <1>2 DEF Healthy
<1> QED BY <1>1, <1>3, BatchesStay

(* Telegram is asked once more, for an event it was not asked for.          *)
LEMMA SendHealth ==
  ASSUME TypeOK, TypeOK', Healthy, NEW p \in Processes, Send(p)
  PROVE  Healthy'
<1>1. /\ process[p] \in Passes /\ process[p].pc = "sending" /\ process[p].batch # <<>>
      /\ outbox' = outbox /\ Events' = Events
  BY PassesAreTyped DEF Send, TypeOK, Events
<1> PICK e : e = Current(p)
  OBVIOUS
<1>2. /\ e \in Events /\ outbox[e].of \in Notifications
      /\ 1 \in DOMAIN process[p].batch /\ process[p].batch[1] = e
  BY <1>1, CurrentIsEvent, CurrentIsFirst, RowsAreTyped
<1>3. /\ \A r \in Processes \ {p} : process'[r] = process[r]
      /\ process'[p].pc = "answered" /\ process'[p].batch = process[p].batch
  BY <1>1 DEF Send, TypeOK, Passes
<1>4. \A n \in Notifications :
        \/ delivered'[n] = delivered[n]
        \/ n = outbox[e].of /\ delivered'[n] = delivered[n] + 1
  BY DEF Send, TypeOK
<1>5. ~Asked(e) /\ Asked(e)' /\ \A f \in Events : Asked(f) => Asked(f)'
  <2>1. outbox[e].status = "PROCESSING"
    BY <1>2 DEF Healthy, HeldAreClaimed
  <2>2. ASSUME NEW r \in Processes, process[r].pc \in {"answered", "settling"}, Current(r) = e
        PROVE  FALSE
    <3>1. process[r].batch # <<>>
      BY <2>2 DEF TypeOK
    <3>2. 1 \in DOMAIN process[r].batch /\ process[r].batch[1] = e
      BY <2>2, <3>1, CurrentIsFirst
    <3>3. r = p
      BY <1>2, <3>2 DEF Healthy, HeldOnce
    <3> QED BY <1>1, <2>2, <3>3
  <2>3. ~Asked(e)
    BY <2>1, <2>2 DEF Asked
  <2>4. Asked(e)'
    BY <1>3 DEF Asked, Current
  <2>5. \A f \in Events : Asked(f) => Asked(f)'
    BY <1>1, <1>3 DEF Asked, Current
  <2> QED BY <2>3, <2>4, <2>5
<1>6. AskedOnce'
  <2> SUFFICES ASSUME NEW n \in Notifications
               PROVE  delivered'[n] <= Cardinality(AskedFor(n)')
    BY DEF AskedOnce
  <2>1. IsFiniteSet(AskedFor(n)') /\ Cardinality(AskedFor(n)') \in Nat
    BY EventsAreFinite, FS_Subset, FS_CardinalityType DEF AskedFor
  <2>2. delivered[n] <= Cardinality(AskedFor(n)) /\ delivered[n] \in Nat
    BY BoundsAreNumbers DEF Healthy, AskedOnce, TypeOK
  <2>3. AskedFor(n) \subseteq AskedFor(n)'
    BY <1>1, <1>5 DEF AskedFor
  <2>4. CASE delivered'[n] = delivered[n]
    <3>1. Cardinality(AskedFor(n)) <= Cardinality(AskedFor(n)')
      BY <2>1, <2>3, FS_Subset
    <3> QED BY <2>1, <2>2, <2>4, <3>1, AskedIsFinite
  <2>5. CASE n = outbox[e].of /\ delivered'[n] = delivered[n] + 1
    <3>1. e \notin AskedFor(n) /\ e \in AskedFor(n)'
      BY <1>1, <1>2, <1>5, <2>5 DEF AskedFor
    <3>2. Cardinality(AskedFor(n) \cup {e}) = Cardinality(AskedFor(n)) + 1
      BY <3>1, AskedIsFinite, FS_AddElement
    <3>3. Cardinality(AskedFor(n) \cup {e}) <= Cardinality(AskedFor(n)')
      BY <2>1, <2>3, <3>1, FS_Subset
    <3> QED BY <2>1, <2>2, <2>5, <3>2, <3>3, AskedIsFinite
  <2> QED BY <1>4, <2>4, <2>5
<1>7. \A r \in Processes : process'[r].batch = process[r].batch
  BY <1>3
<1>8. HeldOnce' /\ HeldAreClaimed' /\ ClaimedAreHeld'
  BY <1>1, <1>7 DEF Healthy, HeldOnce, HeldAreClaimed, ClaimedAreHeld, Batched
<1> QED BY <1>1, <1>3, <1>6, <1>8 DEF Healthy

(* The event is still claimed when its answer is there. *)
LEMMA BeginSettleHealth ==
  ASSUME TypeOK, TypeOK', Healthy, NEW p \in Processes, BeginSettle(p)
  PROVE  Healthy'
<1>1. /\ process[p] \in Passes /\ process[p].pc = "answered" /\ process[p].batch # <<>>
      /\ UNCHANGED <<outbox, delivered>> /\ Events' = Events
  BY PassesAreTyped DEF BeginSettle, TypeOK, Events
<1>2. outbox[Current(p)].status = "PROCESSING"
  BY <1>1, CurrentIsFirst DEF Healthy, HeldAreClaimed
<1>3. /\ \A r \in Processes \ {p} : process'[r] = process[r]
      /\ process'[p].pc = "settling" /\ process'[p].batch = process[p].batch
  BY <1>1, <1>2 DEF BeginSettle, TypeOK, Passes
<1>4. \A r \in Processes : /\ process'[r].batch = process[r].batch
                           /\ process'[r].pc = "idle" => process[r].batch = <<>>
                           /\ process[r].pc \in {"answered", "settling"} =>
                                process'[r].pc \in {"answered", "settling"}
  BY <1>3 DEF Healthy
<1> QED BY <1>1, <1>4, BatchesStay

(* The event leaves the only batch it is in. *)
LEMMA SettleHealth ==
  ASSUME TypeOK, TypeOK', Healthy, NEW p \in Processes, Settle(p)
  PROVE  Healthy'
<1> PICK e : e = Current(p)
  OBVIOUS
<1>1. /\ process[p] \in Passes /\ process[p].pc = "settling" /\ process[p].batch # <<>>
      /\ outbox \in Seq(EventRow) /\ delivered' = delivered
  BY PassesAreTyped DEF Settle, TypeOK
<1>2. /\ e \in Events /\ outbox[e] \in EventRow
      /\ 1 \in DOMAIN process[p].batch /\ process[p].batch[1] = e
  BY <1>1, CurrentIsEvent, CurrentIsFirst
<1>3. /\ Events' = Events
      /\ \A f \in Events \ {e} : outbox'[f] = outbox[f]
      /\ outbox'[e] = [outbox[e] EXCEPT !.status = Outcome(process[p].ok), !.stale = FALSE]
  <2>1. Events' = Events
    BY DEF Settle, Events
  <2>2. outbox = [f \in Events |-> outbox[f]]
    BY LenProperties DEF TypeOK, Events
  <2>3. outbox' = [outbox EXCEPT ![e].status = Outcome(process[p].ok), ![e].stale = FALSE]
    BY DEF Settle
  <2> QED BY <1>2, <2>1, <2>2, <2>3
<1>4. /\ outbox'[e].status \in {"PROCESSED", "FAILED"} /\ outbox'[e].stale = FALSE
      /\ outbox'[e].of = outbox[e].of
  BY <1>2, <1>3 DEF EventRow, Outcome
<1>5. /\ \A r \in Processes \ {p} : process'[r] = process[r]
      /\ process'[p] = NextInBatch(process[p])
      /\ process'[p].pc \in {"idle", "sending"}
      /\ process'[p].pc = "idle" => process'[p].batch = <<>>
  BY DEF Settle, TypeOK, NextInBatch, Idle
<1> DEFINE old == process[p].batch
           new == process'[p].batch
<1>6. /\ \A i \in DOMAIN new : i + 1 \in DOMAIN old /\ new[i] = old[i + 1]
      /\ \A i \in DOMAIN old \ {1} : i - 1 \in DOMAIN new /\ new[i - 1] = old[i]
      /\ DOMAIN new \subseteq Nat \ {0}
  BY <1>1, <1>5, RestOfBatch
<1>7. \A r \in Processes : \A i \in DOMAIN process'[r].batch :
        \E k \in DOMAIN process[r].batch :
          /\ process'[r].batch[i] = process[r].batch[k]
          /\ k = IF r = p THEN i + 1 ELSE i
  BY <1>5, <1>6
<1>8. \A r \in Processes : \A i \in DOMAIN process'[r].batch : process'[r].batch[i] # e
  <2> SUFFICES ASSUME NEW r \in Processes, NEW i \in DOMAIN process'[r].batch,
                      process'[r].batch[i] = e
               PROVE  FALSE
    OBVIOUS
  <2>1. PICK k \in DOMAIN process[r].batch :
          process[r].batch[k] = e /\ k = IF r = p THEN i + 1 ELSE i
    BY <1>7
  <2>2. r = p /\ k = 1
    BY <1>2, <2>1 DEF Healthy, HeldOnce
  <2> QED BY <1>6, <2>1, <2>2
<1>9. HeldOnce'
  <2> SUFFICES ASSUME NEW r \in Processes, NEW s \in Processes,
                      NEW i \in DOMAIN process'[r].batch, NEW j \in DOMAIN process'[s].batch,
                      process'[r].batch[i] = process'[s].batch[j]
               PROVE  r = s /\ i = j
    BY DEF HeldOnce
  <2>1. PICK k \in DOMAIN process[r].batch :
          process'[r].batch[i] = process[r].batch[k] /\ k = IF r = p THEN i + 1 ELSE i
    BY <1>7
  <2>2. PICK l \in DOMAIN process[s].batch :
          process'[s].batch[j] = process[s].batch[l] /\ l = IF s = p THEN j + 1 ELSE j
    BY <1>7
  <2>3. r = s /\ k = l
    <3>1. process[r].batch[k] = process[s].batch[l]
      BY <2>1, <2>2
    <3> QED BY <3>1 DEF Healthy, HeldOnce
  <2>4. CASE r = p
    BY <1>6, <2>1, <2>2, <2>3, <2>4
  <2>5. CASE r # p
    BY <2>1, <2>2, <2>3, <2>5
  <2> QED BY <2>4, <2>5
<1>10. \A r \in Processes : \A i \in DOMAIN process[r].batch : process[r].batch[i] \in Events
  <2> SUFFICES ASSUME NEW r \in Processes, NEW i \in DOMAIN process[r].batch
               PROVE  process[r].batch[i] \in Events
    OBVIOUS
  <2>1. process[r].batch \in Seq(Events)
    BY PassesAreTyped
  <2> QED BY <2>1, ElementOfSeq, LenProperties
<1>11. HeldAreClaimed'
  <2> SUFFICES ASSUME NEW r \in Processes, NEW i \in DOMAIN process'[r].batch
               PROVE  outbox'[process'[r].batch[i]].status = "PROCESSING"
    BY DEF HeldAreClaimed
  <2>1. PICK k \in DOMAIN process[r].batch : process'[r].batch[i] = process[r].batch[k]
    BY <1>7
  <2> QED BY <1>3, <1>8, <1>10, <2>1 DEF Healthy, HeldAreClaimed
<1>12. ClaimedAreHeld'
  <2> SUFFICES ASSUME NEW f \in Events, outbox'[f].status = "PROCESSING"
               PROVE  \E r \in Processes : \E i \in DOMAIN process'[r].batch :
                        process'[r].batch[i] = f
    BY <1>3 DEF ClaimedAreHeld, Batched
  <2>1. f # e /\ outbox[f].status = "PROCESSING"
    BY <1>3, <1>4
  <2>2. PICK r \in Processes : \E i \in DOMAIN process[r].batch : process[r].batch[i] = f
    BY <2>1 DEF Healthy, ClaimedAreHeld, Batched
  <2>3. PICK i \in DOMAIN process[r].batch : process[r].batch[i] = f
    BY <2>2
  <2>4. CASE r = p
    <3>1. i # 1
      BY <1>2, <2>1, <2>3, <2>4
    <3> QED BY <1>6, <2>3, <2>4, <3>1
  <2>5. CASE r # p
    BY <1>5, <2>3, <2>5
  <2> QED BY <2>4, <2>5
<1>13. \A f \in Events : Asked(f) => Asked(f)'
  BY <1>3, <1>4, <1>5 DEF Asked, Current
<1>14. AskedOnce'
  BY <1>1, <1>3, <1>4, <1>13, AskedGrows DEF Healthy
<1>15. /\ \A f \in Events' : ~outbox'[f].stale
       /\ \A r \in Processes : process'[r].pc = "idle" => process'[r].batch = <<>>
  BY <1>3, <1>4, <1>5 DEF Healthy
<1> QED BY <1>9, <1>11, <1>12, <1>14, <1>15 DEF Healthy

LEMMA InitIsHealthy == Init => Healthy
<1> SUFFICES ASSUME Init PROVE Healthy
  OBVIOUS
<1>1. Events = {} /\ \A p \in Processes : process[p].batch = <<>>
  BY LenProperties DEF Init, Events, Idle
<1>2. \A n \in Notifications : AskedFor(n) = {} /\ delivered[n] = 0
  BY <1>1 DEF Init, AskedFor
<1>3. AskedOnce
  BY <1>2, FS_EmptySet DEF AskedOnce
<1> QED BY <1>1, <1>3 DEF Healthy, HeldOnce, HeldAreClaimed, ClaimedAreHeld

(* Faults are counted: while there are none, nothing was a fault.           *)
LEMMA HealthStays ==
  DeliveryInv /\ (faults = 0 => Healthy) /\ [Next]_vars => (faults = 0 => Healthy)'
<1> SUFFICES ASSUME DeliveryInv, faults = 0 => Healthy, [Next]_vars, faults' = 0
             PROVE  Healthy'
  OBVIOUS
<1>1. TypeOK /\ TypeOK' /\ faults \in Nat
  BY StepHolds, BoundsAreNumbers DEF DeliveryInv, TypeOK
<1>2. ASSUME NEW p \in Processes, Crash(p) PROVE FALSE
  BY <1>1, <1>2 DEF Crash
<1>3. ASSUME NEW e \in Events, GrowStale(e) PROVE FALSE
  <2>1. UNCHANGED faults /\ ~Batched(e) /\ outbox[e].status = "PROCESSING"
    BY <1>1, <1>3 DEF GrowStale
  <2> QED BY <2>1 DEF Healthy, ClaimedAreHeld
<1>4. CASE Administration
  <2>1. faults' = faults
    BY <1>4 DEF Administration, CreateNotification, RetryDelivery, CancelNotification,
                MarkDeliveryResult
  <2> QED BY <1>1, <1>4, <2>1, AdministrationHealth
<1>5. ASSUME NEW p \in Processes, Pass(p) PROVE Healthy'
  <2>1. Healthy
    BY <1>5 DEF Pass, StartPass, ClaimNext, EndClaims, Send, BeginSettle, Settle
  <2> QED BY <1>1, <1>5, <2>1, StartPassHealth, ClaimNextHealth, EndClaimsHealth, SendHealth,
             BeginSettleHealth, SettleHealth DEF Pass
<1>6. CASE UNCHANGED vars
  <2>1. Healthy /\ Events' = Events /\ UNCHANGED <<outbox, delivered, process>>
    BY <1>6 DEF vars, Events
  <2>2. \A p \in Processes : process[p].pc = "idle" => process[p].batch = <<>>
    BY <2>1 DEF Healthy
  <2> QED BY <1>1, <2>1, <2>2, BatchesStay
<1> QED BY <1>2, <1>3, <1>4, <1>5, <1>6 DEF Next

(* While no process dies and no claim outlives its time, two passes never    *)
(* hold the same event, however the worker and the drain endpoint overlap,   *)
(* and no claim is taken back that a pass still works on.                   *)
THEOREM ClaimsAreExclusive == Spec => [](faults = 0 => HeldOnce /\ HeldAreClaimed)
<1>1. (faults = 0 => Healthy) => (faults = 0 => HeldOnce /\ HeldAreClaimed)
  BY DEF Healthy
<1>2. Init => (faults = 0 => Healthy)
  BY InitIsHealthy
<1> QED BY <1>1, <1>2, InitHolds, StepHolds, HealthStays, PTL DEF Spec

(* In such a time a chat gets one message at most for each event that was    *)
(* created for its notification: what arrives twice arrives because of a     *)
(* fault, or because an administrator asked for a retry.                    *)
THEOREM OneMessagePerEvent ==
  Spec => [](faults = 0 => \A n \in Notifications :
               delivered[n] <= Cardinality({e \in Events : outbox[e].of = n}))
<1>1. ASSUME TypeOK, Healthy, NEW n \in Notifications
      PROVE  delivered[n] <= Cardinality({e \in Events : outbox[e].of = n})
  <2> DEFINE all == {e \in Events : outbox[e].of = n}
  <2>1. IsFiniteSet(all) /\ Cardinality(all) \in Nat
    BY <1>1, EventsAreFinite, FS_Subset, FS_CardinalityType
  <2>2. Cardinality(AskedFor(n)) <= Cardinality(all)
    BY <2>1, FS_Subset DEF AskedFor
  <2>3. delivered[n] <= Cardinality(AskedFor(n)) /\ delivered[n] \in Nat
    BY <1>1, BoundsAreNumbers DEF Healthy, AskedOnce, TypeOK
  <2> HIDE DEF all
  <2>4. delivered[n] <= Cardinality(all)
    BY <1>1, <2>1, <2>2, <2>3, AskedIsFinite
  <2> QED BY <2>4 DEF all
<1>2. Init => (faults = 0 => Healthy)
  BY InitIsHealthy
<1>3. DeliveryInv /\ (faults = 0 => Healthy) =>
        (faults = 0 => \A n \in Notifications :
           delivered[n] <= Cardinality({e \in Events : outbox[e].of = n}))
  BY <1>1 DEF DeliveryInv
<1> QED BY <1>2, <1>3, InitHolds, StepHolds, HealthStays, PTL DEF Spec
=============================================================================
