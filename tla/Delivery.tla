------------------------------ MODULE Delivery ------------------------------
(***************************************************************************)
(* Notifications and their delivery to Telegram through the outbox:        *)
(* apps/api/src/modules/notifications and .../telegram.  The worker and    *)
(* the drain endpoint run the same pass concurrently: stale claims are     *)
(* taken back, pending events claimed one by one, then each is sent and    *)
(* settled.  All of it is READ COMMITTED: a handler that ends in an        *)
(* updateMany with a status guard is one action; settling an event, which  *)
(* locks the event's row and then reads the notification, is two.          *)
(***************************************************************************)
EXTENDS Naturals, Sequences, FiniteSets

CONSTANTS
  Notifications, (* identities of notifications, one channel each *)
  Channel,       (* the channel of a notification *)
  Processes,     (* processes that run delivery passes *)
  Limit,         (* events a pass claims at most *)
  Window,        (* events a pass looks at: the code's limit * 5 *)
  MaxEvents,     (* bound on the rows of the outbox *)
  MaxMessages,   (* messages are counted up to this bound *)
  MaxFaults      (* bound on crashes and claims that outlive their time *)

ASSUME ChannelsAreKnown == Channel \in [Notifications -> {"TELEGRAM", "IN_APP"}]
ASSUME PassesHaveRoom == Limit \in Nat \ {0} /\ Window \in Nat \ {0}
ASSUME BoundsAreNumbers ==
  MaxEvents \in Nat /\ MaxMessages \in Nat \ {0} /\ MaxFaults \in Nat

VARIABLES
  notification, (* status of each notification; nothing sets QUEUED *)
  outbox,       (* outbox_events in the order of their creation *)
  delivered,    (* messages that reached the recipient's chat *)
  process,      (* delivery passes *)
  faults        (* crashes and outlived claims so far *)

vars == <<notification, outbox, delivered, process, faults>>

Undelivered == {"PENDING", "FAILED"}
Final == {"SENT", "CANCELLED"}

(* No pass: nothing found, nothing claimed, no answer from Telegram.  "seen" *)
(* is the notification's status as the transaction that settles it read it. *)
Idle == [pc |-> "idle", found |-> {}, batch |-> <<>>, ok |-> FALSE, seen |-> "none"]

Event(n) == [of |-> n, status |-> "PENDING", stale |-> FALSE]

Events == DOMAIN outbox

Current(p) == Head(process[p].batch)

(* The row of an event is locked by the transaction that settles it. *)
Locked(e) == \E p \in Processes : process[p].pc = "settling" /\ Current(p) = e

-----------------------------------------------------------------------------
(* The notifications module. *)

(* createNotifications of one row, with its event *)
CreateNotification(n) ==
  /\ notification[n] = "none"
  /\ Len(outbox) < MaxEvents
  /\ notification' = [notification EXCEPT ![n] = "PENDING"]
  /\ outbox' = Append(outbox, Event(n))
  /\ UNCHANGED <<delivered, process, faults>>

CancelNotification(n) ==
  /\ notification[n] \in Undelivered
  /\ notification' = [notification EXCEPT ![n] = "CANCELLED"]
  /\ UNCHANGED <<outbox, delivered, process, faults>>

(* Mutant of RetryDelivery: the old event is expected to be taken again. *)
RetryWithoutEvent(n) ==
  /\ notification[n] = "FAILED"
  /\ Len(outbox) < MaxEvents
  /\ notification' = [notification EXCEPT ![n] = "PENDING"]
  /\ UNCHANGED <<outbox, delivered, process, faults>>

(* retryNotificationDelivery, with an event of its own *)
RetryDelivery(n) ==
  /\ notification[n] = "FAILED"
  /\ Len(outbox) < MaxEvents
  /\ notification' = [notification EXCEPT ![n] = "PENDING"]
  /\ outbox' = Append(outbox, Event(n))
  /\ UNCHANGED <<delivered, process, faults>>

(* markDeliveryResult: an administrator records what became of it; the      *)
(* events of the notification stay as they are.                             *)
MarkDeliveryResult(n, result) ==
  /\ \/ notification[n] = "PENDING" /\ result \in Final \cup {"FAILED"}
     \/ notification[n] = "FAILED" /\ result = "CANCELLED"
  /\ notification' = [notification EXCEPT ![n] = result]
  /\ UNCHANGED <<outbox, delivered, process, faults>>

-----------------------------------------------------------------------------
(* A delivery pass: processTelegramOutbox. *)

(* The first Window events that are PENDING, of whatever channel. *)
Candidates(box) ==
  LET pending == {e \in DOMAIN box : box[e].status = "PENDING"}
  IN {e \in pending : Cardinality({f \in pending : f < e}) < Window}

Batched(e) ==
  \E p \in Processes : \E i \in DOMAIN process[p].batch : process[p].batch[i] = e

(* Time passes over a claim: its row was last updated before staleBefore.   *)
(* The pass that holds it may be slow, but only so often.                   *)
GrowStale(e) ==
  /\ outbox[e].status = "PROCESSING"
  /\ ~outbox[e].stale
  /\ outbox' = [outbox EXCEPT ![e].stale = TRUE]
  /\ \/ Batched(e) /\ faults < MaxFaults /\ faults' = faults + 1
     \/ ~Batched(e) /\ UNCHANGED faults
  /\ UNCHANGED <<notification, delivered, process>>

(* Mutant of Recovered: a claim is for ever. *)
NothingRecovered == outbox

(* recoverStaleTelegramOutbox *)
Recovered ==
  [e \in Events |-> IF outbox[e].stale THEN Event(outbox[e].of) ELSE outbox[e]]

(* Stale claims are taken back and the candidates read, which the claims    *)
(* below test again; the update waits for the rows that are locked.         *)
StartPass(p) ==
  /\ process[p].pc = "idle"
  /\ ~\E e \in Events : outbox[e].stale /\ Locked(e)
  /\ outbox' = Recovered
  /\ process' = [process EXCEPT ![p] =
                   [Idle EXCEPT !.pc = "claiming", !.found = Candidates(Recovered)]]
  /\ UNCHANGED <<notification, delivered, faults>>

Claimable(e) ==
  /\ outbox[e].status = "PENDING"
  /\ Channel[outbox[e].of] = "TELEGRAM"
  /\ notification[outbox[e].of] \in Undelivered

(* claimPendingTelegramOutbox, the next candidate in order of creation *)
ClaimNext(p) ==
  LET q == process[p] IN
  /\ q.pc = "claiming"
  /\ Len(q.batch) < Limit
  /\ \E e \in q.found :
       /\ \A f \in q.found : e <= f
       /\ outbox' = [outbox EXCEPT ![e].status = IF Claimable(e) THEN "PROCESSING" ELSE @]
       /\ process' = [process EXCEPT ![p].found = @ \ {e},
                                     ![p].batch = IF Claimable(e) THEN Append(@, e) ELSE @]
  /\ UNCHANGED <<notification, delivered, faults>>

EndClaims(p) ==
  LET q == process[p] IN
  /\ q.pc = "claiming"
  /\ q.found = {} \/ Len(q.batch) = Limit
  /\ process' = [process EXCEPT ![p] = IF q.batch = <<>> THEN Idle
                   ELSE [Idle EXCEPT !.pc = "sending", !.batch = q.batch]]
  /\ UNCHANGED <<notification, outbox, delivered, faults>>

(* The chat is looked up and the message sent.  Without a verified chat, on *)
(* an error or a lost answer it counts as failed, whether it arrived or not. *)
Send(p) ==
  LET n == outbox[Current(p)].of IN
  /\ process[p].pc = "sending"
  /\ \E ok, arrived \in BOOLEAN :
       /\ ok => arrived
       /\ delivered' = [delivered EXCEPT ![n] =
            IF arrived /\ @ < MaxMessages THEN @ + 1 ELSE @]
       /\ process' = [process EXCEPT ![p].pc = "answered", ![p].ok = ok]
  /\ UNCHANGED <<notification, outbox, faults>>

NextInBatch(q) ==
  IF Len(q.batch) = 1 THEN Idle
  ELSE [Idle EXCEPT !.pc = "sending", !.batch = Tail(q.batch)]

(* completeTelegramOutbox and failTelegramOutbox, up to the read of the     *)
(* notification; an event that is not PROCESSING any more is left alone.    *)
BeginSettle(p) ==
  LET q == process[p]
      e == Current(p)
  IN
  /\ q.pc = "answered"
  /\ ~Locked(e)
  /\ process' = [process EXCEPT ![p] =
       IF outbox[e].status = "PROCESSING"
       THEN [q EXCEPT !.pc = "settling", !.seen = notification[outbox[e].of]]
       ELSE NextInBatch(q)]
  /\ UNCHANGED <<notification, outbox, delivered, faults>>

(* Mutants of StatusAfter: the update of the notification is not guarded by *)
(* the status that was read; a failure is recorded in the outbox only.      *)
UnguardedStatusAfter(q, now) ==
  IF q.seen \in Final THEN now ELSE IF q.ok THEN "SENT" ELSE "FAILED"
FailureInOutboxOnly(q, now) ==
  IF q.seen = now /\ now \in Undelivered /\ q.ok THEN "SENT" ELSE now

(* A final status stays, and so does one that changed since it was read. *)
StatusAfter(q, now) ==
  IF q.seen \in Final \/ now # q.seen THEN now
  ELSE IF q.ok THEN "SENT" ELSE "FAILED"

(* Mutant of Outcome: an unanswered send is taken for a success. *)
AlwaysProcessed(ok) == "PROCESSED"

Outcome(ok) == IF ok THEN "PROCESSED" ELSE "FAILED"

Settle(p) ==
  LET q == process[p]
      e == Current(p)
  IN
  /\ q.pc = "settling"
  /\ outbox' = [outbox EXCEPT ![e].status = Outcome(q.ok), ![e].stale = FALSE]
  /\ notification' = [notification EXCEPT ![outbox[e].of] = StatusAfter(q, @)]
  /\ process' = [process EXCEPT ![p] = NextInBatch(q)]
  /\ UNCHANGED <<delivered, faults>>

(* The process dies, or an exception ends its pass: what it claimed stays. *)
Crash(p) ==
  /\ process[p].pc # "idle"
  /\ faults < MaxFaults
  /\ process' = [process EXCEPT ![p] = Idle]
  /\ faults' = faults + 1
  /\ UNCHANGED <<notification, outbox, delivered>>

-----------------------------------------------------------------------------

Init ==
  /\ notification = [n \in Notifications |-> "none"]
  /\ outbox = <<>>
  /\ delivered = [n \in Notifications |-> 0]
  /\ process = [p \in Processes |-> Idle]
  /\ faults = 0

Administration ==
  \E n \in Notifications :
    \/ CreateNotification(n)
    \/ CancelNotification(n)
    \/ RetryDelivery(n)
    \/ \E result \in Final \cup {"FAILED"} : MarkDeliveryResult(n, result)

Pass(p) ==
  \/ StartPass(p)
  \/ ClaimNext(p)
  \/ EndClaims(p)
  \/ Send(p)
  \/ BeginSettle(p)
  \/ Settle(p)

Next ==
  \/ Administration
  \/ \E e \in Events : GrowStale(e)
  \/ \E p \in Processes : Pass(p) \/ Crash(p)

Spec == Init /\ [][Next]_vars

(* Workers poll for ever, and time passes over every claim. *)
FairSpec ==
  /\ Spec
  /\ \A p \in Processes : WF_vars(Pass(p))
  /\ \A e \in 1 .. MaxEvents : WF_vars(e \in Events /\ GrowStale(e))

-----------------------------------------------------------------------------
(* Properties. *)

Statuses == Undelivered \cup Final

EventRow == [of: Notifications, stale: BOOLEAN,
             status: {"PENDING", "PROCESSING", "PROCESSED", "FAILED"}]
Passes == [pc: {"idle", "claiming", "sending", "answered", "settling"},
           found: SUBSET Events, batch: Seq(Events), ok: BOOLEAN,
           seen: Statuses \cup {"none"}]

(* The type of every variable; who sends or settles has an event. *)
TypeOK ==
  /\ notification \in [Notifications -> Statuses \cup {"none"}]
  /\ outbox \in Seq(EventRow)
  /\ delivered \in [Notifications -> 0 .. MaxMessages]
  /\ process \in [Processes -> Passes]
  /\ \A p \in Processes :
       process[p].pc \in {"sending", "answered", "settling"} => process[p].batch # <<>>
  /\ faults \in 0 .. MaxFaults

(* SENT and CANCELLED are final, whatever pass settles an event of the      *)
(* notification and whatever an administrator does at that moment.          *)
FinalIsFinal ==
  [][\A n \in Notifications :
       notification[n] \in Final => notification'[n] = notification[n]]_vars

(* A notification shown as PENDING is never without an event that some pass *)
(* can deliver it with.                                                     *)
PendingHasEvent ==
  \A n \in Notifications : notification[n] = "PENDING" =>
    \E e \in Events : /\ outbox[e].of = n
                      /\ outbox[e].status \in {"PENDING", "PROCESSING"}

(* An event is PROCESSED only when its message arrived.                     *)
ProcessedMeansDelivered ==
  \A e \in Events : outbox[e].status = "PROCESSED" => delivered[outbox[e].of] > 0

(* A claim does not last: it is settled, or taken back after a crash.      *)
ClaimsEnd ==
  \A e \in 1 .. MaxEvents :
    (e \in Events /\ outbox[e].status = "PROCESSING")
      ~> (e \in Events /\ outbox[e].status # "PROCESSING")

(* Pending Telegram notifications are sent, or their failure is recorded.  *)
PendingIsAttempted ==
  \A n \in Notifications :
    (notification[n] = "PENDING" /\ Channel[n] = "TELEGRAM")
      ~> notification[n] # "PENDING"
=============================================================================
