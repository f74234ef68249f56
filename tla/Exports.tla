------------------------------ MODULE Exports ------------------------------
(***************************************************************************)
(* Report exports: apps/api/src/modules/reports.  A request creates a row  *)
(* of report_exports (or finds the row of its idempotency key again) and   *)
(* builds a CSV at once; the worker claims the rows nobody has built.      *)
(* Every statement commits on its own.  Claims and retries test the status *)
(* they change; marking, completing and failing an export do not, so two   *)
(* builders of one export write over each other.                           *)
(***************************************************************************)
EXTENDS Naturals, Sequences, FiniteSets

CONSTANTS
  Requests,   (* what may be asked for: report type, format and filters *)
  Format,     (* the format of a request *)
  Reordered,  (* a request with its filters' keys in the order of jsonb *)
  Keys,       (* idempotency keys *)
  Clients,    (* API requests served at the same time *)
  Workers,    (* worker processes *)
  Limit,      (* exports a pass claims at most *)
  MaxExports, (* bound on the rows *)
  MaxFaults,  (* bound on crashes, failed writes, and claims and finished exports *)
              (* that outlive their time in somebody's hands                      *)
  None        (* null *)

ASSUME FormatsAreKnown == Format \in [Requests -> {"CSV", "PDF", "EXCEL"}]
ASSUME JsonbHasOneOrder ==
  /\ Reordered \in [Requests -> Requests]
  /\ \A r \in Requests : /\ Reordered[Reordered[r]] = Reordered[r]
                         /\ Format[Reordered[r]] = Format[r]
ASSUME WorkersAreNoClients == Clients \cap Workers = {}
ASSUME NothingIsNoKey == None \notin Keys \cup Requests
ASSUME BoundsAreNumbers ==
  Limit \in Nat \ {0} /\ MaxExports \in Nat /\ MaxFaults \in Nat

VARIABLES
  exports, (* report_exports in the order of their creation *)
  process, (* requests and worker passes *)
  faults   (* of those that MaxFaults bounds, so far *)

vars == <<exports, process, faults>>

Processes == Clients \cup Workers

(* Nothing to do; "batch" is what is left to build, its head first. *)
Idle == [pc |-> "idle", found |-> {}, batch |-> <<>>, key |-> None, request |-> None]

Queued(r, k) ==
  [status |-> "QUEUED", request |-> r, key |-> k, file |-> FALSE, stale |-> FALSE]

Rows == DOMAIN exports
IsCsv(x) == Format[exports[x].request] = "CSV"
Current(p) == Head(process[p].batch)

(* A pass has x claimed, or is building it *)
Holds(pass, x) == \E i \in DOMAIN pass.batch : pass.batch[i] = x
Held(x) == \E p \in Processes : Holds(process[p], x)
Builds(p, x) ==
  process[p].pc \in {"marking", "building", "failing", "rescuing"} /\ Current(p) = x

(* updateExportStatus: every write also renews updatedAt. *)
Written(x, status, file) ==
  [exports EXCEPT ![x].status = status, ![x].file = file, ![x].stale = FALSE]

Building(x) == [Idle EXCEPT !.pc = "marking", !.batch = <<x>>]

-----------------------------------------------------------------------------
(* Requests. *)

RowsOf(k) == {x \in Rows : exports[x].key = k}

(* assertExportReplayMatches compares texts: that of the filters as jsonb   *)
(* gives them back, and that of the filters as the request has them.        *)
Matches(row, r) == Reordered[row.request] = r

(* createExportRequest up to its read, of a request with a key: a replay is *)
(* refused, or goes on with the row it found, which createExport builds if  *)
(* it is still to be built.                                                 *)
FindReplay(a, r, k) ==
  /\ process[a] = Idle
  /\ process' = [process EXCEPT ![a] =
       IF RowsOf(k) = {} THEN [Idle EXCEPT !.pc = "creating", !.key = k, !.request = r]
       ELSE LET x == CHOOSE y \in RowsOf(k) : TRUE IN
            IF /\ Matches(exports[x], r)
               /\ IsCsv(x) /\ exports[x].status = "QUEUED" /\ ~exports[x].file
            THEN Building(x)
            ELSE Idle]
  /\ UNCHANGED <<exports, faults>>

RequestWithoutKey(a, r) ==
  /\ process[a] = Idle
  /\ process' = [process EXCEPT ![a] = [Idle EXCEPT !.pc = "creating", !.request = r]]
  /\ UNCHANGED <<exports, faults>>

(* The unique index on (rtId, idempotencyKey) *)
KeyIsTaken(k) == k # None /\ RowsOf(k) # {}

(* createExportRequest's insert, and what createExport does with the row *)
Create(a) ==
  LET q == process[a]
      x == Len(exports) + 1
  IN
  /\ q.pc = "creating"
  /\ KeyIsTaken(q.key) \/ Len(exports) < MaxExports
  /\ exports' = IF KeyIsTaken(q.key) THEN exports
                ELSE Append(exports, Queued(q.request, q.key))
  /\ process' = [process EXCEPT ![a] =
       IF ~KeyIsTaken(q.key) /\ Format[q.request] = "CSV" THEN Building(x) ELSE Idle]
  /\ UNCHANGED faults

(* Mutant of Retryable: an expired export may be built again. *)
RetryableWhenOver(status) == status \in {"FAILED", "EXPIRED"}

Retryable(status) == status = "FAILED"

(* retryExport: back to QUEUED, with no file, and built at once *)
RetryExport(a, x) ==
  /\ process[a] = Idle
  /\ Retryable(exports[x].status)
  /\ exports' = Written(x, "QUEUED", FALSE)
  /\ process' = [process EXCEPT ![a] = IF IsCsv(x) THEN Building(x) ELSE Idle]
  /\ UNCHANGED faults

(* What outlives its time while a process has x in hand, because that is    *)
(* slow, does so only so often.                                             *)
Outlives(x) ==
  \/ Held(x) /\ faults < MaxFaults /\ faults' = faults + 1
  \/ ~Held(x) /\ UNCHANGED faults

(* expireExports, which listExports, getExport and downloadExport call,     *)
(* seven days after the export was completed                                *)
ExpireExport(x) ==
  /\ exports[x].status = "COMPLETED"
  /\ exports' = [exports EXCEPT ![x].status = "EXPIRED"]
  /\ Outlives(x)
  /\ UNCHANGED process

-----------------------------------------------------------------------------
(* processPendingCsvExports. *)

(* Time passes over a claim: its row was last updated before staleBefore.   *)
GrowStale(x) ==
  /\ exports[x].status = "PROCESSING"
  /\ ~exports[x].stale
  /\ exports' = [exports EXCEPT ![x].stale = TRUE]
  /\ Outlives(x)
  /\ UNCHANGED process

(* Mutant of Recovered: a claim is for ever. *)
NothingRecovered == exports

(* recoverStaleCsvExports *)
Recovered ==
  [x \in Rows |->
     IF exports[x].status = "PROCESSING" /\ IsCsv(x) /\ exports[x].stale
     THEN [exports[x] EXCEPT !.status = "QUEUED", !.stale = FALSE]
     ELSE exports[x]]

(* The oldest Limit exports that are QUEUED and CSV *)
Candidates(rows) ==
  LET queued == {x \in DOMAIN rows : rows[x].status = "QUEUED" /\ IsCsv(x)}
  IN {x \in queued : Cardinality({y \in queued : y < x}) < Limit}

StartPass(w) ==
  /\ process[w] = Idle
  /\ exports' = Recovered
  /\ process' = [process EXCEPT ![w] =
                   [Idle EXCEPT !.pc = "claiming", !.found = Candidates(Recovered)]]
  /\ UNCHANGED faults

(* claimPendingCsvExports, the oldest candidate: only if it is QUEUED still *)
ClaimNext(w) ==
  /\ process[w].pc = "claiming"
  /\ \E x \in process[w].found :
       LET free == exports[x].status = "QUEUED" IN
       /\ \A y \in process[w].found : x <= y
       /\ exports' = IF free THEN Written(x, "PROCESSING", exports[x].file) ELSE exports
       /\ process' = [process EXCEPT ![w].found = @ \ {x},
                                     ![w].batch = IF free THEN Append(@, x) ELSE @]
  /\ UNCHANGED faults

EndClaims(w) ==
  LET q == process[w] IN
  /\ q.pc = "claiming"
  /\ q.found = {}
  /\ process' = [process EXCEPT ![w].pc = IF q.batch = <<>> THEN "idle" ELSE "marking"]
  /\ UNCHANGED <<exports, faults>>

-----------------------------------------------------------------------------
(* processCsvExport, in a request or in a pass. *)

(* What p does when it is done with the export it builds. *)
Proceed(p) ==
  process' = [process EXCEPT ![p] =
    IF Len(process[p].batch) = 1 THEN Idle
    ELSE [process[p] EXCEPT !.pc = "marking", !.batch = Tail(@)]]

Goto(p, pc) == process' = [process EXCEPT ![p].pc = pc]

(* markExportProcessing *)
Mark(p) ==
  /\ process[p].pc = "marking"
  /\ exports' = Written(Current(p), "PROCESSING", exports[Current(p)].file)
  /\ Goto(p, "building")
  /\ UNCHANGED faults

(* Mutant of Complete: an empty table is not worth a file. *)
CompleteWithoutFile(p) ==
  /\ process[p].pc = "building"
  /\ \E file \in BOOLEAN : exports' = Written(Current(p), "COMPLETED", file)
  /\ Proceed(p)
  /\ UNCHANGED faults

(* buildPrivateExportTable succeeds, completeExportRequest *)
Complete(p) ==
  /\ process[p].pc = "building"
  /\ exports' = Written(Current(p), "COMPLETED", TRUE)
  /\ Proceed(p)
  /\ UNCHANGED faults

(* buildPrivateExportTable raises an error *)
BuildFails(p) ==
  /\ process[p].pc = "building"
  /\ Goto(p, "failing")
  /\ UNCHANGED <<exports, faults>>

(* failExportRequest, in processCsvExport's handler or in the pass's own *)
Fail(p) ==
  /\ process[p].pc \in {"failing", "rescuing"}
  /\ exports' = Written(Current(p), "FAILED", FALSE)
  /\ Proceed(p)
  /\ UNCHANGED faults

(* A write fails, or it commits and the audit row after it does not.  An    *)
(* error that leaves processCsvExport ends a request; a pass goes on with   *)
(* failExportRequest, and ends if that fails again.                         *)
WriteError(p) ==
  LET pc == process[p].pc
      x == Current(p)
  IN
  /\ pc \in {"marking", "building", "failing", "rescuing"}
  /\ faults < MaxFaults
  /\ \/ UNCHANGED exports
     \/ exports' = CASE pc = "marking" -> Written(x, "PROCESSING", exports[x].file)
                     [] pc = "building" -> Written(x, "COMPLETED", TRUE)
                     [] OTHER -> Written(x, "FAILED", FALSE)
  /\ process' = [process EXCEPT ![p] =
       CASE pc = "building" -> [@ EXCEPT !.pc = "failing"]
         [] pc \notin {"building", "rescuing"} /\ p \in Workers -> [@ EXCEPT !.pc = "rescuing"]
         [] OTHER -> Idle]
  /\ faults' = faults + 1

(* The process dies: what it claimed stays as it is. *)
Crash(p) ==
  /\ process[p] # Idle
  /\ faults < MaxFaults
  /\ process' = [process EXCEPT ![p] = Idle]
  /\ faults' = faults + 1
  /\ UNCHANGED exports

-----------------------------------------------------------------------------

Init ==
  /\ exports = <<>>
  /\ process = [p \in Processes |-> Idle]
  /\ faults = 0

Ask(a) ==
  \/ \E r \in Requests : RequestWithoutKey(a, r) \/ \E k \in Keys : FindReplay(a, r, k)
  \/ \E x \in Rows : RetryExport(a, x)

Build(p) ==
  \/ Mark(p)
  \/ Complete(p)
  \/ BuildFails(p)
  \/ Fail(p)

Serve(a) == Create(a) \/ Build(a)

Pass(w) ==
  \/ StartPass(w)
  \/ ClaimNext(w)
  \/ EndClaims(w)
  \/ Build(w)

Next ==
  \/ \E a \in Clients : Ask(a) \/ Serve(a)
  \/ \E w \in Workers : Pass(w)
  \/ \E x \in Rows : ExpireExport(x) \/ GrowStale(x)
  \/ \E p \in Processes : WriteError(p) \/ Crash(p)

Spec == Init /\ [][Next]_vars

(* Workers poll for ever, a request that was begun is served to its end,    *)
(* and time passes over every claim.                                        *)
FairSpec ==
  /\ Spec
  /\ \A a \in Clients : WF_vars(Serve(a))
  /\ \A w \in Workers : WF_vars(Pass(w))
  /\ \A x \in 1 .. MaxExports : WF_vars(x \in Rows /\ GrowStale(x))

-----------------------------------------------------------------------------
(* Properties. *)

Statuses == {"QUEUED", "PROCESSING", "COMPLETED", "FAILED", "EXPIRED"}

ExportRow == [status: Statuses, request: Requests, key: Keys \cup {None},
              file: BOOLEAN, stale: BOOLEAN]
PassRow ==
  [pc: {"idle", "creating", "claiming", "marking", "building", "failing", "rescuing"},
   found: SUBSET Rows, batch: Seq(Rows), key: Keys \cup {None},
   request: Requests \cup {None}]

(* The type of every variable; who creates knows what, and who builds which. *)
TypeOK ==
  /\ exports \in Seq(ExportRow)
  /\ process \in [Processes -> PassRow]
  /\ \A p \in Processes :
       /\ process[p].pc = "creating" => process[p].request \in Requests
       /\ process[p].pc \in {"marking", "building", "failing", "rescuing"}
            => process[p].batch # <<>>
  /\ faults \in 0 .. MaxFaults

(* However requests with one key overlap, they make one export.            *)
OneExportPerKey ==
  \A x, y \in Rows : exports[x].key = exports[y].key => x = y \/ exports[x].key = None

(* What is COMPLETED or EXPIRED has its file and what FAILED has none,      *)
(* whichever of several builders wrote last.                                *)
FileIffBuilt ==
  \A x \in Rows : /\ exports[x].status \in {"COMPLETED", "EXPIRED"} => exports[x].file
                  /\ exports[x].status = "FAILED" => ~exports[x].file

(* Builders that write over each other leave nothing in PROCESSING: unless  *)
(* a process died or lost a write, somebody still works on such an export.  *)
ProcessingIsHeld ==
  \A x \in Rows : exports[x].status = "PROCESSING" => Held(x) \/ faults > 0

(* No request, retry or pass takes up an EXPIRED export, so it comes back   *)
(* only by a step of one who was building it when it expired, since marking, *)
(* completing and failing it do not look at its status.                      *)
ExpiredIsFinal ==
  [][\A x \in Rows : exports[x].status = "EXPIRED" =>
       /\ \A p \in Processes : Holds(process'[p], x) => Holds(process[p], x)
       /\ exports'[x].status = "EXPIRED"
          \/ \E p \in Processes : Builds(p, x) /\ process'[p] # process[p]]_vars

(* A queued CSV export is built, or its failure is recorded, even when the  *)
(* request that created it and a worker that claimed it die.                *)
QueuedIsBuilt ==
  \A x \in 1 .. MaxExports :
    (x \in Rows /\ exports[x].status = "QUEUED" /\ IsCsv(x))
      ~> (x \in Rows /\ exports[x].status \in {"COMPLETED", "FAILED"})

=============================================================================
