------------------------------ MODULE Reports ------------------------------
(***************************************************************************)
(* The cash flow report: apps/api/src/modules/reports over the ledger of    *)
(* apps/api/src/modules/finance.  Of finance there is here what a report    *)
(* can tell apart: the order in which posts to one account draw their dates *)
(* and commit, and the archiving of accounts.  The queries of a report run  *)
(* beside one another, each on what is committed when it runs.              *)
(***************************************************************************)
EXTENDS Naturals, Sequences, FiniteSetsExt

CONSTANTS
  Accounts,    (* cash accounts *)
  Amounts,     (* positive *)
  MaxEntries,  (* bound: rows of the ledger *)
  MaxDay,      (* bound: days *)
  None         (* null *)

VARIABLES
  day,       (* the clock *)
  archived,  (* accounts with a deletedAt *)
  counted,   (* accounts to archive whose rows were counted, and there were none *)
  entries,   (* cash_ledgers, in the order of their commits *)
  drawn,     (* the ledgerDate of the post that holds the row of an account *)
  report     (* a report: its period, the queries still to run, their results *)

vars == <<day, archived, counted, entries, drawn, report>>

Days == 0 .. MaxDay
Queries == {"entries", "opening", "closing"}
Entry == [account : Accounts, type : {"INCREASE", "DECREASE"}, amount : Amounts,
          balance : Nat, date : Days]
NoReport == [pc |-> "none"]

-----------------------------------------------------------------------------
(* The queries. *)

(* Mutant of NewestBefore: of the rows of one day, the first. *)
NewestByDate(a, d) ==
  LET rows == {i \in DOMAIN entries : entries[i].account = a /\ entries[i].date < d} IN
  {i \in rows : \A j \in rows :
     \/ entries[j].date < entries[i].date
     \/ entries[j].date = entries[i].date /\ i <= j}

(* The newest row of account a before day d: rows are ordered by date, then *)
(* by ledgerSequence, which within an account is the order of the commits.  *)
NewestBefore(a, d) ==
  LET rows == {i \in DOMAIN entries : entries[i].account = a /\ entries[i].date < d} IN
  {i \in rows : \A j \in rows :
     \/ entries[j].date < entries[i].date
     \/ entries[j].date = entries[i].date /\ j <= i}

(* getBalanceAt up to but not with day d: the sum over the accounts that are *)
(* not deleted.  getCashBalances has the same rows, one by one.             *)
BalanceBefore(d) ==
  MapThenSumSet(LAMBDA i : entries[i].balance,
                UNION {NewestBefore(a, d) : a \in Accounts \ archived})

(* calculateFinanceTotals of the rows of the period, those of deleted       *)
(* accounts too                                                             *)
TotalOf(type, from, to) ==
  MapThenSumSet(LAMBDA i : entries[i].amount,
    {i \in DOMAIN entries : entries[i].type = type /\ entries[i].date \in from .. to})

Totals(from, to) ==
  [income |-> TotalOf("INCREASE", from, to), expense |-> TotalOf("DECREASE", from, to)]

Result(q, from, to) ==
  CASE q = "entries" -> Totals(from, to)
    [] q = "opening" -> BalanceBefore(from)
    [] q = "closing" -> BalanceBefore(to + 1)

-----------------------------------------------------------------------------
(* The ledger. *)

RowsOf(a) == {i \in DOMAIN entries : entries[i].account = a}

(* The balanceAfter of the row with the highest ledgerSequence *)
Latest(a) == IF RowsOf(a) = {} THEN 0 ELSE entries[Max(RowsOf(a))].balance

(* A report that has run some of its queries, not all, has seen two ledgers *)
Disturbed ==
  IF report.pc = "reading" /\ report.left # Queries
    THEN [report EXCEPT !.disturbed = TRUE]
    ELSE report

(* appendLedgerForTransaction up to the ledgerDate: the update of the account *)
(* holds its row until the transaction ends.                                *)
DrawDate(a) ==
  /\ a \notin archived
  /\ drawn[a] = None
  /\ drawn' = [drawn EXCEPT ![a] = day]
  /\ UNCHANGED <<day, archived, counted, entries, report>>

(* The rest of it, and the commit; the balance does not become negative     *)
CommitPost(a) ==
  \E type \in {"INCREASE", "DECREASE"}, n \in Amounts :
    /\ drawn[a] # None
    /\ Len(entries) < MaxEntries
    /\ type = "DECREASE" => Latest(a) >= n
    /\ entries' = Append(entries,
         [account |-> a, type |-> type, amount |-> n, date |-> drawn[a],
          balance |-> IF type = "INCREASE" THEN Latest(a) + n ELSE Latest(a) - n])
    /\ drawn' = [drawn EXCEPT ![a] = None]
    /\ report' = Disturbed
    /\ UNCHANGED <<day, archived, counted>>

(* The transaction is rolled back *)
AbandonPost(a) ==
  /\ drawn[a] # None
  /\ drawn' = [drawn EXCEPT ![a] = None]
  /\ UNCHANGED <<day, archived, counted, entries, report>>

(* archiveCashAccount up to the count; with rows it leaves deletedAt null   *)
CountToArchive(a) ==
  /\ a \notin archived
  /\ RowsOf(a) = {}
  /\ counted' = counted \cup {a}
  /\ UNCHANGED <<day, archived, entries, drawn, report>>

(* Its update, which waits for the post that holds the row                  *)
Archive(a) ==
  /\ a \in counted
  /\ drawn[a] = None
  /\ archived' = archived \cup {a}
  /\ counted' = counted \ {a}
  /\ report' = Disturbed
  /\ UNCHANGED <<day, entries, drawn>>

NextDay ==
  /\ day < MaxDay
  /\ day' = day + 1
  /\ UNCHANGED <<archived, counted, entries, drawn, report>>

-----------------------------------------------------------------------------
(* The report. *)

(* Nothing that is booked from now on has a date in the period              *)
Settled(to) == to < day /\ \A a \in Accounts : drawn[a] = None \/ drawn[a] > to

(* getCashFlowSummary begins *)
Ask(from, to) ==
  /\ report = NoReport
  /\ from <= to
  /\ report' = [pc |-> "reading", from |-> from, to |-> to, left |-> Queries,
                result |-> [q \in Queries |-> None],
                settled |-> Settled(to), disturbed |-> FALSE]
  /\ UNCHANGED <<day, archived, counted, entries, drawn>>

(* One of its queries *)
Query(q) ==
  /\ report.pc = "reading"
  /\ q \in report.left
  /\ report' = [report EXCEPT !.left = @ \ {q},
                              !.result[q] = Result(q, report.from, report.to)]
  /\ UNCHANGED <<day, archived, counted, entries, drawn>>

(* The answer *)
Finish ==
  /\ report.pc = "reading"
  /\ report.left = {}
  /\ report' = [report EXCEPT !.pc = "done"]
  /\ UNCHANGED <<day, archived, counted, entries, drawn>>

Init ==
  /\ day = 0
  /\ archived = {} /\ counted = {}
  /\ entries = <<>>
  /\ drawn = [a \in Accounts |-> None]
  /\ report = NoReport

Next ==
  \/ \E a \in Accounts :
       DrawDate(a) \/ CommitPost(a) \/ AbandonPost(a) \/ CountToArchive(a) \/ Archive(a)
  \/ NextDay
  \/ \E from, to \in Days : Ask(from, to)
  \/ \E q \in Queries : Query(q)
  \/ Finish

Spec == Init /\ [][Next]_vars

-----------------------------------------------------------------------------

(* The type of every variable. *)
TypeOK ==
  /\ day \in Days
  /\ archived \subseteq Accounts /\ counted \subseteq Accounts
  /\ entries \in Seq(Entry) /\ Len(entries) <= MaxEntries
  /\ drawn \in [Accounts -> Days \cup {None}]
  /\ report = NoReport \/
       /\ report.pc \in {"reading", "done"}
       /\ report.from \in Days /\ report.to \in Days
       /\ report.left \subseteq Queries
       /\ DOMAIN report.result = Queries
       /\ report.settled \in BOOLEAN /\ report.disturbed \in BOOLEAN

(* No account was archived beside a post to it *)
NothingLost == \A a \in archived : RowsOf(a) = {}

(* What there was, and what came and went, make what there is. *)
AddsUp(result) ==
  result["closing"] + result["entries"].expense =
    result["opening"] + result["entries"].income

(* A finished report adds up, unless it saw two ledgers; that of a period   *)
(* that was over does so in any case, and says what any later one would     *)
(* say: posts draw their dates in the order in which they are booked.       *)
ReportsHold ==
  report.pc = "done" /\ NothingLost =>
    /\ report.settled \/ ~report.disturbed => AddsUp(report.result)
    /\ report.settled =>
         \A q \in Queries : report.result[q] = Result(q, report.from, report.to)
=============================================================================
