------------------------------ MODULE Finance ------------------------------
(***************************************************************************)
(* Cash accounts, finance transactions and the cash ledger of one RT (the  *)
(* tenant): apps/api/src/modules/finance.  Requests reach the database     *)
(* concurrently; what PostgreSQL promises is modelled as follows.          *)
(*                                                                         *)
(*  - A READ COMMITTED handler that ends in an updateMany with a status    *)
(*    guard is one action: the guard is evaluated again on the row it      *)
(*    locks.  A handler that decides on an earlier read is two actions.    *)
(*  - A SERIALIZABLE handler takes a snapshot (its first read) and commits *)
(*    in a later action.  Its reads are of the snapshot, kept in req; it   *)
(*    fails with P2034 if a row it writes was updated by another committed *)
(*    transaction since (the rows in "stale"), may fail with P2034 at any  *)
(*    time, and fails with P2002 on a unique index.  Conflicts that SSI    *)
(*    detects beyond that only abort more.                                 *)
(***************************************************************************)
EXTENDS Integers, FiniteSets

CONSTANTS
  Accounts,      (* identities of cash accounts *)
  MainAccount,   (* the account with key 'main' *)
  Txns,          (* identities of finance transactions *)
  Collections,   (* identities of jimpitan collections *)
  Requests,      (* posting requests in flight at the same time *)
  Approvers,     (* memberships with an approver role *)
  Keys,          (* idempotency keys *)
  None,          (* null *)
  CollectionKey, (* the default key collection:<id> of a collection *)
  Commands,      (* payloads of draft requests *)
  Policies,      (* expense approval policies a tenant may choose *)
  Harvests,      (* totals and paid sums collections are submitted with *)
  MaxAttempts    (* withSerializableRetry's budget *)

ASSUME NothingIsNoRow ==
  /\ None \notin Accounts \cup Txns \cup Collections \cup Keys
  /\ Accounts \cap Txns = {}
ASSUME MainAccountIsAnAccount == MainAccount \in Accounts
ASSUME CollectionKeysAreKeys == CollectionKey \in [Collections -> Keys]
ASSUME CommandsAreDrafts ==
  Commands \subseteq [type: {"INCOME", "EXPENSE"}, account: Accounts,
                      amount: Nat \ {0}, key: Keys \cup {None}]
ASSUME PoliciesAreNormalized ==
  Policies \subseteq [auto: BOOLEAN, threshold: Nat, required: Nat \ {0}]
ASSUME HarvestsAreTotals ==
  Harvests \subseteq [mode: {"PER_HOUSE", "BULK_TOTAL"}, total: Nat, paid: Nat]
ASSUME ApproversAreFinite == IsFiniteSet(Approvers)
ASSUME RetryBudget == MaxAttempts \in Nat \ {0}

VARIABLES
  accounts,    (* cash_accounts: status, version, mirrored balance *)
  categories,  (* the category of each transaction type *)
  txns,        (* transactions *)
  ledger,      (* cash_ledgers, a set of rows *)
  collections, (* what finance reads of jimpitan_collections *)
  policy,      (* the setting expense_approval_policy *)
  approvals,   (* expense_approvals: status per transaction and approver *)
  archiving,   (* archive handlers between the ledger count and the update *)
  req          (* posting requests *)

financeVars == <<accounts, categories, txns, ledger, archiving, req>>
vars == <<accounts, categories, txns, ledger, collections, policy, approvals,
          archiving, req>>

Types == {"INCOME", "EXPENSE"}
TxnStatuses == {"DRAFT", "VALIDATED", "POSTED", "REJECTED", "VOIDED"}

(* A transaction row; "NONE" stands for a row that was never inserted.      *)
(* "under" is history: the approval policy that the row's post has read.    *)
NoTxn == [status |-> "NONE", type |-> "INCOME", account |-> None,
          amount |-> 0, key |-> None, source |-> None, under |-> None]

(* A request nobody works on, with the answer its client got.  While a     *)
(* request is worked on, "row" is the transaction row it will write, seq   *)
(* and balance are the newest ledger row's, as its snapshot has them, and  *)
(* "create" says that the snapshot has no default account.                 *)
Idle(answer) ==
  [pc |-> "idle", txn |-> None, coll |-> None, key |-> None, want |-> None,
   attempt |-> 0, row |-> NoTxn, seq |-> 0, balance |-> 0, create |-> FALSE,
   stale |-> {}, answer |-> answer]

-----------------------------------------------------------------------------
(* Reads. *)

EntriesOf(a) == {e \in ledger : e.account = a}

(* findFirst with orderBy ledgerSequence desc, or 0 and 0 without any row *)
LatestEntry(a) ==
  CHOOSE e \in EntriesOf(a) : \A f \in EntriesOf(a) : f.seq <= e.seq
LatestSeq(a) == IF EntriesOf(a) = {} THEN 0 ELSE LatestEntry(a).seq
LatestBalance(a) == IF EntriesOf(a) = {} THEN 0 ELSE LatestEntry(a).after

KeyTaken(k, t) ==
  /\ k # None
  /\ \E u \in Txns \ {t} : txns[u].status # "NONE" /\ txns[u].key = k

SourceTxns(c) == {t \in Txns : txns[t].status # "NONE" /\ txns[t].source = c}

Decided(t, s) == {p \in Approvers : approvals[t][p] = s}

(* Mutant of ApprovalGate: the policy is read before the transaction begins *)
(* and may have been replaced since.                                        *)
ApprovalGateOfAnyTime(row, t) ==
  \E p \in Policies :
    \/ row.type # "EXPENSE"
    \/ p.auto /\ row.amount <= p.threshold
    \/ /\ Decided(t, "REJECTED") = {}
       /\ Cardinality(Decided(t, "APPROVED")) >= p.required

(* assertExpenseApprovalGateInTransaction *)
ApprovalGate(row, t) ==
  \/ row.type # "EXPENSE"
  \/ policy.auto /\ row.amount <= policy.threshold
  \/ /\ Decided(t, "REJECTED") = {}
     /\ Cardinality(Decided(t, "APPROVED")) >= policy.required

(* Mutant of CollectionPostable: the total is not held against the items. *)
CollectionPostableUnchecked(c) ==
  collections[c].status = "VALIDATED" /\ collections[c].total > 0

(* resolveCollectionPostingAmount; the paid sum is the sum of PAID items *)
CollectionPostable(c) ==
  /\ collections[c].status = "VALIDATED"
  /\ collections[c].total > 0
  /\ \/ collections[c].mode = "BULK_TOTAL"
     \/ collections[c].paid = collections[c].total

(* Mutant of KeyMatches: any key replays. *)
AnyKeyMatches(requested, existing) == TRUE

(* The replay rule: no key, or the key the transaction carries. *)
KeyMatches(requested, existing) == requested \in {None, existing}

-----------------------------------------------------------------------------
(* Committed updates of rows make the snapshots that write them stale. *)

Writes(q) == {q.txn, q.row.account}

(* Mutants of Stale: one of the two rows is not written conditionally. *)
StaleByAccountOnly(q, rows) ==
  IF q.pc = "appending"
  THEN [q EXCEPT !.stale = @ \cup (rows \cap {q.row.account})]
  ELSE q
StaleByTxnOnly(q, rows) ==
  IF q.pc = "appending"
  THEN [q EXCEPT !.stale = @ \cup (rows \cap {q.txn})]
  ELSE q

Stale(q, rows) ==
  IF q.pc = "appending"
  THEN [q EXCEPT !.stale = @ \cup (rows \cap Writes(q))]
  ELSE q

Updated(rows) == [r \in Requests |-> Stale(req[r], rows)]

(* Request r ends with an answer, having committed an update of "rows". *)
Answer(r, answer, rows) == [Updated(rows) EXCEPT ![r] = Idle(answer)]

UnusedIds ==
  {t \in Txns : txns[t].status = "NONE" /\ \A r \in Requests : req[r].txn # t}

-----------------------------------------------------------------------------
(* Cash accounts and categories (all READ COMMITTED). *)

(* createCashAccount; a key that exists, archived or not, is a conflict *)
CreateCashAccount(a) ==
  /\ accounts[a].status = "absent"
  /\ accounts' = [accounts EXCEPT ![a].status = "active"]
  /\ req' = Updated({a})
  /\ UNCHANGED <<categories, txns, ledger, collections, policy, approvals,
                 archiving>>

(* updateCashAccount with isActive *)
UpdateCashAccount(a, status) ==
  /\ accounts[a].status \in {"active", "inactive"} \ {status}
  /\ accounts' = [accounts EXCEPT ![a].status = status]
  /\ req' = Updated({a})
  /\ UNCHANGED <<categories, txns, ledger, collections, policy, approvals,
                 archiving>>

(* archiveCashAccount, up to the count of the account's ledger rows *)
CountLedgerToArchive(a) ==
  /\ archiving[a] = "none"
  /\ accounts[a].status \in {"active", "inactive"}
  /\ archiving' =
       [archiving EXCEPT ![a] = IF EntriesOf(a) = {} THEN "unused" ELSE "used"]
  /\ UNCHANGED <<accounts, categories, txns, ledger, collections, policy,
                 approvals, req>>

(* ... and its update, whose WHERE names the id only *)
ArchiveCashAccount(a) ==
  /\ archiving[a] # "none"
  /\ accounts' = [accounts EXCEPT ![a].status =
                    IF archiving[a] = "used" THEN "inactive" ELSE "deleted"]
  /\ archiving' = [archiving EXCEPT ![a] = "none"]
  /\ req' = Updated({a})
  /\ UNCHANGED <<categories, txns, ledger, collections, policy, approvals>>

(* updateCategory with isActive, and archiveCategory *)
SetCategory(type, status) ==
  /\ categories[type] \in {"active", "inactive"} \ {status}
  /\ categories' = [categories EXCEPT ![type] = status]
  /\ UNCHANGED <<accounts, txns, ledger, collections, policy, approvals,
                 archiving, req>>

-----------------------------------------------------------------------------
(* The life of a transaction before it is posted. *)

UsableReferences(type, a) ==
  /\ accounts[a].status = "active"
  /\ categories[type] = "active"

(* createTransactionDraft; a key in use replays or conflicts, no row changes *)
CreateDraft(t, c) ==
  /\ t \in UnusedIds
  /\ ~KeyTaken(c.key, t)
  /\ UsableReferences(c.type, c.account)
  /\ txns' = [txns EXCEPT ![t] =
                [status |-> "DRAFT", type |-> c.type, account |-> c.account,
                 amount |-> c.amount, key |-> c.key, source |-> None,
                 under |-> None]]
  /\ UNCHANGED <<accounts, categories, ledger, collections, policy, approvals,
                 archiving, req>>

Transition(t, from, to) ==
  /\ txns[t].status \in from
  /\ txns' = [txns EXCEPT ![t].status = to]
  /\ req' = Updated({t})
  /\ UNCHANGED <<accounts, categories, ledger, collections, policy, approvals,
                 archiving>>

(* Mutant of RejectTransaction: a posted transaction can be rejected. *)
RejectAnyTransaction(t) ==
  Transition(t, {"DRAFT", "VALIDATED", "POSTED"}, "REJECTED")

ValidateTransaction(t) == Transition(t, {"DRAFT"}, "VALIDATED")
RejectTransaction(t) == Transition(t, {"DRAFT", "VALIDATED"}, "REJECTED")
VoidDraftTransaction(t) == Transition(t, {"DRAFT"}, "VOIDED")

-----------------------------------------------------------------------------
(* Posting requests: postTransaction and postValidatedCollection. *)

(* The service's own read lets only these two statuses through. *)
SendPost(r, t, k) ==
  /\ req[r].pc = "idle"
  /\ txns[t].status \in {"VALIDATED", "POSTED"}
  /\ req' = [req EXCEPT ![r] = [Idle("none") EXCEPT
               !.pc = "begin", !.txn = t, !.key = k, !.attempt = 1]]
  /\ UNCHANGED <<accounts, categories, txns, ledger, collections, policy,
                 approvals, archiving>>

(* The endpoint may name an account and a key; the hook names only the key. *)
(* t is the id the request's insert will draw.                              *)
SendCollection(r, t, c, a, k) ==
  /\ req[r].pc = "idle"
  /\ t \in UnusedIds
  /\ req' = [req EXCEPT ![r] = [Idle("none") EXCEPT
               !.pc = "begin", !.txn = t, !.coll = c, !.want = a, !.key = k,
               !.attempt = 1]]
  /\ UNCHANGED <<accounts, categories, txns, ledger, collections, policy,
                 approvals, archiving>>

(* The transaction that makes the request a replay. *)
Existing(q) ==
  IF q.coll = None THEN {t \in {q.txn} : txns[t].status = "POSTED"}
                   ELSE SourceTxns(q.coll)

(* Found posted at the start of an attempt, or after a concurrency conflict. *)
Replay(r) ==
  /\ req[r].pc \in {"begin", "failing"}
  /\ \E t \in Existing(req[r]) :
       req' = Answer(r, IF /\ KeyMatches(req[r].key, txns[t].key)
                           /\ txns[t].status = "POSTED"
                        THEN "replayed" ELSE "conflict", {})
  /\ UNCHANGED <<accounts, categories, txns, ledger, collections, policy,
                 approvals, archiving>>

PostingInputs(t) ==
  /\ txns[t].status = "VALIDATED"
  /\ UsableReferences(txns[t].type, txns[t].account)
  /\ ApprovalGate(txns[t], t)

(* assertPostIdempotencyInTransaction *)
PostIdempotency(t, k) ==
  k # None => txns[t].key \in {None, k} /\ ~KeyTaken(k, t)

(* The default account is created when the tenant has none. *)
CollectionAccount(q) == IF q.want = None THEN MainAccount ELSE q.want

CollectionInputs(q) ==
  /\ CollectionPostable(q.coll)
  /\ categories["INCOME"] = "active"
  /\ \/ accounts[CollectionAccount(q)].status = "active"
     \/ q.want = None /\ accounts[MainAccount].status \in {"absent", "deleted"}

(* A failed precondition of an attempt rolls it back; nothing is retried. *)
Refuse(r) ==
  LET q == req[r] IN
  /\ q.pc = "begin"
  /\ Existing(q) = {}
  /\ \/ /\ q.coll = None
        /\ ~(PostingInputs(q.txn) /\ PostIdempotency(q.txn, q.key))
        /\ req' = Answer(r, IF PostingInputs(q.txn) THEN "conflict"
                                                    ELSE "refused", {})
     \/ /\ q.coll # None
        /\ ~CollectionInputs(q)
        /\ req' = Answer(r, "refused", {})
  /\ UNCHANGED <<accounts, categories, txns, ledger, collections, policy,
                 approvals, archiving>>

(* The reads of an attempt, all of one snapshot, and the row it will write. *)
Snapshot(r, row) ==
  /\ req' = [req EXCEPT ![r] = [@ EXCEPT
               !.pc = "appending", !.row = row,
               !.seq = LatestSeq(row.account),
               !.balance = LatestBalance(row.account),
               !.create = (accounts[row.account].status = "absent")]]
  /\ UNCHANGED <<accounts, categories, txns, ledger, collections, policy,
                 approvals, archiving>>

ReadTransaction(r) ==
  LET q == req[r] IN
  /\ q.pc = "begin" /\ q.coll = None
  /\ PostingInputs(q.txn)
  /\ PostIdempotency(q.txn, q.key)
  /\ Snapshot(r, [txns[q.txn] EXCEPT
       !.status = "POSTED", !.key = IF q.key = None THEN @ ELSE q.key,
       !.under = policy])

ReadCollection(r) ==
  LET q == req[r] IN
  /\ q.pc = "begin" /\ q.coll # None
  /\ Existing(q) = {}
  /\ CollectionInputs(q)
  /\ accounts[CollectionAccount(q)].status # "deleted"
  /\ Snapshot(r,
       [status |-> "POSTED", type |-> "INCOME",
        account |-> CollectionAccount(q), amount |-> collections[q.coll].total,
        key |-> IF q.key = None THEN CollectionKey[q.coll] ELSE q.key,
        source |-> q.coll, under |-> None])

(* Mutant of UniqueViolation: the indexes of transactions are missing. *)
ViolationWithoutSourceIndex(q) ==
  \/ q.create /\ accounts[q.row.account].status # "absent"
  \/ \E e \in ledger : \/ e.txn = q.txn
                       \/ e.account = q.row.account /\ e.seq = q.seq + 1

(* The unique indexes an attempt's inserts and updates run into (P2002). *)
UniqueViolation(q) ==
  \/ KeyTaken(q.row.key, q.txn)
  \/ q.row.source # None /\ SourceTxns(q.row.source) \ {q.txn} # {}
  \/ q.create /\ accounts[q.row.account].status # "absent"
  \/ \E e \in ledger : \/ e.txn = q.txn
                       \/ e.account = q.row.account /\ e.seq = q.seq + 1

BalanceAfter(q) ==
  IF q.row.type = "EXPENSE" THEN q.balance - q.row.amount
                            ELSE q.balance + q.row.amount

(* Mutant of Affordable: the balance is not tested. *)
AlwaysAffordable(q) == TRUE

Affordable(q) == BalanceAfter(q) >= 0

(* Mutant of BookedAccount: a mirror left behind. *)
BookedWithOldBalance(account, q) ==
  [status |-> IF q.create THEN "active" ELSE account.status,
   version |-> account.version + 1, balance |-> q.balance]

(* The cash account row after the posting. *)
BookedAccount(account, q) ==
  [status |-> IF q.create THEN "active" ELSE account.status,
   version |-> account.version + 1, balance |-> BalanceAfter(q)]

LedgerRow(q) ==
  [account |-> q.row.account, txn |-> q.txn, seq |-> q.seq + 1,
   type |-> q.row.type, amount |-> q.row.amount,
   before |-> q.balance, after |-> BalanceAfter(q)]

(* appendLedgerForTransaction and the transition to POSTED, committed *)
AppendLedger(r) ==
  LET q == req[r] IN
  /\ q.pc = "appending"
  /\ q.stale = {}
  /\ ~UniqueViolation(q)
  /\ Affordable(q)
  /\ accounts' = [accounts EXCEPT ![q.row.account] = BookedAccount(@, q)]
  /\ ledger' = ledger \cup {LedgerRow(q)}
  /\ txns' = [txns EXCEPT ![q.txn] = q.row]
  /\ req' = Answer(r, "posted", {q.row.account, q.txn})
  /\ UNCHANGED <<categories, collections, policy, approvals, archiving>>

InsufficientBalance(r) ==
  LET q == req[r] IN
  /\ q.pc = "appending"
  /\ q.row.account \notin q.stale
  /\ ~Affordable(q)
  /\ req' = Answer(r, "refused", {})
  /\ UNCHANGED <<accounts, categories, txns, ledger, collections, policy,
                 approvals, archiving>>

Failing(r) == [req EXCEPT ![r] = [Idle("none") EXCEPT
  !.pc = "failing", !.txn = req[r].txn, !.coll = req[r].coll,
  !.key = req[r].key]]

(* P2002: not retried.  A soft-deleted default account still owns its key. *)
DuplicateKey(r) ==
  LET q == req[r] IN
  /\ \/ q.pc = "appending" /\ UniqueViolation(q)
     \/ /\ q.pc = "begin" /\ q.coll # None
        /\ Existing(q) = {}
        /\ CollectionInputs(q)
        /\ accounts[CollectionAccount(q)].status = "deleted"
  /\ req' = Failing(r)
  /\ UNCHANGED <<accounts, categories, txns, ledger, collections, policy,
                 approvals, archiving>>

(* P2034: a stale row, or any conflict the database may report. *)
SerializationFailure(r) ==
  LET q == req[r] IN
  /\ q.pc = "appending"
  /\ req' = IF q.attempt = MaxAttempts THEN Failing(r) ELSE
       [req EXCEPT ![r] = [Idle("none") EXCEPT
         !.pc = "begin", !.txn = q.txn, !.coll = q.coll, !.key = q.key,
         !.want = q.want, !.attempt = q.attempt + 1]]
  /\ UNCHANGED <<accounts, categories, txns, ledger, collections, policy,
                 approvals, archiving>>

(* After the conflict nothing is posted: throwKnownConflict. *)
GiveUp(r) ==
  /\ req[r].pc = "failing"
  /\ Existing(req[r]) = {}
  /\ req' = Answer(r, "conflict", {})
  /\ UNCHANGED <<accounts, categories, txns, ledger, collections, policy,
                 approvals, archiving>>

(* The API process dies: PostgreSQL rolls back what was not committed. *)
Crash ==
  /\ \/ \E r \in Requests : req[r].pc # "idle"
     \/ \E a \in Accounts : archiving[a] # "none"
  /\ archiving' = [a \in Accounts |-> "none"]
  /\ req' = [r \in Requests |-> IF req[r].pc = "idle" THEN req[r] ELSE Idle("lost")]
  /\ UNCHANGED <<accounts, categories, txns, ledger, collections, policy,
                 approvals>>

-----------------------------------------------------------------------------

(* What a request's own handler does once the request was sent. *)
Handle(r) ==
  \/ Replay(r)
  \/ Refuse(r)
  \/ ReadTransaction(r)
  \/ ReadCollection(r)
  \/ AppendLedger(r)
  \/ InsufficientBalance(r)
  \/ DuplicateKey(r)
  \/ SerializationFailure(r)
  \/ GiveUp(r)

FinanceInit ==
  /\ accounts \in [Accounts -> [status: {"absent", "active"}, version: {1},
                                balance: {0}]]
  /\ categories = [type \in Types |-> "active"]
  /\ txns = [t \in Txns |-> NoTxn]
  /\ ledger = {}
  /\ archiving = [a \in Accounts |-> "none"]
  /\ req = [r \in Requests |-> Idle("none")]

FinanceNext ==
  \/ \E a \in Accounts :
       \/ CreateCashAccount(a)
       \/ \E s \in {"active", "inactive"} : UpdateCashAccount(a, s)
       \/ CountLedgerToArchive(a)
       \/ ArchiveCashAccount(a)
  \/ \E type \in Types, s \in {"active", "inactive", "deleted"} :
       SetCategory(type, s)
  \/ \E t \in Txns :
       \/ \E c \in Commands : CreateDraft(t, c)
       \/ ValidateTransaction(t)
       \/ RejectTransaction(t)
       \/ VoidDraftTransaction(t)
  \/ \E r \in Requests :
       \/ \E t \in Txns, k \in Keys \cup {None} : SendPost(r, t, k)
       \/ \E t \in Txns, c \in Collections, a \in Accounts \cup {None},
            k \in Keys \cup {None} : SendCollection(r, t, c, a, k)
       \/ Handle(r)
  \/ Crash

-----------------------------------------------------------------------------
(* Properties. *)

TxnRows ==
  [status: TxnStatuses \cup {"NONE"}, type: Types,
   account: Accounts \cup {None}, amount: Nat, key: Keys \cup {None},
   source: Collections \cup {None}, under: Policies \cup {None}]

RequestStates ==
  [pc: {"idle", "begin", "appending", "failing"}, txn: Txns \cup {None},
   coll: Collections \cup {None}, key: Keys \cup {None},
   want: Accounts \cup {None}, attempt: 0 .. MaxAttempts, row: TxnRows,
   seq: Nat, balance: Nat, create: BOOLEAN,
   stale: SUBSET (Accounts \cup Txns),
   answer: {"none", "posted", "replayed", "refused", "conflict", "lost"}]

LedgerRows ==
  [account: Accounts, txn: Txns, seq: Nat \ {0}, type: Types,
   amount: Nat \ {0}, before: Nat, after: Nat]

(* The type of every variable; decimals are naturals of the smallest unit. *)
TypeOK ==
  /\ accounts \in [Accounts -> [status: {"absent", "active", "inactive", "deleted"},
                                version: Nat \ {0}, balance: Nat]]
  /\ categories \in [Types -> {"active", "inactive", "deleted"}]
  /\ txns \in [Txns -> TxnRows]
  /\ ledger \subseteq LedgerRows
  /\ collections \in [Collections -> [status: {"SUBMITTED", "VALIDATED"},
       mode: {"PER_HOUSE", "BULK_TOTAL"}, total: Nat, paid: Nat]]
  /\ policy \in Policies
  /\ approvals \in [Txns -> [Approvers ->
       {"none", "PENDING", "APPROVED", "REJECTED", "CANCELLED"}]]
  /\ archiving \in [Accounts -> {"none", "unused", "used"}]
  /\ req \in [Requests -> RequestStates]

(* Ledger sequence continuity: whatever posts run concurrently, an account's *)
(* rows are numbered from 1 without a gap, one row each, and its version is *)
(* the number of the next one.                                              *)
SequenceContinuity ==
  \A a \in Accounts :
    /\ {e.seq : e \in EntriesOf(a)} = 1 .. accounts[a].version - 1
    /\ \A e, f \in EntriesOf(a) : e.seq = f.seq => e = f

(* Balance math: each row starts from the balance its predecessor left and *)
(* moves it by its amount, never below zero.                               *)
BalanceChain ==
  \A e \in ledger :
    /\ e.after = IF e.type = "EXPENSE" THEN e.before - e.amount
                                       ELSE e.before + e.amount
    /\ e.seq = 1 => e.before = 0
    /\ \A f \in ledger :
         f.account = e.account /\ f.seq = e.seq + 1 => f.before = e.after

(* The mirrored currentBalance is the newest row's balanceAfter.           *)
MirroredBalance ==
  \A a \in Accounts : accounts[a].balance = LatestBalance(a)

(* The books are right: the rows of an account are numbered without a gap,  *)
(* continue each other's balance and end in the one the account mirrors.    *)
BooksBalance == SequenceContinuity /\ BalanceChain /\ MirroredBalance

(* A transaction is POSTED exactly when one ledger row carries it, with its *)
(* account, type and amount: nothing is booked twice and nothing is lost.   *)
PostedIffBooked ==
  \A t \in Txns :
    /\ txns[t].status = "POSTED" <=> \E e \in ledger : e.txn = t
    /\ \A e, f \in ledger : e.txn = t /\ f.txn = t => e = f
    /\ \A e \in ledger : e.txn = t =>
         /\ e.account = txns[t].account
         /\ e.type = txns[t].type
         /\ e.amount = txns[t].amount

(* No two transactions share an idempotency key or a source collection.    *)
NoSharedKeyOrSource ==
  \A t \in Txns : txns[t].status # "NONE" =>
    /\ ~KeyTaken(txns[t].key, t)
    /\ txns[t].source # None => SourceTxns(txns[t].source) = {t}

(* A collection is booked with the amount it was validated with: the paid  *)
(* sum of a PER_HOUSE one, the counted total of a BULK_TOTAL one; and one   *)
(* of nothing is never booked.                                              *)
CollectionBookedAsValidated ==
  \A t \in Txns : txns[t].status # "NONE" /\ txns[t].source # None =>
    LET c == collections[txns[t].source] IN
    /\ txns[t].status = "POSTED"
    /\ c.status = "VALIDATED"
    /\ txns[t].amount > 0
    /\ txns[t].amount = IF c.mode = "PER_HOUSE" THEN c.paid ELSE c.total

(* A REJECTED approval and the REJECTED status of its expense go together: *)
(* a post that read the approvals before the rejection cannot win.         *)
RejectionIsFinal ==
  \A t \in Txns : Decided(t, "REJECTED") # {} => txns[t].status = "REJECTED"

(* An expense passes the policy of its post: the policy lets its amount pass *)
(* without approvals, or transaction t has as many as the policy requires.  *)
HasApprovals(t, n) == Cardinality(Decided(t, "APPROVED")) >= n
PassesItsPolicy(row, t) ==
  row.type = "EXPENSE" =>
    /\ row.under \in Policies
    /\ \/ row.under.auto /\ row.amount <= row.under.threshold
       \/ HasApprovals(t, row.under.required)

(* Every posted expense satisfies the very policy that its post has read,   *)
(* although the policy may be replaced, and approvals requested, decided    *)
(* and cancelled, before that post commits and ever after.                  *)
PostedExpensesWereApproved ==
  \A t \in Txns : txns[t].status = "POSTED" => PassesItsPolicy(txns[t], t)

(* A posted transaction never changes, and the ledger only grows: one row   *)
(* per step, on an account that is usable at that moment.                   *)
AppendOnly ==
  [][/\ ledger \subseteq ledger'
     /\ \A t \in Txns : txns[t].status = "POSTED" => txns'[t] = txns[t]
     /\ \A e, f \in ledger' \ ledger : e = f
     /\ \A e \in ledger' \ ledger : accounts'[e.account].status = "active"]_vars

(* A request answered with success leaves its transaction, or the one its   *)
(* collection is the source of, POSTED under the key the request carries.   *)
SuccessMeansPosted ==
  [][\A r \in Requests :
       req'[r].answer \in {"posted", "replayed"} /\ req[r].pc # "idle" =>
         \E t \in Txns :
           /\ txns'[t].status = "POSTED"
           /\ IF req[r].coll = None THEN t = req[r].txn
                                    ELSE txns'[t].source = req[r].coll
           /\ req[r].key \in {None, txns'[t].key}]_vars

-----------------------------------------------------------------------------
(* Why the ledger is right: the inductive invariant of the proofs.          *)

(* Every row of transactions names a cash account and a positive amount.    *)
RowsAreBookable ==
  \A t \in Txns : txns[t].status # "NONE" =>
    txns[t].account \in Accounts /\ txns[t].amount > 0

(* A snapshot is as good as the committed state for the rows that did not   *)
(* change since: the newest ledger row and the transaction are still those. *)
SnapshotsAreCurrent ==
  \A r \in Requests : LET q == req[r] IN
    /\ q.pc # "idle" => q.txn \in Txns
    /\ q.pc = "appending" =>
         /\ q.row.account \in Accounts
         /\ q.row.amount > 0
         /\ q.row.status = "POSTED"
         /\ q.row.account \notin q.stale =>
              /\ q.seq = accounts[q.row.account].version - 1
              /\ q.balance = accounts[q.row.account].balance
         /\ q.coll = None /\ q.txn \notin q.stale =>
              txns[q.txn].status = "VALIDATED"

(* Nobody else uses the id that a collection's insert will draw.            *)
IdsAreReserved ==
  \A r \in Requests : req[r].pc # "idle" /\ req[r].coll # None =>
    /\ txns[req[r].txn].status = "NONE"
    /\ \A s \in Requests \ {r} : req[s].txn # req[r].txn

(* The parts of this invariant support each other: the books are right       *)
(* because a post commits only on a current snapshot, and a snapshot is      *)
(* current because the books it was read from are right.                     *)
FinanceInv ==
  /\ TypeOK
  /\ SequenceContinuity
  /\ BalanceChain
  /\ MirroredBalance
  /\ RejectionIsFinal
  /\ RowsAreBookable
  /\ SnapshotsAreCurrent
  /\ IdsAreReserved

(* A row has the amount its collection was validated with. *)
AsValidated(row) ==
  row.source # None =>
    LET c == collections[row.source] IN
    /\ c.status = "VALIDATED"
    /\ row.amount > 0
    /\ row.amount = IF c.mode = "PER_HOUSE" THEN c.paid ELSE c.total

(* What a request in flight knows beyond its snapshot: that what it is going *)
(* to commit was approved or validated, and that its account can be used.   *)
Ready(q) ==
  /\ q.pc # "idle" => q.answer = "none"
  /\ q.pc = "appending" =>
       /\ q.key \in {None, q.row.key}
       /\ q.coll # None => q.row.source = q.coll
       /\ AsValidated(q.row)
       /\ PassesItsPolicy(q.row, q.txn)
       /\ q.row.account \notin q.stale /\ ~q.create =>
            accounts[q.row.account].status = "active"

(* The rows of an account are as many as its version says. *)
RowsAreCounted ==
  \A a \in Accounts :
    /\ IsFiniteSet(EntriesOf(a))
    /\ Cardinality(EntriesOf(a)) = accounts[a].version - 1

(* The inductive invariant of postings, beside FinanceInv. *)
PostingInv ==
  /\ PostedIffBooked
  /\ NoSharedKeyOrSource
  /\ CollectionBookedAsValidated
  /\ PostedExpensesWereApproved
  /\ RowsAreCounted
  /\ \A r \in Requests : Ready(req[r])

-----------------------------------------------------------------------------
(* The ledger implements the cash book: an account's rows, by sequence. *)

RowAt(a, n) == CHOOSE e \in EntriesOf(a) : e.seq = n

LineOf(e) == [txn |-> e.txn, type |-> e.type, amount |-> e.amount, balance |-> e.after]

Book ==
  [a \in Accounts |-> [n \in 1 .. Cardinality(EntriesOf(a)) |-> LineOf(RowAt(a, n))]]

Promise == INSTANCE CashBook WITH book <- Book

(* Every step of finance and approvals is one line in one book, or none.   *)
LedgerIsACashBook == Promise!Spec
=============================================================================
