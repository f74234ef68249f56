--------------------------- MODULE FinanceProofs ---------------------------
(***************************************************************************)
(* Proofs about finance and approvals for every number of accounts,        *)
(* transactions, requests and approvers, every policy and retry budget.    *)
(* FinanceInv is inductive, and beside it PostingInv: each action is shown *)
(* to preserve them, and the properties that are their conjuncts follow;   *)
(* so do the action properties of Finance and the refinement of CashBook.  *)
(***************************************************************************)
EXTENDS Approvals, Sequences, FiniteSetTheorems, TLAPS

-----------------------------------------------------------------------------
(* What an update by others does to a request, and what it leaves alone.    *)
LEMMA StaleShape ==
  ASSUME NEW q \in RequestStates, NEW rows \in SUBSET (Accounts \cup Txns)
  PROVE  /\ Stale(q, rows) \in RequestStates
         /\ Stale(q, rows).pc = q.pc
         /\ Stale(q, rows).txn = q.txn
         /\ Stale(q, rows).coll = q.coll
         /\ Stale(q, rows).row = q.row
         /\ Stale(q, rows).seq = q.seq
         /\ Stale(q, rows).balance = q.balance
         /\ q.stale \subseteq Stale(q, rows).stale
         /\ q.pc = "appending" =>
              rows \cap {q.txn, q.row.account} \subseteq Stale(q, rows).stale
  BY DEF Stale, Writes, RequestStates

(* A request nobody works on is well typed. *)
LEMMA IdleShape ==
  ASSUME NEW answer \in {"none", "posted", "replayed", "refused", "conflict", "lost"}
  PROVE  /\ Idle(answer) \in RequestStates
         /\ Idle(answer).pc = "idle"
         /\ Idle(answer).txn = None
         /\ Idle(answer).coll = None
  BY RetryBudget DEF Idle, RequestStates, NoTxn, TxnRows, Types

(* The newest row of an account whose rows are numbered without gaps.       *)
LEMMA LatestIsLast ==
  ASSUME TypeOK, SequenceContinuity, NEW a \in Accounts
  PROVE  /\ LatestSeq(a) = accounts[a].version - 1
         /\ EntriesOf(a) = {} <=> accounts[a].version = 1
         /\ EntriesOf(a) # {} =>
              /\ LatestEntry(a) \in EntriesOf(a)
              /\ LatestEntry(a).seq = accounts[a].version - 1
<1> DEFINE n == accounts[a].version - 1
<1>1. n \in Nat
  BY DEF TypeOK
<1>2. {e.seq : e \in EntriesOf(a)} = 1 .. n
  BY DEF SequenceContinuity
<1>3. \A e \in EntriesOf(a) : e.seq \in 1 .. n
  BY <1>2
<1>4. CASE EntriesOf(a) = {}
  <2>1. {e.seq : e \in EntriesOf(a)} = {}
    BY <1>4
  <2>2. n = 0
    <3> HIDE DEF n
    <3>1. n > 0 => 1 \in 1 .. n
      BY <1>1
    <3> QED BY <3>1, <2>1, <1>1, <1>2
  <2> QED BY <2>2, <1>4, <1>1 DEF LatestSeq, TypeOK
<1>5. CASE EntriesOf(a) # {}
  <2>1. PICK f \in EntriesOf(a) : TRUE
    BY <1>5
  <2>2. n \in 1 .. n
    BY <2>1, <1>3, <1>1
  <2>3. PICK e \in EntriesOf(a) : e.seq = n
    BY <2>2, <1>2
  <2>4. \A g \in EntriesOf(a) : g.seq <= e.seq
    BY <2>3, <1>3
  <2>5. /\ LatestEntry(a) \in EntriesOf(a)
        /\ \A g \in EntriesOf(a) : g.seq <= LatestEntry(a).seq
    BY <2>4 DEF LatestEntry
  <2>6. LatestEntry(a).seq = n
    BY <2>5, <2>3, <1>3, <1>1
  <2> QED BY <2>5, <2>6, <2>2, <1>5, <1>1 DEF LatestSeq, TypeOK
<1> QED BY <1>4, <1>5

-----------------------------------------------------------------------------
(* Steps that book nothing keep the books as they are.                      *)
LEMMA BooksUntouched ==
  ASSUME SequenceContinuity, BalanceChain, MirroredBalance,
         ledger' = ledger,
         \A a \in Accounts : /\ accounts'[a].version = accounts[a].version
                             /\ accounts'[a].balance = accounts[a].balance
  PROVE  SequenceContinuity' /\ BalanceChain' /\ MirroredBalance'
<1>1. \A a : EntriesOf(a)' = EntriesOf(a)
  BY DEF EntriesOf
<1>2. \A a : LatestBalance(a)' = LatestBalance(a)
  BY DEF LatestBalance, LatestEntry, EntriesOf
<1>3. SequenceContinuity'
  BY <1>1 DEF SequenceContinuity
<1>4. BalanceChain'
  BY DEF BalanceChain
<1>5. MirroredBalance'
  BY <1>2 DEF MirroredBalance
<1> QED BY <1>3, <1>4, <1>5

(* Requests whose written rows were updated are stale or ended: what the    *)
(* others know of their rows is still so.                                   *)
LEMMA RequestsUpdated ==
  ASSUME TypeOK, SnapshotsAreCurrent, IdsAreReserved,
         NEW rows \in SUBSET (Accounts \cup Txns),
         \A r \in Requests : \/ req'[r] = Stale(req[r], rows)
                             \/ req'[r].pc = "idle" /\ req'[r].txn = None,
         \A a \in Accounts \ rows : /\ accounts'[a].version = accounts[a].version
                                    /\ accounts'[a].balance = accounts[a].balance,
         \A t \in Txns \ (rows \cup UnusedIds) : txns'[t].status = txns[t].status,
         \A r \in Requests :
           req[r].pc # "idle" /\ req[r].coll # None /\ req'[r].pc # "idle" =>
             txns'[req[r].txn].status = "NONE"
  PROVE  SnapshotsAreCurrent' /\ IdsAreReserved'
<1>1. \A r \in Requests : req[r] \in RequestStates
  BY DEF TypeOK
<1>2. ASSUME NEW r \in Requests, req'[r].pc # "idle"
      PROVE  /\ req'[r] = Stale(req[r], rows)
             /\ req'[r].pc = req[r].pc
             /\ req'[r].txn = req[r].txn
             /\ req'[r].coll = req[r].coll
             /\ req'[r].row = req[r].row
             /\ req'[r].seq = req[r].seq
             /\ req'[r].balance = req[r].balance
             /\ req[r].stale \subseteq req'[r].stale
             /\ req[r].pc = "appending" =>
                  rows \cap {req[r].txn, req[r].row.account} \subseteq req'[r].stale
  BY <1>1, <1>2, StaleShape
<1>3. SnapshotsAreCurrent'
  <2> SUFFICES ASSUME NEW r \in Requests, req'[r].pc # "idle"
               PROVE  /\ req'[r].txn \in Txns
                      /\ req'[r].pc = "appending" =>
                           /\ req'[r].row.account \in Accounts
                           /\ req'[r].row.amount > 0
                           /\ req'[r].row.status = "POSTED"
                           /\ req'[r].row.account \notin req'[r].stale =>
                                /\ req'[r].seq = accounts'[req'[r].row.account].version - 1
                                /\ req'[r].balance = accounts'[req'[r].row.account].balance
                           /\ req'[r].coll = None /\ req'[r].txn \notin req'[r].stale =>
                                txns'[req'[r].txn].status = "VALIDATED"
    BY Zenon DEF SnapshotsAreCurrent
  <2> DEFINE q == req[r]
  <2>1. /\ q.txn \in Txns
        /\ q.pc = "appending" =>
             /\ q.row.account \in Accounts
             /\ q.row.amount > 0
             /\ q.row.status = "POSTED"
             /\ q.row.account \notin q.stale =>
                  /\ q.seq = accounts[q.row.account].version - 1
                  /\ q.balance = accounts[q.row.account].balance
             /\ q.coll = None /\ q.txn \notin q.stale =>
                  txns[q.txn].status = "VALIDATED"
    BY <1>2 DEF SnapshotsAreCurrent
  <2>2. q.txn \notin UnusedIds
    BY DEF UnusedIds
  <2> QED BY <1>2, <2>1, <2>2
<1>4. IdsAreReserved'
  <2> SUFFICES ASSUME NEW r \in Requests, req'[r].pc # "idle", req'[r].coll # None
               PROVE  /\ txns'[req'[r].txn].status = "NONE"
                      /\ \A s \in Requests \ {r} : req'[s].txn # req'[r].txn
    BY DEF IdsAreReserved
  <2>1. /\ req[r].pc # "idle" /\ req[r].coll # None
        /\ req'[r].txn = req[r].txn
    BY <1>2
  <2>2. req[r].txn \in Txns
    BY <2>1 DEF SnapshotsAreCurrent
  <2>3. ASSUME NEW s \in Requests \ {r} PROVE req'[s].txn # req'[r].txn
    <3>1. req[s].txn # req[r].txn
      BY <2>1 DEF IdsAreReserved
    <3>2. req'[s].txn \in {req[s].txn, None}
      BY <1>1, StaleShape
    <3> QED BY <3>1, <3>2, <2>1, <2>2, NothingIsNoRow
  <2> QED BY <2>1, <2>3
<1> QED BY <1>3, <1>4

(* Rejected expenses stay rejected as long as approvals and rejected rows   *)
(* are left alone.                                                          *)
LEMMA RejectionsUntouched ==
  ASSUME RejectionIsFinal, approvals' = approvals,
         \A t \in Txns : txns[t].status = "REJECTED" => txns'[t].status = "REJECTED"
  PROVE  RejectionIsFinal'
  BY DEF RejectionIsFinal, Decided

(* An update of no row leaves a request as it is. *)
LEMMA NothingStale ==
  ASSUME NEW q \in RequestStates
  PROVE  Stale(q, {}) = q
  BY DEF Stale, RequestStates

(* What a step that books nothing still has to show.                        *)
LEMMA NothingBooked ==
  ASSUME FinanceInv, TypeOK', RowsAreBookable', RejectionIsFinal',
         NEW rows \in SUBSET (Accounts \cup Txns),
         ledger' = ledger,
         \A r \in Requests : \/ req'[r] = Stale(req[r], rows)
                             \/ req'[r].pc = "idle" /\ req'[r].txn = None,
         \A a \in Accounts : /\ accounts'[a].version = accounts[a].version
                             /\ accounts'[a].balance = accounts[a].balance,
         \A t \in Txns \ (rows \cup UnusedIds) : txns'[t].status = txns[t].status,
         \A t \in Txns : \/ txns'[t].status = txns[t].status
                         \/ txns[t].status # "NONE"
                         \/ t \in UnusedIds
  PROVE  FinanceInv'
<1> USE DEF FinanceInv
<1>1. SequenceContinuity' /\ BalanceChain' /\ MirroredBalance'
  BY BooksUntouched
<1>2. ASSUME NEW r \in Requests, req[r].pc # "idle", req[r].coll # None
      PROVE  txns'[req[r].txn].status = "NONE"
  <2>1. req[r].txn \in Txns /\ txns[req[r].txn].status = "NONE"
    BY <1>2 DEF SnapshotsAreCurrent, IdsAreReserved
  <2>2. req[r].txn \notin UnusedIds
    BY DEF UnusedIds
  <2> QED BY <2>1, <2>2
<1>3. SnapshotsAreCurrent' /\ IdsAreReserved'
  BY <1>2, RequestsUpdated
<1> QED BY <1>1, <1>3

-----------------------------------------------------------------------------
(* Cash accounts and categories. *)

(* A change of an account's status, with every snapshot of it made stale.   *)
LEMMA AccountStatusChanges ==
  ASSUME FinanceInv, NEW a \in Accounts,
         NEW s \in {"absent", "active", "inactive", "deleted"},
         accounts' = [accounts EXCEPT ![a].status = s],
         req' = Updated({a}),
         archiving' \in [Accounts -> {"none", "unused", "used"}],
         UNCHANGED <<categories, txns, ledger, collections, policy, approvals>>
  PROVE  FinanceInv'
<1>1. \A r \in Requests : req'[r] = Stale(req[r], {a})
  BY DEF Updated
<1>2. \A r \in Requests : req'[r] \in RequestStates
  <2>1. \A r \in Requests : req[r] \in RequestStates
    BY DEF FinanceInv, TypeOK
  <2> QED BY <1>1, <2>1, StaleShape
<1>3. req' \in [Requests -> RequestStates]
  BY <1>2 DEF Updated
<1>4. accounts' \in [Accounts -> [status: {"absent", "active", "inactive", "deleted"},
                                  version: Nat \ {0}, balance: Nat]]
  BY DEF FinanceInv, TypeOK
<1>5. TypeOK'
  BY <1>3, <1>4 DEF FinanceInv, TypeOK
<1>6. RowsAreBookable'
  BY DEF FinanceInv, RowsAreBookable
<1>7. \A b \in Accounts : /\ accounts'[b].version = accounts[b].version
                          /\ accounts'[b].balance = accounts[b].balance
  BY DEF FinanceInv, TypeOK
<1>8. RejectionIsFinal'
  BY RejectionsUntouched DEF FinanceInv
<1> QED BY <1>1, <1>5, <1>6, <1>7, <1>8, NothingBooked

(* Steps that touch neither books, transactions nor requests.               *)
LEMMA OtherRowsChange ==
  ASSUME FinanceInv, TypeOK', RejectionIsFinal',
         UNCHANGED <<accounts, txns, ledger, req>>
  PROVE  FinanceInv'
<1>1. RowsAreBookable'
  BY DEF FinanceInv, RowsAreBookable
<1>2. \A r \in Requests : req'[r] = Stale(req[r], {})
  BY NothingStale DEF FinanceInv, TypeOK
<1> QED BY <1>1, <1>2, NothingBooked

(* The handlers of cash accounts and categories. *)
LEMMA AccountsAndCategories ==
  ASSUME FinanceInv,
         \/ \E a \in Accounts :
              \/ CreateCashAccount(a)
              \/ \E s \in {"active", "inactive"} : UpdateCashAccount(a, s)
              \/ CountLedgerToArchive(a)
              \/ ArchiveCashAccount(a)
         \/ \E type \in Types, s \in {"active", "inactive", "deleted"} :
              SetCategory(type, s)
  PROVE  FinanceInv'
<1>1. ASSUME NEW a \in Accounts, CreateCashAccount(a) PROVE FinanceInv'
  BY <1>1, AccountStatusChanges DEF CreateCashAccount, FinanceInv, TypeOK
<1>2. ASSUME NEW a \in Accounts, NEW s \in {"active", "inactive"},
             UpdateCashAccount(a, s)
      PROVE  FinanceInv'
  BY <1>2, AccountStatusChanges DEF UpdateCashAccount, FinanceInv, TypeOK
<1>3. ASSUME NEW a \in Accounts, CountLedgerToArchive(a) PROVE FinanceInv'
  <2>1. TypeOK'
    BY <1>3 DEF CountLedgerToArchive, FinanceInv, TypeOK
  <2>2. RejectionIsFinal'
    BY <1>3, RejectionsUntouched DEF CountLedgerToArchive, FinanceInv
  <2> QED BY <1>3, <2>1, <2>2, OtherRowsChange DEF CountLedgerToArchive
<1>4. ASSUME NEW a \in Accounts, ArchiveCashAccount(a) PROVE FinanceInv'
  <2>1. archiving' \in [Accounts -> {"none", "unused", "used"}]
    BY <1>4 DEF ArchiveCashAccount, FinanceInv, TypeOK
  <2>2. PICK s \in {"inactive", "deleted"} :
          accounts' = [accounts EXCEPT ![a].status = s]
    BY <1>4 DEF ArchiveCashAccount
  <2> QED BY <1>4, <2>1, <2>2, AccountStatusChanges DEF ArchiveCashAccount
<1>5. ASSUME NEW type \in Types, NEW s \in {"active", "inactive", "deleted"},
             SetCategory(type, s)
      PROVE  FinanceInv'
  <2>1. TypeOK'
    BY <1>5 DEF SetCategory, FinanceInv, TypeOK
  <2>2. RejectionIsFinal'
    BY <1>5, RejectionsUntouched DEF SetCategory, FinanceInv
  <2> QED BY <1>5, <2>1, <2>2, OtherRowsChange DEF SetCategory
<1> QED BY <1>1, <1>2, <1>3, <1>4, <1>5

-----------------------------------------------------------------------------
(* Drafts and their transitions. *)

(* A new draft uses an id that nobody has, and touches no snapshot.         *)
LEMMA DraftCreated ==
  ASSUME FinanceInv, NEW t \in Txns, NEW c \in Commands, CreateDraft(t, c)
  PROVE  FinanceInv'
<1> DEFINE draft == [status |-> "DRAFT", type |-> c.type, account |-> c.account,
                     amount |-> c.amount, key |-> c.key, source |-> None,
                     under |-> None]
<1>1. /\ draft \in TxnRows
      /\ draft.account \in Accounts
      /\ draft.amount > 0
  BY CommandsAreDrafts DEF TxnRows, TxnStatuses, Types
<1>2. txns' = [txns EXCEPT ![t] = draft]
  BY DEF CreateDraft
<1> HIDE DEF draft
<1>3. TypeOK'
  BY <1>1, <1>2 DEF CreateDraft, FinanceInv, TypeOK
<1>4. RowsAreBookable'
  BY <1>1, <1>2 DEF FinanceInv, TypeOK, RowsAreBookable
<1>5. \A r \in Requests : req'[r] = Stale(req[r], {})
  BY NothingStale DEF CreateDraft, FinanceInv, TypeOK
<1>6. t \in UnusedIds /\ txns[t].status = "NONE"
  BY DEF CreateDraft, UnusedIds
<1>7. \A u \in Txns \ {t} : txns'[u].status = txns[u].status
  BY <1>2 DEF FinanceInv, TypeOK
<1>8. RejectionIsFinal'
  BY <1>6, <1>7, RejectionsUntouched DEF CreateDraft, FinanceInv
<1> QED BY <1>3, <1>4, <1>5, <1>6, <1>7, <1>8, NothingBooked DEF CreateDraft

(* A transition with a status guard makes the snapshots of its row stale.   *)
LEMMA TransactionMoves ==
  ASSUME FinanceInv, RejectionIsFinal', NEW t \in Txns,
         NEW to \in TxnStatuses,
         txns[t].status \in {"DRAFT", "VALIDATED"},
         txns' = [txns EXCEPT ![t].status = to],
         req' = Updated({t}),
         approvals' \in [Txns -> [Approvers ->
           {"none", "PENDING", "APPROVED", "REJECTED", "CANCELLED"}]],
         UNCHANGED <<accounts, categories, ledger, collections, policy, archiving>>
  PROVE  FinanceInv'
<1>1. \A r \in Requests : req'[r] = Stale(req[r], {t})
  BY DEF Updated
<1>2. \A r \in Requests : req'[r] \in RequestStates
  <2>1. \A r \in Requests : req[r] \in RequestStates
    BY DEF FinanceInv, TypeOK
  <2>2. {t} \in SUBSET (Accounts \cup Txns)
    OBVIOUS
  <2>3. \A r \in Requests : Stale(req[r], {t}) \in RequestStates
    BY ONLY <2>1, <2>2, StaleShape
  <2> QED BY <1>1, <2>3
<1>3. req' \in [Requests -> RequestStates]
  BY <1>2 DEF Updated
<1>4. txns' \in [Txns -> TxnRows]
  <2>1. txns \in [Txns -> TxnRows]
    BY DEF FinanceInv, TypeOK
  <2>2. [txns[t] EXCEPT !.status = to] \in TxnRows
    BY <2>1 DEF TxnRows
  <2> QED BY <2>1, <2>2
<1>5. TypeOK'
  BY <1>3, <1>4 DEF FinanceInv, TypeOK
<1>6. RowsAreBookable'
  BY DEF FinanceInv, TypeOK, RowsAreBookable, TxnRows
<1>7. \A u \in Txns \ {t} : txns'[u].status = txns[u].status
  BY DEF FinanceInv, TypeOK
<1> QED BY <1>1, <1>5, <1>6, <1>7, NothingBooked

(* The handlers that validate, reject and void transactions. *)
LEMMA Transactions ==
  ASSUME FinanceInv, NEW t \in Txns,
         \/ \E c \in Commands : CreateDraft(t, c)
         \/ ValidateTransaction(t)
         \/ RejectTransaction(t)
         \/ VoidDraftTransaction(t)
  PROVE  FinanceInv'
<1>1. ASSUME NEW from \in SUBSET {"DRAFT", "VALIDATED"}, NEW to \in TxnStatuses,
             Transition(t, from, to)
      PROVE  FinanceInv'
  <2>1. RejectionIsFinal'
    BY <1>1, RejectionsUntouched DEF Transition, FinanceInv, TypeOK
  <2> QED BY <1>1, <2>1, TransactionMoves DEF Transition, FinanceInv, TypeOK
<1> QED BY <1>1, DraftCreated DEF ValidateTransaction, RejectTransaction,
              VoidDraftTransaction, TxnStatuses

-----------------------------------------------------------------------------
(* Posting requests. *)

(* One request moves on and nothing else changes. *)
LEMMA RequestMoves ==
  ASSUME FinanceInv, NEW r \in Requests, NEW q \in RequestStates,
         req' = [req EXCEPT ![r] = q],
         UNCHANGED <<accounts, categories, txns, ledger, collections, policy,
                     approvals, archiving>>,
         q.pc # "idle",
         q.txn \in Txns,
         \/ q.txn = req[r].txn /\ q.coll = req[r].coll /\ req[r].pc # "idle"
         \/ q.coll = None /\ txns[q.txn].status # "NONE"
         \/ q.txn \in UnusedIds,
         q.pc = "appending" =>
           /\ q.row.account \in Accounts
           /\ q.row.amount > 0
           /\ q.row.status = "POSTED"
           /\ q.seq = accounts[q.row.account].version - 1
           /\ q.balance = accounts[q.row.account].balance
           /\ q.coll = None => txns[q.txn].status = "VALIDATED"
  PROVE  FinanceInv'
<1>1. TypeOK'
  BY DEF FinanceInv, TypeOK
<1>2. SequenceContinuity' /\ BalanceChain' /\ MirroredBalance'
  BY BooksUntouched DEF FinanceInv
<1>3. RejectionIsFinal' /\ RowsAreBookable'
  BY RejectionsUntouched DEF FinanceInv, RowsAreBookable
<1>4. /\ req'[r] = q
      /\ \A s \in Requests \ {r} : req'[s] = req[s]
  BY DEF FinanceInv, TypeOK
<1>5. SnapshotsAreCurrent'
  <2>1. ASSUME NEW u \in Requests \ {r}
        PROVE  /\ req[u].pc # "idle" => req[u].txn \in Txns
               /\ req[u].pc = "appending" =>
                    /\ req[u].row.account \in Accounts
                    /\ req[u].row.amount > 0
                    /\ req[u].row.status = "POSTED"
                    /\ req[u].row.account \notin req[u].stale =>
                         /\ req[u].seq = accounts[req[u].row.account].version - 1
                         /\ req[u].balance = accounts[req[u].row.account].balance
                    /\ req[u].coll = None /\ req[u].txn \notin req[u].stale =>
                         txns[req[u].txn].status = "VALIDATED"
    BY DEF FinanceInv, SnapshotsAreCurrent
  <2> QED BY <1>4, <2>1 DEF SnapshotsAreCurrent
<1>6. IdsAreReserved'
  <2> SUFFICES ASSUME NEW u \in Requests, req'[u].pc # "idle", req'[u].coll # None
               PROVE  /\ txns[req'[u].txn].status = "NONE"
                      /\ \A s \in Requests \ {u} : req'[s].txn # req'[u].txn
    BY DEF IdsAreReserved
  <2>1. CASE u = r
    BY <1>4, <2>1 DEF FinanceInv, IdsAreReserved, UnusedIds
  <2>2. CASE u # r
    <3>1. /\ txns[req[u].txn].status = "NONE"
          /\ \A s \in Requests \ {u} : req[s].txn # req[u].txn
      BY <1>4, <2>2 DEF FinanceInv, IdsAreReserved
    <3>2. q.txn # req[u].txn
      BY <3>1, <2>2 DEF UnusedIds
    <3> QED BY <1>4, <2>2, <3>1, <3>2
  <2> QED BY <2>1, <2>2
<1> QED BY <1>1, <1>2, <1>3, <1>5, <1>6 DEF FinanceInv

(* Requests that end without a commit leave everything to the others.       *)
LEMMA RequestsEnd ==
  ASSUME FinanceInv,
         \A r \in Requests : \/ req'[r] = req[r]
                             \/ req'[r] \in {Idle(x) : x \in
                                  {"replayed", "refused", "conflict", "lost"}},
         req' = [r \in Requests |-> req'[r]],
         archiving' \in [Accounts -> {"none", "unused", "used"}],
         UNCHANGED <<accounts, categories, txns, ledger, collections, policy,
                     approvals>>
  PROVE  FinanceInv'
<1>1. \A r \in Requests : req[r] \in RequestStates
  BY DEF FinanceInv, TypeOK
<1>2. \A r \in Requests : \/ req'[r] = Stale(req[r], {})
                          \/ req'[r].pc = "idle" /\ req'[r].txn = None
  BY <1>1, NothingStale, IdleShape
<1>3. \A r \in Requests : req'[r] \in RequestStates
  BY <1>1, IdleShape
<1>4. req' \in [Requests -> RequestStates]
  BY <1>3
<1>5. TypeOK'
  BY <1>4 DEF FinanceInv, TypeOK
<1>6. RejectionIsFinal' /\ RowsAreBookable'
  BY RejectionsUntouched DEF FinanceInv, RowsAreBookable
<1> QED BY <1>2, <1>5, <1>6, NothingBooked

(* An answer that commits nothing. *)
LEMMA RequestAnswered ==
  ASSUME FinanceInv, NEW r \in Requests,
         NEW x \in {"replayed", "refused", "conflict", "lost"},
         req' = Answer(r, x, {}),
         UNCHANGED <<accounts, categories, txns, ledger, collections, policy,
                     approvals, archiving>>
  PROVE  FinanceInv'
<1>1. \A s \in Requests : Stale(req[s], {}) = req[s]
  BY NothingStale DEF FinanceInv, TypeOK
<1>2. /\ req' = [s \in Requests |-> req'[s]]
      /\ req'[r] = Idle(x)
      /\ \A s \in Requests \ {r} : req'[s] = req[s]
  BY <1>1 DEF Answer, Updated
<1>3. archiving' \in [Accounts -> {"none", "unused", "used"}]
  BY DEF FinanceInv, TypeOK
<1> QED BY <1>2, <1>3, RequestsEnd

(* There is always a first attempt. *)
LEMMA FirstAttempt == 1 \in 0 .. MaxAttempts
  BY RetryBudget

(* The client sends a request. *)
LEMMA Sent ==
  ASSUME FinanceInv, NEW r \in Requests, NEW t \in Txns,
         NEW k \in Keys \cup {None},
         \/ SendPost(r, t, k)
         \/ \E c \in Collections, a \in Accounts \cup {None} :
              SendCollection(r, t, c, a, k)
  PROVE  FinanceInv'
<1>1. CASE SendPost(r, t, k)
  <2> DEFINE q == [Idle("none") EXCEPT
               !.pc = "begin", !.txn = t, !.key = k, !.attempt = 1]
  <2>1. /\ q \in RequestStates
        /\ q.pc = "begin" /\ q.txn = t /\ q.coll = None
    <3>1. Idle("none") \in RequestStates /\ Idle("none").coll = None
      BY IdleShape DEF Idle
    <3>2. t \in Txns /\ k \in Keys \cup {None}
      OBVIOUS
    <3> QED BY ONLY <3>1, <3>2, FirstAttempt DEF RequestStates
  <2>2. req' = [req EXCEPT ![r] = q] /\ txns[t].status # "NONE"
    BY <1>1 DEF SendPost
  <2> HIDE DEF q
  <2> QED BY <1>1, <2>1, <2>2, RequestMoves DEF SendPost
<1>2. ASSUME NEW c \in Collections, NEW a \in Accounts \cup {None},
             SendCollection(r, t, c, a, k)
      PROVE  FinanceInv'
  <2> DEFINE q == [Idle("none") EXCEPT !.pc = "begin", !.txn = t, !.coll = c,
                                       !.want = a, !.key = k, !.attempt = 1]
  <2>1. /\ q \in RequestStates
        /\ q.pc = "begin" /\ q.txn = t
    <3>1. Idle("none") \in RequestStates
      BY IdleShape
    <3>2. t \in Txns /\ c \in Collections /\ a \in Accounts \cup {None} /\ k \in Keys \cup {None}
      OBVIOUS
    <3> QED BY ONLY <3>1, <3>2, FirstAttempt DEF RequestStates
  <2>2. req' = [req EXCEPT ![r] = q] /\ t \in UnusedIds
    BY <1>2 DEF SendCollection
  <2> HIDE DEF q
  <2> QED BY <1>2, <2>1, <2>2, RequestMoves DEF SendCollection
<1> QED BY <1>1, <1>2

(* The snapshot's newest ledger row is the one the account's row speaks of. *)
LEMMA SnapshotTaken ==
  ASSUME FinanceInv, NEW r \in Requests, NEW row \in TxnRows,
         req[r].pc = "begin",
         row.account \in Accounts, row.amount > 0, row.status = "POSTED",
         req[r].coll = None => txns[req[r].txn].status = "VALIDATED",
         Snapshot(r, row)
  PROVE  FinanceInv'
<1> DEFINE q == [req[r] EXCEPT
               !.pc = "appending", !.row = row,
               !.seq = LatestSeq(row.account),
               !.balance = LatestBalance(row.account),
               !.create = (accounts[row.account].status = "absent")]
<1>1. req[r] \in RequestStates
  BY DEF FinanceInv, TypeOK
<1>2. /\ LatestSeq(row.account) = accounts[row.account].version - 1
      /\ LatestBalance(row.account) = accounts[row.account].balance
  BY LatestIsLast DEF FinanceInv, MirroredBalance
<1>3. LatestSeq(row.account) \in Nat /\ LatestBalance(row.account) \in Nat
  <2>1. accounts[row.account] \in
          [status: {"absent", "active", "inactive", "deleted"},
           version: Nat \ {0}, balance: Nat]
    BY DEF FinanceInv, TypeOK
  <2> QED BY <1>2, <2>1
<1>4. (accounts[row.account].status = "absent") \in BOOLEAN
  OBVIOUS
<1>5. /\ q \in RequestStates
      /\ q.pc = "appending" /\ q.txn = req[r].txn /\ q.coll = req[r].coll
      /\ q.row = row /\ q.seq = LatestSeq(row.account)
      /\ q.balance = LatestBalance(row.account)
  BY <1>1, <1>3, <1>4 DEF RequestStates
<1>6. req' = [req EXCEPT ![r] = q]
  BY DEF Snapshot
<1>7. req[r].txn \in Txns
  BY DEF FinanceInv, SnapshotsAreCurrent
<1>8. UNCHANGED <<accounts, categories, txns, ledger, collections, policy,
                  approvals, archiving>>
  BY DEF Snapshot
<1> HIDE DEF q
<1> QED BY <1>2, <1>5, <1>6, <1>7, <1>8, RequestMoves

(* The reads of a post. *)
LEMMA Reads ==
  ASSUME FinanceInv, NEW r \in Requests, ReadTransaction(r) \/ ReadCollection(r)
  PROVE  FinanceInv'
<1> DEFINE q == req[r]
<1>1. q \in RequestStates
  BY DEF FinanceInv, TypeOK
<1>2. CASE ReadTransaction(r)
  <2> DEFINE row == [txns[q.txn] EXCEPT
               !.status = "POSTED", !.key = IF q.key = None THEN @ ELSE q.key,
               !.under = policy]
  <2>1. /\ q.pc = "begin"
        /\ q.txn \in Txns
        /\ txns[q.txn].status = "VALIDATED"
        /\ Snapshot(r, row)
    BY <1>2 DEF ReadTransaction, PostingInputs, FinanceInv, SnapshotsAreCurrent
  <2>2. txns[q.txn] \in TxnRows
    BY <2>1 DEF FinanceInv, TypeOK
  <2>3. txns[q.txn].account \in Accounts /\ txns[q.txn].amount > 0
    BY <2>1 DEF FinanceInv, RowsAreBookable
  <2>4. /\ row \in TxnRows
        /\ row.account = txns[q.txn].account
        /\ row.amount = txns[q.txn].amount
        /\ row.status = "POSTED"
    <3>1. PICK old, key :
            /\ old = txns[q.txn] /\ old \in TxnRows
            /\ key = IF q.key = None THEN old.key ELSE q.key
      BY <2>2
    <3>2. key \in Keys \cup {None}
      BY <1>1, <3>1 DEF TxnRows, RequestStates
    <3>3. row = [old EXCEPT !.status = "POSTED", !.key = key, !.under = policy]
      BY <3>1 DEF TxnRows
    <3>4. policy \in Policies
      BY DEF FinanceInv, TypeOK
    <3> HIDE DEF row
    <3> QED BY <3>1, <3>2, <3>3, <3>4 DEF TxnRows, TxnStatuses
  <2> HIDE DEF row
  <2> QED BY <2>1, <2>3, <2>4, SnapshotTaken
<1>3. CASE ReadCollection(r)
  <2> DEFINE row ==
       [status |-> "POSTED", type |-> "INCOME",
        account |-> CollectionAccount(q), amount |-> collections[q.coll].total,
        key |-> IF q.key = None THEN CollectionKey[q.coll] ELSE q.key,
        source |-> q.coll, under |-> None]
  <2>1. /\ q.pc = "begin" /\ q.coll # None
        /\ collections[q.coll].total > 0
        /\ Snapshot(r, row)
    BY <1>3 DEF ReadCollection, CollectionInputs, CollectionPostable
  <2>2. q.coll \in Collections
    BY <1>1, <2>1 DEF RequestStates
  <2>3. CollectionAccount(q) \in Accounts
    BY <1>1, MainAccountIsAnAccount DEF CollectionAccount, RequestStates
  <2>4. collections[q.coll].total \in Nat
    BY <2>2 DEF FinanceInv, TypeOK
  <2>5. /\ row \in TxnRows
        /\ row.account \in Accounts
        /\ row.amount > 0
        /\ row.status = "POSTED"
    BY <1>1, <2>1, <2>2, <2>3, <2>4, CollectionKeysAreKeys
    DEF TxnRows, TxnStatuses, Types, RequestStates
  <2> HIDE DEF row
  <2> QED BY <2>1, <2>5, SnapshotTaken
<1> QED BY <1>2, <1>3

(* Conflicts: the attempt is repeated, or the request fails.                *)
LEMMA Conflicts ==
  ASSUME FinanceInv, NEW r \in Requests, DuplicateKey(r) \/ SerializationFailure(r)
  PROVE  FinanceInv'
<1> DEFINE q == req[r]
           failed == [Idle("none") EXCEPT !.pc = "failing", !.txn = q.txn,
                                          !.coll = q.coll, !.key = q.key]
           again == [Idle("none") EXCEPT
                       !.pc = "begin", !.txn = q.txn, !.coll = q.coll,
                       !.key = q.key, !.want = q.want, !.attempt = q.attempt + 1]
<1>1. q \in RequestStates
  BY DEF FinanceInv, TypeOK
<1>2. q.pc # "idle"
  BY DEF DuplicateKey, SerializationFailure
<1>3. q.txn \in Txns
  BY <1>2 DEF FinanceInv, SnapshotsAreCurrent
<1>4. /\ failed \in RequestStates
      /\ failed.pc = "failing" /\ failed.txn = q.txn /\ failed.coll = q.coll
  <2>1. Idle("none") \in RequestStates
    BY IdleShape
  <2>2. /\ q.coll \in Collections \cup {None} /\ q.key \in Keys \cup {None}
        /\ q.want \in Accounts \cup {None}
    BY <1>1 DEF RequestStates
  <2> HIDE DEF q
  <2> QED BY ONLY <1>3, <2>1, <2>2 DEF RequestStates
<1>5. q.attempt # MaxAttempts => q.attempt + 1 \in 0 .. MaxAttempts
  BY <1>1, RetryBudget DEF RequestStates
<1>6. q.attempt # MaxAttempts =>
        /\ again \in RequestStates
        /\ again.pc = "begin" /\ again.txn = q.txn /\ again.coll = q.coll
  <2>1. Idle("none") \in RequestStates
    BY IdleShape
  <2>2. /\ q.coll \in Collections \cup {None} /\ q.key \in Keys \cup {None}
        /\ q.want \in Accounts \cup {None}
    BY <1>1 DEF RequestStates
  <2> HIDE DEF q
  <2> QED BY ONLY <1>3, <1>5, <2>1, <2>2 DEF RequestStates
<1>7. \/ req' = [req EXCEPT ![r] = failed]
      \/ q.attempt # MaxAttempts /\ req' = [req EXCEPT ![r] = again]
  BY DEF DuplicateKey, SerializationFailure, Failing
<1>8. UNCHANGED <<accounts, categories, txns, ledger, collections, policy,
                  approvals, archiving>>
  BY DEF DuplicateKey, SerializationFailure
<1> HIDE DEF q, failed, again
<1>9. q = req[r]
  BY DEF q
<1> QED BY <1>2, <1>3, <1>4, <1>6, <1>7, <1>8, <1>9, RequestMoves

(* Answers without a commit, and the crash that answers nobody.             *)
LEMMA Ends ==
  ASSUME FinanceInv,
         \/ \E r \in Requests :
              Replay(r) \/ Refuse(r) \/ InsufficientBalance(r) \/ GiveUp(r)
         \/ Crash
  PROVE  FinanceInv'
<1>1. ASSUME NEW r \in Requests,
             Replay(r) \/ Refuse(r) \/ InsufficientBalance(r) \/ GiveUp(r)
      PROVE  FinanceInv'
  <2>1. UNCHANGED <<accounts, categories, txns, ledger, collections, policy,
                    approvals, archiving>>
    BY <1>1 DEF Replay, Refuse, InsufficientBalance, GiveUp
  <2>2. \E x \in {"replayed", "refused", "conflict"} : req' = Answer(r, x, {})
    BY <1>1 DEF Replay, Refuse, InsufficientBalance, GiveUp
  <2> QED BY <2>1, <2>2, RequestAnswered
<1>2. CASE Crash
  <2>1. /\ req' = [r \in Requests |-> req'[r]]
        /\ \A r \in Requests : req'[r] = req[r] \/ req'[r] = Idle("lost")
        /\ archiving' \in [Accounts -> {"none", "unused", "used"}]
    BY <1>2 DEF Crash
  <2> QED BY <1>2, <2>1, RequestsEnd DEF Crash
<1> QED BY <1>1, <1>2

-----------------------------------------------------------------------------
(* Booking: the one step that changes the ledger. *)

(* What a committing post knows: its snapshot is the committed state.       *)
LEMMA Commits ==
  ASSUME FinanceInv, NEW r \in Requests, AppendLedger(r)
  PROVE  LET q == req[r]
             a == q.row.account
         IN  /\ q \in RequestStates
             /\ q.txn \in Txns
             /\ a \in Accounts
             /\ q.row.amount > 0
             /\ q.row.status = "POSTED"
             /\ q.row \in TxnRows
             /\ q.seq = accounts[a].version - 1
             /\ q.balance = accounts[a].balance
             /\ txns[q.txn].status \in {"VALIDATED", "NONE"}
             /\ BalanceAfter(q) \in Nat
             /\ accounts' = [accounts EXCEPT ![a] = BookedAccount(accounts[a], q)]
             /\ ledger' = ledger \cup {LedgerRow(q)}
             /\ txns' = [txns EXCEPT ![q.txn] = q.row]
             /\ req' = [Updated({a, q.txn}) EXCEPT ![r] = Idle("posted")]
             /\ UNCHANGED <<categories, collections, policy, approvals, archiving>>
<1> DEFINE q == req[r]
<1>1. q \in RequestStates
  BY DEF FinanceInv, TypeOK
<1>2. q.pc = "appending" /\ q.stale = {} /\ Affordable(q)
  BY DEF AppendLedger
<1>3. /\ q.txn \in Txns
      /\ q.row.account \in Accounts
      /\ q.row.amount > 0
      /\ q.row.status = "POSTED"
      /\ q.seq = accounts[q.row.account].version - 1
      /\ q.balance = accounts[q.row.account].balance
      /\ q.coll = None => txns[q.txn].status = "VALIDATED"
  BY <1>2 DEF FinanceInv, SnapshotsAreCurrent
<1>4. q.coll # None => txns[q.txn].status = "NONE"
  BY <1>2 DEF FinanceInv, IdsAreReserved
<1>5. q.row \in TxnRows /\ q.row.amount \in Nat /\ q.balance \in Nat
  BY <1>1 DEF RequestStates, TxnRows
<1>6. BalanceAfter(q) \in Nat
  BY <1>2, <1>5 DEF Affordable, BalanceAfter
<1> QED BY <1>1, <1>3, <1>4, <1>5, <1>6 DEF AppendLedger, Answer

LEMMA RowShape ==
  ASSUME NEW account \in Accounts, NEW txn \in Txns, NEW seq \in Nat \ {0},
         NEW type \in Types, NEW amount \in Nat \ {0}, NEW before \in Nat, NEW after \in Nat
  PROVE  [account |-> account, txn |-> txn, seq |-> seq, type |-> type,
          amount |-> amount, before |-> before, after |-> after] \in LedgerRows
  BY DEF LedgerRows

(* The new row is the next of its account, and no other row was there.      *)
LEMMA NextRow ==
  ASSUME FinanceInv, NEW r \in Requests, AppendLedger(r),
         NEW a, a = req[r].row.account, NEW row, row = LedgerRow(req[r])
  PROVE  /\ row \in LedgerRows
         /\ row.account = a
         /\ row.seq = accounts[a].version
         /\ row.before = accounts[a].balance
         /\ row.after = BalanceAfter(req[r])
         /\ \A e \in EntriesOf(a) : e.seq \in Nat /\ e.seq < row.seq
         /\ EntriesOf(a)' = EntriesOf(a) \cup {row}
         /\ \A b \in Accounts \ {a} : EntriesOf(b)' = EntriesOf(b)
<1> DEFINE q == req[r]
           n == accounts[a].version - 1
<1>1. /\ q \in RequestStates /\ q.row \in TxnRows
      /\ q.txn \in Txns /\ a \in Accounts
      /\ q.row.amount > 0
      /\ q.seq = n /\ q.balance = accounts[a].balance
      /\ BalanceAfter(q) \in Nat
      /\ ledger' = ledger \cup {row}
  BY Commits
<1>2. accounts[a].version \in Nat \ {0} /\ accounts[a].balance \in Nat
  BY <1>1 DEF FinanceInv, TypeOK
<1>3. row = [account |-> a, txn |-> q.txn, seq |-> q.seq + 1,
             type |-> q.row.type, amount |-> q.row.amount,
             before |-> q.balance, after |-> BalanceAfter(q)]
  BY DEF LedgerRow
<1>4. q.row.type \in Types /\ q.row.amount \in Nat \ {0}
  BY <1>1 DEF TxnRows
<1>5. q.seq + 1 \in Nat \ {0} /\ q.seq + 1 = accounts[a].version
  BY <1>1, <1>2
<1>6. /\ row \in LedgerRows
      /\ row.account = a
      /\ row.seq = accounts[a].version
      /\ row.before = accounts[a].balance
      /\ row.after = BalanceAfter(q)
  <2>1. q.balance \in Nat
    BY <1>1, <1>2
  <2>2. row \in LedgerRows
    BY ONLY <1>1, <1>3, <1>4, <1>5, <2>1, RowShape
  <2>3. row.account = a /\ row.seq = q.seq + 1 /\ row.before = q.balance
        /\ row.after = BalanceAfter(q)
    BY ONLY <1>3
  <2> QED BY <1>1, <1>5, <2>2, <2>3
<1>7. ASSUME NEW e \in EntriesOf(a) PROVE e.seq \in Nat /\ e.seq < row.seq
  <2>1. e.seq \in 1 .. n
    BY <1>1 DEF FinanceInv, SequenceContinuity
  <2> QED BY <2>1, <1>2, <1>6
<1>8. /\ EntriesOf(a)' = EntriesOf(a) \cup {row}
      /\ \A b \in Accounts \ {a} : EntriesOf(b)' = EntriesOf(b)
  BY <1>1, <1>6 DEF EntriesOf
<1> QED BY <1>6, <1>7, <1>8

(* Booking keeps the type of every variable. *)
LEMMA AppendType ==
  ASSUME FinanceInv, NEW r \in Requests, AppendLedger(r)
  PROVE  TypeOK'
<1> DEFINE q == req[r]
           a == q.row.account
<1>1. /\ a \in Accounts /\ q.txn \in Txns /\ q.row \in TxnRows
      /\ BalanceAfter(q) \in Nat
      /\ accounts' = [accounts EXCEPT ![a] = BookedAccount(accounts[a], q)]
      /\ ledger' = ledger \cup {LedgerRow(q)}
      /\ txns' = [txns EXCEPT ![q.txn] = q.row]
      /\ req' = [Updated({a, q.txn}) EXCEPT ![r] = Idle("posted")]
      /\ UNCHANGED <<categories, collections, policy, approvals, archiving>>
  BY Commits
<1>2. BookedAccount(accounts[a], q) \in
        [status: {"absent", "active", "inactive", "deleted"},
         version: Nat \ {0}, balance: Nat]
  <2>1. accounts[a] \in [status: {"absent", "active", "inactive", "deleted"},
                         version: Nat \ {0}, balance: Nat]
    BY <1>1 DEF FinanceInv, TypeOK
  <2>2. accounts[a].version + 1 \in Nat \ {0}
    BY <2>1
  <2> QED BY <2>1, <2>2, <1>1 DEF BookedAccount
<1>3. LedgerRow(q) \in LedgerRows
  BY NextRow
<1>4. \A s \in Requests : Updated({a, q.txn})[s] \in RequestStates
  <2>1. \A s \in Requests : req[s] \in RequestStates
    BY DEF FinanceInv, TypeOK
  <2>2. {a, q.txn} \in SUBSET (Accounts \cup Txns)
    BY <1>1
  <2>3. \A s \in Requests : Stale(req[s], {a, q.txn}) \in RequestStates
    BY ONLY <2>1, <2>2, StaleShape
  <2> QED BY <2>3 DEF Updated
<1>5. req' \in [Requests -> RequestStates]
  BY <1>1, <1>4, IdleShape DEF Updated
<1> HIDE DEF q, a
<1> QED BY <1>1, <1>2, <1>3, <1>5 DEF FinanceInv, TypeOK

(* Booking numbers the new row next, continues the balance chain from the    *)
(* newest row, and mirrors its balance.                                     *)
LEMMA AppendBooks ==
  ASSUME FinanceInv, NEW r \in Requests, AppendLedger(r)
  PROVE  SequenceContinuity' /\ BalanceChain' /\ MirroredBalance'
<1> DEFINE q == req[r]
<1> PICK a : a = q.row.account
  OBVIOUS
<1> PICK row : row = LedgerRow(q)
  OBVIOUS
<1> DEFINE n == accounts[a].version - 1
<1>1. /\ a \in Accounts
      /\ BalanceAfter(q) \in Nat
      /\ accounts' = [accounts EXCEPT ![a] = BookedAccount(accounts[a], q)]
      /\ ledger' = ledger \cup {row}
  BY Commits
<1>2. /\ row \in LedgerRows
      /\ row.account = a
      /\ row.seq = accounts[a].version
      /\ row.before = accounts[a].balance
      /\ row.after = BalanceAfter(q)
      /\ \A e \in EntriesOf(a) : e.seq \in Nat /\ e.seq < row.seq
      /\ EntriesOf(a)' = EntriesOf(a) \cup {row}
      /\ \A b \in Accounts \ {a} : EntriesOf(b)' = EntriesOf(b)
  BY NextRow
<1>3. row.after = IF row.type = "EXPENSE" THEN row.before - row.amount
                                          ELSE row.before + row.amount
  BY <1>2, Commits DEF LedgerRow, BalanceAfter
<1>4. /\ accounts'[a].version = accounts[a].version + 1
      /\ accounts'[a].balance = row.after
      /\ \A b \in Accounts \ {a} : accounts'[b] = accounts[b]
  BY <1>1, <1>2 DEF FinanceInv, TypeOK, BookedAccount
<1>5. accounts[a].version \in Nat \ {0}
  BY <1>1 DEF FinanceInv, TypeOK
<1> HIDE DEF q
<1>6. SequenceContinuity'
  <2> SUFFICES ASSUME NEW b \in Accounts
               PROVE  /\ {e.seq : e \in EntriesOf(b)'} = 1 .. accounts'[b].version - 1
                      /\ \A e, f \in EntriesOf(b)' : e.seq = f.seq => e = f
    BY DEF SequenceContinuity
  <2>1. CASE b # a
    BY <1>2, <1>4, <2>1 DEF FinanceInv, SequenceContinuity
  <2>2. CASE b = a
    <3>1. {e.seq : e \in EntriesOf(a)} = 1 .. n
      BY <1>1 DEF FinanceInv, SequenceContinuity
    <3>2. {e.seq : e \in EntriesOf(a)'} = (1 .. n) \cup {n + 1}
      BY <1>2, <1>5, <3>1
    <3>3. (1 .. n) \cup {n + 1} = 1 .. n + 1
      BY <1>5
    <3>4. \A e, f \in EntriesOf(a)' : e.seq = f.seq => e = f
      <4>1. \A e, f \in EntriesOf(a) : e.seq = f.seq => e = f
        BY <1>1 DEF FinanceInv, SequenceContinuity
      <4>2. \A e \in EntriesOf(a) : e.seq # row.seq
        BY <1>2, <1>5
      <4> QED BY <4>1, <4>2, <1>2
    <3>5. n + 1 = accounts'[a].version - 1
      BY <1>4, <1>5
    <3> QED BY <2>2, <3>2, <3>3, <3>4, <3>5
  <2> QED BY <2>1, <2>2
<1>7. BalanceChain'
  <2>1. \A e \in ledger :
          /\ e.after = IF e.type = "EXPENSE" THEN e.before - e.amount
                                             ELSE e.before + e.amount
          /\ e.seq = 1 => e.before = 0
          /\ \A f \in ledger :
               f.account = e.account /\ f.seq = e.seq + 1 => f.before = e.after
    BY DEF FinanceInv, BalanceChain
  <2>2. LatestBalance(a) = row.before
    BY <1>1, <1>2 DEF FinanceInv, MirroredBalance
  <2>3. row.seq = 1 => row.before = 0
    BY <1>1, <1>2, <2>2, LatestIsLast DEF FinanceInv, LatestBalance
  <2>4. ASSUME NEW e \in ledger, row.account = e.account, row.seq = e.seq + 1
        PROVE  row.before = e.after
    <3>1. e \in EntriesOf(a) /\ e.seq = accounts[a].version - 1
      BY <1>2, <1>5, <2>4 DEF EntriesOf
    <3>2. LatestEntry(a) \in EntriesOf(a) /\ LatestEntry(a).seq = e.seq
      BY <1>1, <3>1, LatestIsLast DEF FinanceInv
    <3>3. LatestEntry(a) = e
      BY <1>1, <3>1, <3>2 DEF FinanceInv, SequenceContinuity
    <3> QED BY <2>2, <3>1, <3>3 DEF LatestBalance
  <2>5. ASSUME NEW f \in ledger, f.account = row.account PROVE f.seq # row.seq + 1
    BY <1>2, <1>5, <2>5 DEF EntriesOf
  <2>6. row.seq # row.seq + 1
    BY <1>2, <1>5
  <2> QED BY <1>1, <1>3, <2>1, <2>3, <2>4, <2>5, <2>6 DEF BalanceChain
<1>8. MirroredBalance'
  <2> SUFFICES ASSUME NEW b \in Accounts
               PROVE  accounts'[b].balance = LatestBalance(b)'
    BY DEF MirroredBalance
  <2>1. CASE b # a
    BY <1>2, <1>4, <2>1 DEF FinanceInv, MirroredBalance, LatestBalance, LatestEntry
  <2>2. CASE b = a
    <3>1. LatestEntry(a)' = row
      <4>1. /\ row \in EntriesOf(a)'
            /\ \A f \in EntriesOf(a)' : f.seq <= row.seq
        BY <1>2, <1>5
      <4>2. /\ LatestEntry(a)' \in EntriesOf(a)'
            /\ \A f \in EntriesOf(a)' : f.seq <= LatestEntry(a)'.seq
        BY <4>1 DEF LatestEntry
      <4>3. \A e \in EntriesOf(a) : ~(row.seq <= e.seq)
        BY <1>2, <1>5
      <4> QED BY <1>2, <4>1, <4>2, <4>3
    <3> QED BY <1>2, <1>4, <2>2, <3>1 DEF LatestBalance
  <2> QED BY <2>1, <2>2
<1> QED BY <1>6, <1>7, <1>8

(* Booking preserves the invariant: the other snapshots of the two rows it  *)
(* writes are stale now.                                                    *)
LEMMA Booking ==
  ASSUME FinanceInv, NEW r \in Requests, AppendLedger(r)
  PROVE  FinanceInv'
<1> DEFINE q == req[r]
           rows == {q.row.account, q.txn}
<1>1. /\ q \in RequestStates /\ q.row \in TxnRows
      /\ q.row.account \in Accounts /\ q.txn \in Txns
      /\ q.row.amount > 0 /\ q.row.status = "POSTED"
      /\ txns[q.txn].status \in {"VALIDATED", "NONE"}
      /\ accounts' = [accounts EXCEPT ![q.row.account] =
                        BookedAccount(accounts[q.row.account], q)]
      /\ txns' = [txns EXCEPT ![q.txn] = q.row]
      /\ req' = [Updated(rows) EXCEPT ![r] = Idle("posted")]
      /\ UNCHANGED <<categories, collections, policy, approvals, archiving>>
  BY Commits
<1>2. TypeOK' /\ SequenceContinuity' /\ BalanceChain' /\ MirroredBalance'
  BY AppendType, AppendBooks
<1>3. \A t \in Txns : t # q.txn => txns'[t] = txns[t]
  BY <1>1 DEF FinanceInv, TypeOK
<1>4. RowsAreBookable'
  BY <1>1, <1>3 DEF FinanceInv, TypeOK, RowsAreBookable
<1>5. RejectionIsFinal'
  BY <1>1, <1>3, RejectionsUntouched DEF FinanceInv
<1>6. /\ req'[r] = Idle("posted")
      /\ \A s \in Requests \ {r} : req'[s] = Stale(req[s], rows)
  BY <1>1 DEF Updated
<1>7. req'[r].pc = "idle" /\ req'[r].txn = None
  BY <1>6, IdleShape
<1>8. \A b \in Accounts : b \notin rows => accounts'[b] = accounts[b]
  BY <1>1 DEF FinanceInv, TypeOK
<1>9. ASSUME NEW s \in Requests, req[s].pc # "idle", req[s].coll # None,
             req'[s].pc # "idle"
      PROVE  txns'[req[s].txn].status = "NONE"
  <2>1. s # r
    BY <1>7, <1>9
  <2>2. /\ req[s].txn \in Txns
        /\ txns[req[s].txn].status = "NONE"
        /\ req[s].txn # q.txn
    BY <1>9, <2>1 DEF FinanceInv, SnapshotsAreCurrent, IdsAreReserved
  <2> QED BY <1>3, <2>2
<1>10. rows \in SUBSET (Accounts \cup Txns)
  BY <1>1
<1>11. \A t \in Txns : t \notin rows => txns'[t].status = txns[t].status
  BY <1>3
<1> HIDE DEF rows, q
<1>12. SnapshotsAreCurrent' /\ IdsAreReserved'
  BY <1>6, <1>7, <1>8, <1>9, <1>10, <1>11, RequestsUpdated DEF FinanceInv
<1> QED BY <1>2, <1>4, <1>5, <1>12 DEF FinanceInv

-----------------------------------------------------------------------------
(* Approvals. *)

(* Requests, decisions and cancellations of approvals, and policies.        *)
LEMMA ApprovalSteps ==
  ASSUME FinanceInv, ApprovalNext
  PROVE  FinanceInv'
<1> DEFINE Decisions == {"none", "PENDING", "APPROVED", "REJECTED", "CANCELLED"}
<1>1. ASSUME NEW p \in Policies, UpdatePolicy(p) PROVE FinanceInv'
  <2>1. TypeOK'
    BY <1>1 DEF UpdatePolicy, FinanceInv, TypeOK
  <2>2. RejectionIsFinal'
    BY <1>1, RejectionsUntouched DEF UpdatePolicy, FinanceInv
  <2> QED BY <1>1, <2>1, <2>2, OtherRowsChange DEF UpdatePolicy
<1>2. ASSUME NEW t \in Txns, NEW new \in [Approvers -> Decisions],
             approvals' = [approvals EXCEPT ![t] = new],
             \A p \in Approvers : new[p] = "REJECTED" => approvals[t][p] = "REJECTED",
             UNCHANGED <<accounts, categories, txns, ledger, collections, policy,
                         archiving, req>>
      PROVE  FinanceInv'
  <2>1. TypeOK'
    BY <1>2 DEF FinanceInv, TypeOK
  <2>2. RejectionIsFinal'
    BY <1>2 DEF FinanceInv, TypeOK, RejectionIsFinal, Decided
  <2> QED BY <1>2, <2>1, <2>2, OtherRowsChange
<1>3. ASSUME NEW t \in Txns, NEW approvers \in SUBSET Approvers,
             NEW read \in Policies, RequestApprovals(t, approvers, read)
      PROVE  FinanceInv'
  <2> DEFINE new == [p \in Approvers |-> IF p \in approvers THEN "PENDING" ELSE "none"]
  <2>1. new \in [Approvers -> Decisions] /\ \A p \in Approvers : new[p] # "REJECTED"
    OBVIOUS
  <2> QED BY <1>2, <1>3, <2>1 DEF RequestApprovals
<1>4. ASSUME NEW t \in Txns, NEW p \in Approvers, Approve(t, p) \/ CancelApproval(t, p)
      PROVE  FinanceInv'
  <2>1. approvals[t] \in [Approvers -> Decisions]
    BY DEF FinanceInv, TypeOK
  <2>2. PICK s \in {"APPROVED", "CANCELLED"} :
          approvals' = [approvals EXCEPT ![t] = [approvals[t] EXCEPT ![p] = s]]
    BY <1>4 DEF Approve, CancelApproval
  <2>3. /\ [approvals[t] EXCEPT ![p] = s] \in [Approvers -> Decisions]
        /\ \A o \in Approvers : [approvals[t] EXCEPT ![p] = s][o] = "REJECTED" =>
             approvals[t][o] = "REJECTED"
    BY <2>1
  <2> QED BY <1>2, <1>4, <2>2, <2>3 DEF Approve, CancelApproval
<1>5. ASSUME NEW t \in Txns, NEW p \in Approvers, RejectApproval(t, p)
      PROVE  FinanceInv'
  <2>1. approvals' \in [Txns -> [Approvers -> Decisions]]
    <3>1. approvals \in [Txns -> [Approvers -> Decisions]]
      BY DEF FinanceInv, TypeOK
    <3>2. [approvals[t] EXCEPT ![p] = "REJECTED"] \in [Approvers -> Decisions]
      BY <3>1
    <3>3. approvals' = [approvals EXCEPT ![t] = [approvals[t] EXCEPT ![p] = "REJECTED"]]
      BY <1>5 DEF RejectApproval
    <3> QED BY <3>1, <3>2, <3>3
  <2>2. RejectionIsFinal'
    BY <1>5 DEF RejectApproval, FinanceInv, TypeOK, RejectionIsFinal, Decided
  <2> QED BY <1>5, <2>1, <2>2, TransactionMoves
      DEF RejectApproval, TxnStatuses, FinanceInv, TypeOK
<1> QED BY <1>1, <1>3, <1>4, <1>5 DEF ApprovalNext

(* The validation of a collection. *)
LEMMA CollectionStep ==
  ASSUME FinanceInv, NEW c \in Collections, CollectionValidated(c)
  PROVE  FinanceInv'
<1>1. TypeOK'
  <2> DEFINE Row == [status: {"SUBMITTED", "VALIDATED"},
                     mode: {"PER_HOUSE", "BULK_TOTAL"}, total: Nat, paid: Nat]
  <2>1. collections \in [Collections -> Row]
    BY DEF FinanceInv, TypeOK
  <2>2. [collections[c] EXCEPT !.status = "VALIDATED"] \in Row
    BY <2>1
  <2>3. collections' = [collections EXCEPT ![c] = [collections[c] EXCEPT !.status = "VALIDATED"]]
    BY DEF CollectionValidated
  <2>4. collections' \in [Collections -> Row]
    <3> HIDE DEF Row
    <3> QED BY <2>1, <2>2, <2>3
  <2> QED BY <2>4 DEF CollectionValidated, FinanceInv, TypeOK
<1>2. RejectionIsFinal'
  BY RejectionsUntouched DEF CollectionValidated, FinanceInv
<1> QED BY <1>1, <1>2, OtherRowsChange DEF CollectionValidated

-----------------------------------------------------------------------------
(* The theorems. *)

(* A tenant starts with empty books, no transaction and no request.         *)
LEMMA InitInv == Init => FinanceInv
<1> SUFFICES ASSUME Init PROVE FinanceInv
  OBVIOUS
<1> USE DEF Init, FinanceInit
<1>1. TypeOK
  BY IdleShape, HarvestsAreTotals DEF TypeOK, NoTxn, TxnRows, Types
<1>2. \A a : EntriesOf(a) = {}
  BY DEF EntriesOf
<1>3. SequenceContinuity /\ BalanceChain /\ MirroredBalance
  <2>1. SequenceContinuity
    BY <1>2 DEF SequenceContinuity
  <2>2. BalanceChain
    BY DEF BalanceChain
  <2>3. MirroredBalance
    BY <1>2 DEF MirroredBalance, LatestBalance
  <2> QED BY <2>1, <2>2, <2>3
<1>4. RejectionIsFinal /\ RowsAreBookable
  BY DEF RejectionIsFinal, Decided, RowsAreBookable, NoTxn
<1>5. SnapshotsAreCurrent /\ IdsAreReserved
  BY IdleShape DEF SnapshotsAreCurrent, IdsAreReserved
<1> QED BY <1>1, <1>3, <1>4, <1>5 DEF FinanceInv

(* Every step of finance and approvals preserves the invariant.             *)
LEMMA NextInv == FinanceInv /\ [Next]_vars => FinanceInv'
<1> SUFFICES ASSUME FinanceInv, [Next]_vars PROVE FinanceInv'
  OBVIOUS
<1>1. CASE FinanceNext
  <2>1. ASSUME NEW r \in Requests, Handle(r) PROVE FinanceInv'
    BY <2>1, Ends, Reads, Booking, Conflicts DEF Handle
  <2> QED BY <1>1, <2>1, AccountsAndCategories, Transactions, Sent, Ends
      DEF FinanceNext
<1>2. CASE ApprovalNext
  BY <1>2, ApprovalSteps
<1>3. CASE \E c \in Collections : CollectionValidated(c)
  BY <1>3, CollectionStep
<1>4. CASE UNCHANGED vars
  <2>1. TypeOK'
    BY <1>4 DEF vars, FinanceInv, TypeOK
  <2>2. RejectionIsFinal'
    BY <1>4, RejectionsUntouched DEF vars, FinanceInv
  <2> QED BY <1>4, <2>1, <2>2, OtherRowsChange DEF vars
<1> QED BY <1>1, <1>2, <1>3, <1>4 DEF Next

(* The invariant that ties ledger, accounts, transactions, approvals and     *)
(* the snapshots of posting requests together holds in every state.         *)
THEOREM FinanceInvariant == Spec => []FinanceInv
  BY InitInv, NextInv, PTL DEF Spec

(* Every variable keeps its type; no balance is ever negative.              *)
THEOREM TypeCorrect == Spec => []TypeOK
<1>1. FinanceInv => TypeOK
  BY DEF FinanceInv
<1> QED BY <1>1, FinanceInvariant, PTL

(* The books are right: whatever posts run concurrently, an account's rows   *)
(* are numbered without a gap, continue each other's balance, and end in the *)
(* balance the account mirrors.                                             *)
THEOREM BooksAreRight == Spec => []BooksBalance
<1>1. FinanceInv => BooksBalance
  BY DEF FinanceInv, BooksBalance
<1> QED BY <1>1, FinanceInvariant, PTL

(* An expense with a rejected approval is REJECTED, and never posted, even   *)
(* if a post had read the approvals before the rejection.                   *)
THEOREM RejectedNeverPosted == Spec => []RejectionIsFinal
<1>1. FinanceInv => RejectionIsFinal
  BY DEF FinanceInv
<1> QED BY <1>1, FinanceInvariant, PTL

-----------------------------------------------------------------------------
(* Approvals that are not taken back stay enough. *)
LEMMA ApprovalsSuffice ==
  ASSUME NEW t \in Txns, NEW n \in Nat, HasApprovals(t, n),
         Decided(t, "APPROVED") \subseteq Decided(t, "APPROVED")'
  PROVE  HasApprovals(t, n)'
<1>1. IsFiniteSet(Decided(t, "APPROVED")')
  <2>1. Decided(t, "APPROVED")' \subseteq Approvers
    BY DEF Decided
  <2> QED BY <2>1, ApproversAreFinite, FS_Subset
<1>2. /\ Cardinality(Decided(t, "APPROVED")) <= Cardinality(Decided(t, "APPROVED")')
      /\ IsFiniteSet(Decided(t, "APPROVED"))
  BY <1>1, FS_Subset
<1>3. /\ Cardinality(Decided(t, "APPROVED")) \in Nat
      /\ Cardinality(Decided(t, "APPROVED")') \in Nat
  BY <1>1, <1>2, FS_CardinalityType
<1>4. Cardinality(Decided(t, "APPROVED")) >= n
  BY DEF HasApprovals
<1>5. Cardinality(Decided(t, "APPROVED")') >= n
  BY <1>2, <1>3, <1>4
<1> QED BY <1>5 DEF HasApprovals

(* What a policy requires is a number. *)
LEMMA PoliciesRequireSome ==
  ASSUME NEW p \in Policies PROVE p.required \in Nat
  BY PoliciesAreNormalized

(* What posted and validated rows promise survives steps that book nothing  *)
(* and only move rows that are not posted.                                  *)
LEMMA RowsStay ==
  ASSUME TypeOK, PostedIffBooked, NoSharedKeyOrSource, CollectionBookedAsValidated,
         PostedExpensesWereApproved,
         ledger' = ledger,
         \A t \in Txns :
           /\ txns'[t].status = "NONE" <=> txns[t].status = "NONE"
           /\ txns'[t].status = "POSTED" <=> txns[t].status = "POSTED"
           /\ txns'[t].account = txns[t].account /\ txns'[t].type = txns[t].type
           /\ txns'[t].amount = txns[t].amount /\ txns'[t].key = txns[t].key
           /\ txns'[t].source = txns[t].source /\ txns'[t].under = txns[t].under,
         \A c \in Collections : collections[c].status = "VALIDATED" =>
           collections'[c] = collections[c],
         \A t \in Txns, n \in Nat : HasApprovals(t, n) => HasApprovals(t, n)'
  PROVE  /\ PostedIffBooked' /\ NoSharedKeyOrSource' /\ CollectionBookedAsValidated'
         /\ PostedExpensesWereApproved'
<1>1. PostedIffBooked'
  BY DEF PostedIffBooked
<1>2. NoSharedKeyOrSource'
  <2>1. \A t \in Txns : \A k : KeyTaken(k, t)' <=> KeyTaken(k, t)
    BY DEF KeyTaken
  <2>2. \A c : SourceTxns(c)' = SourceTxns(c)
    BY DEF SourceTxns
  <2> QED BY <2>1, <2>2 DEF NoSharedKeyOrSource
<1>3. CollectionBookedAsValidated'
  <2> SUFFICES ASSUME NEW t \in Txns, txns'[t].status # "NONE", txns'[t].source # None
               PROVE  /\ txns'[t].status = "POSTED"
                      /\ collections'[txns'[t].source].status = "VALIDATED"
                      /\ txns'[t].amount > 0
                      /\ txns'[t].amount = IF collections'[txns'[t].source].mode = "PER_HOUSE"
                                           THEN collections'[txns'[t].source].paid
                                           ELSE collections'[txns'[t].source].total
    BY DEF CollectionBookedAsValidated
  <2>1. txns[t].source \in Collections
    BY DEF TypeOK, TxnRows
  <2>2. /\ txns[t].status = "POSTED"
        /\ collections[txns[t].source].status = "VALIDATED"
        /\ txns[t].amount > 0
        /\ txns[t].amount = IF collections[txns[t].source].mode = "PER_HOUSE"
                            THEN collections[txns[t].source].paid
                            ELSE collections[txns[t].source].total
    BY DEF CollectionBookedAsValidated
  <2>3. collections'[txns[t].source] = collections[txns[t].source]
    BY <2>1, <2>2
  <2> QED BY <2>2, <2>3
<1>4. PostedExpensesWereApproved'
  BY PoliciesRequireSome DEF PostedExpensesWereApproved, PassesItsPolicy
<1> QED BY <1>1, <1>2, <1>3, <1>4

(* What an update by others leaves of a request. *)
LEMMA StaleKeeps ==
  ASSUME NEW q \in RequestStates, NEW rows \in SUBSET (Accounts \cup Txns)
  PROVE  /\ Stale(q, rows).key = q.key
         /\ Stale(q, rows).answer = q.answer
         /\ Stale(q, rows).create = q.create
  BY DEF Stale, Writes, RequestStates

(* A request stays ready while others change its rows, validated            *)
(* collections stay and approvals only come.                                *)
LEMMA RequestsStay ==
  ASSUME TypeOK, NEW r \in Requests, NEW rows \in SUBSET (Accounts \cup Txns),
         req'[r] = Stale(req[r], rows),
         Ready(req[r]),
         SnapshotsAreCurrent,
         \A a \in Accounts \ rows : accounts'[a].status = accounts[a].status,
         \A c \in Collections : collections[c].status = "VALIDATED" =>
           collections'[c] = collections[c],
         \A t \in Txns, n \in Nat : HasApprovals(t, n) => HasApprovals(t, n)'
  PROVE  Ready(req[r])'
<1> DEFINE q == req[r]
           p == req'[r]
<1>1. q \in RequestStates /\ (q.pc # "idle" => q.txn \in Txns)
  BY DEF TypeOK, SnapshotsAreCurrent
<1>2. /\ p.pc = q.pc /\ p.txn = q.txn /\ p.coll = q.coll /\ p.row = q.row
      /\ p.key = q.key /\ p.answer = q.answer /\ p.create = q.create
      /\ q.stale \subseteq p.stale
      /\ q.pc = "appending" => rows \cap {q.txn, q.row.account} \subseteq p.stale
  BY <1>1, StaleShape, StaleKeeps
<1>3. q.row \in TxnRows
  BY <1>1 DEF RequestStates
<1>4. AsValidated(q.row) => AsValidated(q.row)'
  BY <1>2, <1>3 DEF AsValidated, TxnRows
<1>5. q.pc = "appending" => q.row.account \in Accounts
  BY DEF SnapshotsAreCurrent
<1>6. q.txn \in Txns /\ PassesItsPolicy(q.row, q.txn) => PassesItsPolicy(q.row, q.txn)'
  BY <1>2, PoliciesRequireSome DEF PassesItsPolicy
<1>7. q.pc = "appending" =>
        /\ q.key \in {None, q.row.key}
        /\ q.coll # None => q.row.source = q.coll
        /\ AsValidated(q.row)
        /\ PassesItsPolicy(q.row, q.txn)
        /\ q.row.account \notin q.stale /\ ~q.create =>
             accounts[q.row.account].status = "active"
  BY DEF Ready
<1>8. q.pc # "idle" => q.answer = "none"
  BY DEF Ready
<1>9. p.pc # "idle" => p.answer = "none"
  BY <1>2, <1>8
<1>10. ASSUME p.pc = "appending"
       PROVE  /\ p.key \in {None, p.row.key}
              /\ p.coll # None => p.row.source = p.coll
              /\ AsValidated(q.row)'
              /\ PassesItsPolicy(q.row, q.txn)'
              /\ p.row.account \notin p.stale /\ ~p.create =>
                   accounts'[p.row.account].status = "active"
  <2>1. q.pc = "appending" /\ q.txn \in Txns
    BY <1>1, <1>2, <1>10
  <2>2. /\ p.key \in {None, p.row.key}
        /\ p.coll # None => p.row.source = p.coll
    BY <1>2, <1>7, <2>1
  <2>3. AsValidated(q.row)'
    BY <1>2, <1>4, <1>7, <2>1
  <2>4. PassesItsPolicy(q.row, q.txn)'
    BY <1>2, <1>6, <1>7, <2>1
  <2>5. p.row.account \notin p.stale /\ ~p.create =>
          accounts'[p.row.account].status = "active"
    BY <1>2, <1>5, <1>7, <2>1
  <2> QED BY <2>2, <2>3, <2>4, <2>5
<1> QED BY <1>9, <1>10 DEF Ready

(* Accounts whose rows and version stay are as well counted as before.      *)
LEMMA CountsStay ==
  ASSUME RowsAreCounted, ledger' = ledger,
         \A a \in Accounts : accounts'[a].version = accounts[a].version
  PROVE  RowsAreCounted'
<1>1. \A a : EntriesOf(a)' = EntriesOf(a)
  BY DEF EntriesOf
<1> QED BY <1>1 DEF RowsAreCounted

(* What a step that books nothing has to show about postings.               *)
LEMMA PostingsStay ==
  ASSUME FinanceInv, PostingInv,
         NEW rows \in SUBSET (Accounts \cup Txns),
         ledger' = ledger,
         \A a \in Accounts : accounts'[a].version = accounts[a].version,
         \A a \in Accounts \ rows : accounts'[a].status = accounts[a].status,
         \A t \in Txns :
           /\ txns'[t].status = "NONE" <=> txns[t].status = "NONE"
           /\ txns'[t].status = "POSTED" <=> txns[t].status = "POSTED"
           /\ txns'[t].account = txns[t].account /\ txns'[t].type = txns[t].type
           /\ txns'[t].amount = txns[t].amount /\ txns'[t].key = txns[t].key
           /\ txns'[t].source = txns[t].source /\ txns'[t].under = txns[t].under,
         \A c \in Collections : collections[c].status = "VALIDATED" =>
           collections'[c] = collections[c],
         \A t \in Txns : Decided(t, "APPROVED") \subseteq Decided(t, "APPROVED")',
         \A r \in Requests : req'[r] = Stale(req[r], rows) \/ Ready(req[r])'
  PROVE  PostingInv'
<1>1. \A t \in Txns, n \in Nat : HasApprovals(t, n) => HasApprovals(t, n)'
  BY ApprovalsSuffice
<1>2. /\ PostedIffBooked' /\ NoSharedKeyOrSource' /\ CollectionBookedAsValidated'
      /\ PostedExpensesWereApproved'
  BY <1>1, RowsStay DEF FinanceInv, PostingInv
<1>3. RowsAreCounted'
  BY CountsStay DEF PostingInv
<1>4. ASSUME NEW r \in Requests, req'[r] = Stale(req[r], rows) PROVE Ready(req[r])'
  BY <1>1, <1>4, RequestsStay DEF FinanceInv, PostingInv
<1> QED BY <1>2, <1>3, <1>4 DEF PostingInv

(* An update of no row leaves all requests as they are. *)
LEMMA NobodyStale ==
  ASSUME TypeOK
  PROVE  Updated({}) = req
<1>1. \A r \in Requests : Stale(req[r], {}) = req[r]
  BY NothingStale DEF TypeOK
<1> QED BY <1>1 DEF Updated, TypeOK

(* Steps of accounts, categories, approvals and policies leave what was      *)
(* posted, validated and approved.                                          *)
LEMMA OthersPost ==
  ASSUME FinanceInv, PostingInv,
         NEW rows \in SUBSET (Accounts \cup Txns),
         UNCHANGED <<txns, ledger, collections>>,
         \A a \in Accounts : accounts'[a].version = accounts[a].version,
         \A a \in Accounts \ rows : accounts'[a].status = accounts[a].status,
         \A t \in Txns : Decided(t, "APPROVED") \subseteq Decided(t, "APPROVED")',
         req' = Updated(rows)
  PROVE  PostingInv'
<1>1. \A r \in Requests : req'[r] = Stale(req[r], rows)
  BY DEF Updated
<1> QED BY <1>1, PostingsStay

(* The handlers of cash accounts and categories. *)
LEMMA AccountsPost ==
  ASSUME FinanceInv, PostingInv,
         \/ \E a \in Accounts :
              \/ CreateCashAccount(a)
              \/ \E s \in {"active", "inactive"} : UpdateCashAccount(a, s)
              \/ CountLedgerToArchive(a)
              \/ ArchiveCashAccount(a)
         \/ \E type \in Types, s \in {"active", "inactive", "deleted"} :
              SetCategory(type, s)
  PROVE  PostingInv'
<1>1. approvals' = approvals /\ UNCHANGED <<txns, ledger, collections>>
  BY DEF CreateCashAccount, UpdateCashAccount, CountLedgerToArchive,
         ArchiveCashAccount, SetCategory
<1>2. \A t \in Txns : Decided(t, "APPROVED") \subseteq Decided(t, "APPROVED")'
  BY <1>1 DEF Decided
<1>3. CASE UNCHANGED <<accounts, req>>
  <2>1. req' = Updated({})
    BY <1>3, NobodyStale DEF FinanceInv
  <2> QED BY <1>1, <1>2, <1>3, <2>1, OthersPost
<1>4. ASSUME NEW a \in Accounts, NEW s,
             accounts' = [accounts EXCEPT ![a].status = s], req' = Updated({a})
      PROVE  PostingInv'
  <2>1. accounts \in [Accounts -> [status: {"absent", "active", "inactive", "deleted"},
                                   version: Nat \ {0}, balance: Nat]]
    BY DEF FinanceInv, TypeOK
  <2>2. /\ \A b \in Accounts : accounts'[b].version = accounts[b].version
        /\ \A b \in Accounts \ {a} : accounts'[b].status = accounts[b].status
    BY <1>4, <2>1
  <2> QED BY <1>1, <1>2, <1>4, <2>2, OthersPost
<1>5. \/ UNCHANGED <<accounts, req>>
      \/ \E a \in Accounts : \E s : accounts' = [accounts EXCEPT ![a].status = s]
                                    /\ req' = Updated({a})
  BY DEF CreateCashAccount, UpdateCashAccount, CountLedgerToArchive,
         ArchiveCashAccount, SetCategory
<1> QED BY <1>3, <1>4, <1>5

(* Approvals, policies and the validation of collections. *)
LEMMA ApprovalsPost ==
  ASSUME FinanceInv, PostingInv, ApprovalNext,
         ~\E t \in Txns, p \in Approvers : RejectApproval(t, p)
  PROVE  PostingInv'
<1>1. UNCHANGED <<accounts, txns, ledger, collections, req>>
  BY DEF ApprovalNext, UpdatePolicy, RequestApprovals, Approve, CancelApproval
<1>2. approvals \in [Txns -> [Approvers ->
        {"none", "PENDING", "APPROVED", "REJECTED", "CANCELLED"}]]
  BY DEF FinanceInv, TypeOK
<1>3. ASSUME NEW t \in Txns, NEW p \in Approvers, approvals[t][p] = "APPROVED"
      PROVE  approvals'[t][p] = "APPROVED"
  BY <1>2, <1>3 DEF ApprovalNext, UpdatePolicy, RequestApprovals, Approve, CancelApproval
<1>4. \A t \in Txns : Decided(t, "APPROVED") \subseteq Decided(t, "APPROVED")'
  BY <1>3 DEF Decided
<1>5. req' = Updated({})
  BY <1>1, NobodyStale DEF FinanceInv
<1> QED BY <1>1, <1>4, <1>5, OthersPost

(* A collection that is validated was not before. *)
LEMMA ValidationPosts ==
  ASSUME FinanceInv, PostingInv, NEW c \in Collections, CollectionValidated(c)
  PROVE  PostingInv'
<1>1. \A d \in Collections : collections[d].status = "VALIDATED" =>
        collections'[d] = collections[d]
  BY DEF CollectionValidated, FinanceInv, TypeOK
<1>2. \A t \in Txns : Decided(t, "APPROVED") \subseteq Decided(t, "APPROVED")'
  BY DEF CollectionValidated, Decided
<1>3. \A r \in Requests : req'[r] = Stale(req[r], {})
  BY NothingStale DEF CollectionValidated, FinanceInv, TypeOK
<1>4. UNCHANGED <<accounts, txns, ledger>>
  BY DEF CollectionValidated
<1> QED BY <1>1, <1>2, <1>3, <1>4, PostingsStay

-----------------------------------------------------------------------------
(* A transition out of DRAFT or VALIDATED into a status other than POSTED.  *)
LEMMA MovesPost ==
  ASSUME FinanceInv, PostingInv, NEW t \in Txns,
         NEW to \in TxnStatuses \ {"POSTED"},
         txns[t].status \in {"DRAFT", "VALIDATED"},
         txns' = [txns EXCEPT ![t].status = to],
         req' = Updated({t}),
         \A u \in Txns : Decided(u, "APPROVED") \subseteq Decided(u, "APPROVED")',
         UNCHANGED <<accounts, ledger, collections>>
  PROVE  PostingInv'
<1>1. \A r \in Requests : req'[r] = Stale(req[r], {t})
  BY DEF Updated
<1>2. txns \in [Txns -> TxnRows]
  BY DEF FinanceInv, TypeOK
<1>3. \A u \in Txns : txns'[u] = IF u = t THEN [txns[u] EXCEPT !.status = to] ELSE txns[u]
  BY <1>2
<1>4. \A u \in Txns :
        /\ txns'[u].status = "NONE" <=> txns[u].status = "NONE"
        /\ txns'[u].status = "POSTED" <=> txns[u].status = "POSTED"
        /\ txns'[u].account = txns[u].account /\ txns'[u].type = txns[u].type
        /\ txns'[u].amount = txns[u].amount /\ txns'[u].key = txns[u].key
        /\ txns'[u].source = txns[u].source /\ txns'[u].under = txns[u].under
  BY <1>2, <1>3 DEF TxnRows, TxnStatuses
<1> QED BY <1>1, <1>4, PostingsStay

(* A new draft is not posted, has no source and a key nobody has.           *)
LEMMA DraftsPost ==
  ASSUME FinanceInv, PostingInv, NEW t \in Txns, NEW c \in Commands, CreateDraft(t, c)
  PROVE  PostingInv'
<1>1. /\ txns' = [txns EXCEPT ![t] =
                   [status |-> "DRAFT", type |-> c.type, account |-> c.account,
                    amount |-> c.amount, key |-> c.key, source |-> None,
                    under |-> None]]
      /\ txns[t].status = "NONE"
      /\ ~KeyTaken(c.key, t)
      /\ UNCHANGED <<accounts, ledger, collections, policy, approvals, req>>
  BY DEF CreateDraft, UnusedIds
<1>2. txns \in [Txns -> TxnRows]
  BY DEF FinanceInv, TypeOK
<1>3. /\ txns'[t].status = "DRAFT" /\ txns'[t].key = c.key /\ txns'[t].source = None
      /\ \A u \in Txns \ {t} : txns'[u] = txns[u]
  BY <1>1, <1>2
<1>4. PostedIffBooked'
  <2>1. ~\E e \in ledger : e.txn = t
    BY <1>1 DEF PostingInv, PostedIffBooked
  <2> QED BY <1>1, <1>3, <2>1 DEF PostingInv, PostedIffBooked
<1>5. NoSharedKeyOrSource'
  <2> SUFFICES ASSUME NEW u \in Txns, txns'[u].status # "NONE"
               PROVE  /\ ~KeyTaken(txns[u].key, u)'
                      /\ txns'[u].source # None =>
                           SourceTxns(txns[u].source)' = {u}
    BY DEF NoSharedKeyOrSource
  <2>1. CASE u = t
    BY <1>1, <1>3, <2>1 DEF KeyTaken
  <2>2. CASE u # t
    <3>1. ~KeyTaken(txns[u].key, u) /\ txns'[u] = txns[u] /\ txns[u].status # "NONE"
      BY <1>3, <2>2 DEF PostingInv, NoSharedKeyOrSource
    <3>2. ~KeyTaken(txns[u].key, u)'
      BY <1>1, <1>3, <2>2, <3>1 DEF KeyTaken
    <3>3. txns[u].source # None => SourceTxns(txns[u].source) = {u}
      BY <3>1 DEF PostingInv, NoSharedKeyOrSource
    <3>4. txns[u].source # None => SourceTxns(txns[u].source)' = SourceTxns(txns[u].source)
      BY <1>1, <1>3, <3>1 DEF SourceTxns
    <3> QED BY <3>1, <3>2, <3>3, <3>4
  <2> QED BY <2>1, <2>2
<1>6. CollectionBookedAsValidated'
  BY <1>1, <1>3 DEF PostingInv, CollectionBookedAsValidated
<1>7. PostedExpensesWereApproved'
  BY <1>1, <1>3 DEF PostingInv, PostedExpensesWereApproved,
    PassesItsPolicy, HasApprovals, Decided
<1>8. RowsAreCounted'
  BY <1>1, CountsStay DEF PostingInv
<1>9. \A r \in Requests : Ready(req[r])'
  BY <1>1 DEF PostingInv, Ready, AsValidated, PassesItsPolicy, HasApprovals, Decided
<1> QED BY <1>4, <1>5, <1>6, <1>7, <1>8, <1>9 DEF PostingInv

(* The life of a transaction before it is posted, and its rejection by an   *)
(* approver.                                                                *)
LEMMA TransactionsPost ==
  ASSUME FinanceInv, PostingInv, NEW t \in Txns,
         \/ \E c \in Commands : CreateDraft(t, c)
         \/ ValidateTransaction(t)
         \/ RejectTransaction(t)
         \/ VoidDraftTransaction(t)
         \/ \E p \in Approvers : RejectApproval(t, p)
  PROVE  PostingInv'
<1>1. ASSUME NEW from \in SUBSET {"DRAFT", "VALIDATED"},
             NEW to \in TxnStatuses \ {"POSTED"}, Transition(t, from, to)
      PROVE  PostingInv'
  <2>1. \A u \in Txns : Decided(u, "APPROVED") \subseteq Decided(u, "APPROVED")'
    BY <1>1 DEF Transition, Decided
  <2> QED BY <1>1, <2>1, MovesPost DEF Transition
<1>2. ASSUME NEW p \in Approvers, RejectApproval(t, p) PROVE PostingInv'
  <2>1. \A u \in Txns : Decided(u, "APPROVED") \subseteq Decided(u, "APPROVED")'
    BY <1>2 DEF RejectApproval, Decided, FinanceInv, TypeOK
  <2> QED BY <1>2, <2>1, MovesPost DEF RejectApproval, TxnStatuses
<1> QED BY <1>1, <1>2, DraftsPost DEF ValidateTransaction, RejectTransaction,
              VoidDraftTransaction, TxnStatuses

-----------------------------------------------------------------------------
(* Steps of requests that commit nothing.                                   *)
LEMMA RequestsPost ==
  ASSUME FinanceInv, PostingInv,
         UNCHANGED <<accounts, txns, ledger, collections, policy, approvals>>,
         \A r \in Requests : req'[r] = req[r] \/ Ready(req[r])'
  PROVE  PostingInv'
<1>1. \A r \in Requests : req'[r] = Stale(req[r], {}) \/ Ready(req[r])'
  BY NothingStale DEF FinanceInv, TypeOK
<1>2. \A t \in Txns : Decided(t, "APPROVED") \subseteq Decided(t, "APPROVED")'
  BY DEF Decided
<1> QED BY <1>1, <1>2, PostingsStay

(* One request moves on. *)
LEMMA MovedRequestPosts ==
  ASSUME FinanceInv, PostingInv, NEW r \in Requests, NEW q,
         req' = [req EXCEPT ![r] = q],
         UNCHANGED <<accounts, txns, ledger, collections, policy, approvals>>,
         q.pc # "idle" => q.answer = "none",
         q.pc = "appending" =>
           /\ q.key \in {None, q.row.key}
           /\ q.coll # None => q.row.source = q.coll
           /\ AsValidated(q.row)
           /\ PassesItsPolicy(q.row, q.txn)
           /\ ~q.create => accounts[q.row.account].status = "active"
  PROVE  PostingInv'
<1>1. \A s \in Requests : req'[s] = IF s = r THEN q ELSE req[s]
  BY DEF FinanceInv, TypeOK
<1>2. Ready(q)
  BY DEF Ready
<1>3. Ready(q) => (req'[r] = q => Ready(req[r])')
  BY DEF Ready, AsValidated, PassesItsPolicy, HasApprovals, Decided
<1> QED BY <1>1, <1>2, <1>3, RequestsPost

(* Requests that are sent, that fail, and that start again.                 *)
LEMMA StartsPost ==
  ASSUME FinanceInv, PostingInv, NEW r \in Requests,
         \/ \E t \in Txns, k \in Keys \cup {None} : SendPost(r, t, k)
         \/ \E t \in Txns, c \in Collections, a \in Accounts \cup {None},
              k \in Keys \cup {None} : SendCollection(r, t, c, a, k)
         \/ DuplicateKey(r)
         \/ SerializationFailure(r)
  PROVE  PostingInv'
<1>1. UNCHANGED <<accounts, txns, ledger, collections, policy, approvals>>
  BY DEF SendPost, SendCollection, DuplicateKey, SerializationFailure
<1>2. ASSUME NEW q, req' = [req EXCEPT ![r] = q], q.pc # "idle", q.pc # "appending",
             q.answer = "none"
      PROVE  PostingInv'
  BY <1>1, <1>2, MovedRequestPosts
<1>3. ASSUME NEW t, NEW k, SendPost(r, t, k) PROVE PostingInv'
  <2> DEFINE q == [Idle("none") EXCEPT
                     !.pc = "begin", !.txn = t, !.key = k, !.attempt = 1]
  <2>1. q.pc = "begin" /\ q.answer = "none"
    BY DEF Idle
  <2>2. req' = [req EXCEPT ![r] = q]
    BY <1>3 DEF SendPost
  <2> HIDE DEF q
  <2> QED BY <1>2, <2>1, <2>2
<1>4. ASSUME NEW t, NEW c, NEW a, NEW k, SendCollection(r, t, c, a, k)
      PROVE  PostingInv'
  <2> DEFINE q == [Idle("none") EXCEPT !.pc = "begin", !.txn = t, !.coll = c,
                                       !.want = a, !.key = k, !.attempt = 1]
  <2>1. q.pc = "begin" /\ q.answer = "none"
    BY DEF Idle
  <2>2. req' = [req EXCEPT ![r] = q]
    BY <1>4 DEF SendCollection
  <2> HIDE DEF q
  <2> QED BY <1>2, <2>1, <2>2
<1>5. CASE req' = Failing(r)
  <2> DEFINE q == [Idle("none") EXCEPT !.pc = "failing", !.txn = req[r].txn,
                                       !.coll = req[r].coll, !.key = req[r].key]
  <2>1. q.pc = "failing" /\ q.answer = "none"
    BY DEF Idle
  <2>2. req' = [req EXCEPT ![r] = q]
    BY <1>5 DEF Failing
  <2> HIDE DEF q
  <2> QED BY <1>2, <2>1, <2>2
<1>6. CASE SerializationFailure(r) /\ req' # Failing(r)
  <2> DEFINE q == [Idle("none") EXCEPT !.pc = "begin", !.txn = req[r].txn,
                     !.coll = req[r].coll, !.key = req[r].key,
                     !.want = req[r].want, !.attempt = req[r].attempt + 1]
  <2>1. q.pc = "begin" /\ q.answer = "none"
    BY DEF Idle
  <2>2. req' = [req EXCEPT ![r] = q]
    BY <1>6 DEF SerializationFailure
  <2> HIDE DEF q
  <2> QED BY <1>2, <2>1, <2>2
<1> QED BY <1>3, <1>4, <1>5, <1>6 DEF DuplicateKey

(* Answers without a commit, and the crash. *)
LEMMA EndsPost ==
  ASSUME FinanceInv, PostingInv,
         \/ \E r \in Requests :
              Replay(r) \/ Refuse(r) \/ InsufficientBalance(r) \/ GiveUp(r)
         \/ Crash
  PROVE  PostingInv'
<1>1. UNCHANGED <<accounts, txns, ledger, collections, policy, approvals>>
  BY DEF Replay, Refuse, InsufficientBalance, GiveUp, Crash
<1>2. ASSUME NEW r \in Requests, NEW x, req'[r] = Idle(x) PROVE Ready(req[r])'
  BY <1>2 DEF Ready, Idle
<1>3. \A s \in Requests : req'[s] = req[s] \/ \E x : req'[s] = Idle(x)
  <2>1. ASSUME NEW r \in Requests, NEW x, req' = Answer(r, x, {})
        PROVE  \A s \in Requests : req'[s] = req[s] \/ req'[s] = Idle(x)
    <3>1. req' = [req EXCEPT ![r] = Idle(x)]
      BY <2>1, NobodyStale DEF Answer, FinanceInv
    <3> QED BY <3>1 DEF FinanceInv, TypeOK
  <2>2. CASE Crash
    BY <2>2 DEF Crash
  <2>3. CASE \E r \in Requests : \E x : req' = Answer(r, x, {})
    BY <2>1, <2>3
  <2> QED BY <2>2, <2>3 DEF Replay, Refuse, InsufficientBalance, GiveUp
<1> QED BY <1>1, <1>2, <1>3, RequestsPost

(* The reads of a post: what the gates let through is approved and validated. *)
LEMMA ReadsPost ==
  ASSUME FinanceInv, PostingInv, NEW r \in Requests,
         ReadTransaction(r) \/ ReadCollection(r)
  PROVE  PostingInv'
<1> DEFINE q == req[r]
<1>1. /\ q \in RequestStates
      /\ q.pc # "idle" /\ q.answer = "none"
      /\ q.txn \in Txns
  BY DEF FinanceInv, TypeOK, SnapshotsAreCurrent, PostingInv, Ready,
         ReadTransaction, ReadCollection
<1>2. ASSUME NEW row, Snapshot(r, row),
             q.key \in {None, row.key},
             q.coll # None => row.source = q.coll,
             AsValidated(row),
             PassesItsPolicy(row, q.txn),
             accounts[row.account].status \in {"absent", "active"}
      PROVE  PostingInv'
  <2> DEFINE new == [q EXCEPT
               !.pc = "appending", !.row = row,
               !.seq = LatestSeq(row.account),
               !.balance = LatestBalance(row.account),
               !.create = (accounts[row.account].status = "absent")]
  <2>1. /\ new.pc = "appending" /\ new.row = row /\ new.key = q.key
        /\ new.coll = q.coll /\ new.txn = q.txn /\ new.answer = "none"
        /\ new.create = (accounts[row.account].status = "absent")
    BY <1>1 DEF RequestStates
  <2>2. /\ req' = [req EXCEPT ![r] = new]
        /\ UNCHANGED <<accounts, txns, ledger, collections, policy, approvals>>
    BY <1>2 DEF Snapshot
  <2> HIDE DEF new
  <2> QED BY <1>2, <2>1, <2>2, MovedRequestPosts
<1>3. CASE ReadTransaction(r)
  <2> DEFINE row == [txns[q.txn] EXCEPT
               !.status = "POSTED", !.key = IF q.key = None THEN @ ELSE q.key,
               !.under = policy]
  <2>1. /\ q.coll = None
        /\ txns[q.txn].status = "VALIDATED"
        /\ accounts[txns[q.txn].account].status = "active"
        /\ ApprovalGate(txns[q.txn], q.txn)
        /\ Snapshot(r, row)
    BY <1>3 DEF ReadTransaction, PostingInputs, UsableReferences
  <2>2. txns[q.txn] \in TxnRows
    BY <1>1 DEF FinanceInv, TypeOK
  <2>3. /\ row.under = policy
        /\ row.account = txns[q.txn].account /\ row.type = txns[q.txn].type
        /\ row.amount = txns[q.txn].amount /\ row.source = txns[q.txn].source
        /\ row.key = IF q.key = None THEN txns[q.txn].key ELSE q.key
    BY <2>2 DEF TxnRows
  <2>4. row.source = None
    BY <1>1, <2>1, <2>3 DEF PostingInv, CollectionBookedAsValidated
  <2>5. PassesItsPolicy(row, q.txn)
    BY <2>1, <2>3 DEF PassesItsPolicy, HasApprovals, ApprovalGate, FinanceInv, TypeOK
  <2> HIDE DEF row, q
  <2> QED BY <1>2, <2>1, <2>3, <2>4, <2>5 DEF AsValidated
<1>4. CASE ReadCollection(r)
  <2> DEFINE row ==
       [status |-> "POSTED", type |-> "INCOME",
        account |-> CollectionAccount(q), amount |-> collections[q.coll].total,
        key |-> IF q.key = None THEN CollectionKey[q.coll] ELSE q.key,
        source |-> q.coll, under |-> None]
  <2>1. /\ CollectionInputs(q)
        /\ accounts[CollectionAccount(q)].status # "deleted"
        /\ Snapshot(r, row)
    BY <1>4 DEF ReadCollection
  <2>2. AsValidated(row)
    BY <2>1 DEF AsValidated, CollectionInputs, CollectionPostable
  <2>3. accounts[row.account].status \in {"absent", "active"}
    BY <2>1 DEF CollectionInputs, CollectionAccount
  <2>4. PassesItsPolicy(row, q.txn)
    BY DEF PassesItsPolicy
  <2>5. q.key \in {None, row.key} /\ row.source = q.coll
    OBVIOUS
  <2> HIDE DEF row, q
  <2> QED BY <1>2, <2>1, <2>2, <2>3, <2>4, <2>5
<1> QED BY <1>3, <1>4

-----------------------------------------------------------------------------
(* A booking is of a row that is nowhere else: the unique indexes see to it, *)
(* and the request knows that it was approved or validated.                 *)
LEMMA BooksOnce ==
  ASSUME FinanceInv, PostingInv, NEW r \in Requests, AppendLedger(r)
  PROVE  LET q == req[r]
         IN  /\ q.txn \in Txns /\ q.row.account \in Accounts
             /\ q.row \in TxnRows /\ q.row.status = "POSTED"
             /\ ledger' = ledger \cup {LedgerRow(q)}
             /\ \A e \in ledger : e.txn # q.txn
             /\ txns'[q.txn] = q.row
             /\ \A t \in Txns \ {q.txn} : txns'[t] = txns[t]
             /\ txns[q.txn].status \in {"VALIDATED", "NONE"}
             /\ ~KeyTaken(q.row.key, q.txn)
             /\ q.row.source # None => SourceTxns(q.row.source) \subseteq {q.txn}
             /\ q.key \in {None, q.row.key}
             /\ q.coll # None => q.row.source = q.coll
             /\ AsValidated(q.row)
             /\ PassesItsPolicy(q.row, q.txn)
             /\ accounts'[q.row.account].status = "active"
<1> DEFINE q == req[r]
<1>1. /\ q.txn \in Txns /\ q.row.account \in Accounts
      /\ q.row \in TxnRows /\ q.row.status = "POSTED"
      /\ ledger' = ledger \cup {LedgerRow(q)}
      /\ txns' = [txns EXCEPT ![q.txn] = q.row]
      /\ accounts' = [accounts EXCEPT ![q.row.account] =
                        BookedAccount(accounts[q.row.account], q)]
      /\ txns[q.txn].status \in {"VALIDATED", "NONE"}
  BY Commits
<1>2. q.pc = "appending" /\ q.stale = {} /\ ~UniqueViolation(q)
  BY DEF AppendLedger
<1>3. /\ \A e \in ledger : e.txn # q.txn
      /\ ~KeyTaken(q.row.key, q.txn)
      /\ q.row.source # None => SourceTxns(q.row.source) \subseteq {q.txn}
  BY <1>2 DEF UniqueViolation
<1>4. /\ q.key \in {None, q.row.key}
      /\ q.coll # None => q.row.source = q.coll
      /\ AsValidated(q.row)
      /\ PassesItsPolicy(q.row, q.txn)
      /\ ~q.create => accounts[q.row.account].status = "active"
  BY <1>2 DEF PostingInv, Ready
<1>5. accounts'[q.row.account].status = "active"
  BY <1>1, <1>4 DEF FinanceInv, TypeOK, BookedAccount
<1>6. /\ txns'[q.txn] = q.row
      /\ \A t \in Txns \ {q.txn} : txns'[t] = txns[t]
  BY <1>1 DEF FinanceInv, TypeOK
<1> HIDE DEF q
<1> QED BY <1>1, <1>3, <1>4, <1>5, <1>6 DEF q

(* Booking keeps what postings promise. *)
LEMMA BookingPosts ==
  ASSUME FinanceInv, PostingInv, NEW r \in Requests, AppendLedger(r)
  PROVE  PostingInv'
<1> DEFINE q == req[r]
           row == LedgerRow(q)
           rows == {q.row.account, q.txn}
<1>1. /\ q.txn \in Txns /\ q.row.account \in Accounts
      /\ q.row \in TxnRows /\ q.row.status = "POSTED"
      /\ ledger' = ledger \cup {row}
      /\ \A e \in ledger : e.txn # q.txn
      /\ txns'[q.txn] = q.row
      /\ \A t \in Txns \ {q.txn} : txns'[t] = txns[t]
      /\ txns[q.txn].status \in {"VALIDATED", "NONE"}
      /\ ~KeyTaken(q.row.key, q.txn)
      /\ q.row.source # None => SourceTxns(q.row.source) \subseteq {q.txn}
      /\ AsValidated(q.row)
      /\ PassesItsPolicy(q.row, q.txn)
  BY BooksOnce
<1>2. /\ row.txn = q.txn /\ row.account = q.row.account
      /\ row.type = q.row.type /\ row.amount = q.row.amount
  BY DEF LedgerRow
<1>3. /\ accounts' = [accounts EXCEPT ![q.row.account] =
                        BookedAccount(accounts[q.row.account], q)]
      /\ req' = [Updated(rows) EXCEPT ![r] = Idle("posted")]
      /\ UNCHANGED <<collections, approvals>>
  BY Commits
<1> HIDE DEF row, q
<1>4. PostedIffBooked'
  <2> SUFFICES ASSUME NEW t \in Txns
               PROVE  /\ txns'[t].status = "POSTED" <=> \E e \in ledger' : e.txn = t
                      /\ \A e, f \in ledger' : e.txn = t /\ f.txn = t => e = f
                      /\ \A e \in ledger' : e.txn = t =>
                           /\ e.account = txns'[t].account
                           /\ e.type = txns'[t].type
                           /\ e.amount = txns'[t].amount
    BY DEF PostedIffBooked
  <2>1. CASE t = q.txn
    BY <1>1, <1>2, <2>1
  <2>2. CASE t # q.txn
    <3>1. /\ txns[t].status = "POSTED" <=> \E e \in ledger : e.txn = t
          /\ \A e, f \in ledger : e.txn = t /\ f.txn = t => e = f
          /\ \A e \in ledger : e.txn = t =>
               /\ e.account = txns[t].account
               /\ e.type = txns[t].type
               /\ e.amount = txns[t].amount
      BY DEF PostingInv, PostedIffBooked
    <3> QED BY <1>1, <1>2, <2>2, <3>1
  <2> QED BY <2>1, <2>2
<1>5. NoSharedKeyOrSource'
  <2> SUFFICES ASSUME NEW u \in Txns, txns'[u].status # "NONE"
               PROVE  /\ ~KeyTaken(txns[u].key, u)'
                      /\ txns'[u].source # None => SourceTxns(txns[u].source)' = {u}
    BY DEF NoSharedKeyOrSource
  <2>1. CASE u = q.txn
    <3>1. ~KeyTaken(txns[u].key, u)'
      BY <1>1, <2>1 DEF KeyTaken
    <3>2. txns'[u].source # None => SourceTxns(txns[u].source)' = {u}
      BY <1>1, <2>1 DEF SourceTxns
    <3> QED BY <3>1, <3>2
  <2>2. CASE u # q.txn
    <3>1. txns'[u] = txns[u] /\ txns[u].status # "NONE"
      BY <1>1, <2>2
    <3>2. /\ ~KeyTaken(txns[u].key, u)
          /\ txns[u].source # None => SourceTxns(txns[u].source) = {u}
      BY <3>1 DEF PostingInv, NoSharedKeyOrSource
    <3>3. txns[u].key # None => q.row.key # txns[u].key
      BY <1>1, <2>2, <3>1 DEF KeyTaken
    <3>4. ~KeyTaken(txns[u].key, u)'
      BY <1>1, <3>1, <3>2, <3>3 DEF KeyTaken
    <3>5. txns[u].source # None => q.row.source # txns[u].source
      BY <1>1, <2>2, <3>1 DEF SourceTxns
    <3>6. ASSUME txns[u].source # None PROVE SourceTxns(txns[u].source)' = {u}
      BY <1>1, <2>2, <3>1, <3>2, <3>5, <3>6 DEF SourceTxns
    <3> QED BY <3>1, <3>4, <3>6
  <2> QED BY <2>1, <2>2
<1>6. CollectionBookedAsValidated'
  BY <1>1, <1>3 DEF PostingInv, CollectionBookedAsValidated, AsValidated
<1>7. PostedExpensesWereApproved'
  <2> SUFFICES ASSUME NEW t \in Txns, txns'[t].status = "POSTED"
               PROVE  PassesItsPolicy(txns[t], t)'
    BY DEF PostedExpensesWereApproved
  <2>1. PassesItsPolicy(txns'[t], t)
    BY <1>1 DEF PostingInv, PostedExpensesWereApproved
  <2> QED BY <1>3, <2>1 DEF PassesItsPolicy, HasApprovals, Decided
<1>8. RowsAreCounted'
  <2> SUFFICES ASSUME NEW b \in Accounts
               PROVE  /\ IsFiniteSet(EntriesOf(b)')
                      /\ Cardinality(EntriesOf(b)') = accounts'[b].version - 1
    BY DEF RowsAreCounted
  <2>1. /\ IsFiniteSet(EntriesOf(b))
        /\ Cardinality(EntriesOf(b)) = accounts[b].version - 1
        /\ accounts[b].version \in Nat \ {0}
    BY DEF PostingInv, RowsAreCounted, FinanceInv, TypeOK
  <2>2. CASE b = q.row.account
    <3>1. EntriesOf(b)' = EntriesOf(b) \cup {row} /\ row \notin EntriesOf(b)
      BY <1>1, <1>2, <2>2 DEF EntriesOf
    <3>2. accounts'[b].version = accounts[b].version + 1
      BY <1>3, <2>2 DEF FinanceInv, TypeOK, BookedAccount
    <3>3. /\ IsFiniteSet(EntriesOf(b) \cup {row})
          /\ Cardinality(EntriesOf(b) \cup {row}) = Cardinality(EntriesOf(b)) + 1
      BY <2>1, <3>1, FS_AddElement
    <3> QED BY <2>1, <3>1, <3>2, <3>3
  <2>3. CASE b # q.row.account
    <3>1. EntriesOf(b)' = EntriesOf(b) /\ accounts'[b] = accounts[b]
      BY <1>1, <1>2, <1>3, <2>3 DEF EntriesOf, FinanceInv, TypeOK
    <3> QED BY <2>1, <3>1
  <2> QED BY <2>2, <2>3
<1>9. ASSUME NEW s \in Requests PROVE Ready(req[s])'
  <2>1. CASE s = r
    <3>1. req'[s] = Idle("posted")
      BY <1>3, <2>1 DEF Updated
    <3> QED BY <3>1 DEF Ready, Idle
  <2>2. CASE s # r
    <3>1. req'[s] = Stale(req[s], rows)
      BY <1>3, <2>2 DEF Updated
    <3>2. \A b \in Accounts \ rows : accounts'[b].status = accounts[b].status
      BY <1>3 DEF FinanceInv, TypeOK
    <3>3. \A t \in Txns, n \in Nat : HasApprovals(t, n) => HasApprovals(t, n)'
      BY <1>3 DEF HasApprovals, Decided
    <3>4. rows \in SUBSET (Accounts \cup Txns)
      BY <1>1
    <3>5. \A c \in Collections : collections'[c] = collections[c]
      BY <1>3
    <3>6. TypeOK /\ SnapshotsAreCurrent /\ Ready(req[s])
      BY DEF FinanceInv, PostingInv
    <3> HIDE DEF rows
    <3> QED BY <3>1, <3>2, <3>3, <3>4, <3>5, <3>6, RequestsStay
  <2> QED BY <2>1, <2>2
<1> QED BY <1>4, <1>5, <1>6, <1>7, <1>8, <1>9 DEF PostingInv

-----------------------------------------------------------------------------
(* Nothing is posted at first. *)
LEMMA InitPostings == Init => PostingInv
<1> SUFFICES ASSUME Init PROVE PostingInv
  OBVIOUS
<1> USE DEF Init, FinanceInit
<1>1. \A t \in Txns : txns[t] = NoTxn /\ NoTxn.status = "NONE"
  BY DEF NoTxn
<1>2. PostedIffBooked
  BY <1>1 DEF PostedIffBooked
<1>3. /\ NoSharedKeyOrSource /\ CollectionBookedAsValidated
      /\ PostedExpensesWereApproved
  BY <1>1 DEF NoSharedKeyOrSource, CollectionBookedAsValidated,
              PostedExpensesWereApproved
<1>4. RowsAreCounted
  <2>1. \A a \in Accounts : EntriesOf(a) = {} /\ accounts[a].version = 1
    BY DEF EntriesOf
  <2>2. IsFiniteSet({}) /\ Cardinality({}) = 0
    BY FS_EmptySet
  <2>3. \A a \in Accounts : /\ IsFiniteSet(EntriesOf(a))
                            /\ Cardinality(EntriesOf(a)) = accounts[a].version - 1
    <3> SUFFICES ASSUME NEW a \in Accounts
                 PROVE  /\ IsFiniteSet(EntriesOf(a))
                        /\ Cardinality(EntriesOf(a)) = accounts[a].version - 1
      OBVIOUS
    <3>1. EntriesOf(a) = {} /\ accounts[a].version = 1
      BY <2>1
    <3>2. Cardinality(EntriesOf(a)) = 0
      BY <2>2, <3>1
    <3> HIDE DEF Init, FinanceInit
    <3> QED BY <2>2, <3>1, <3>2
  <2> QED BY <2>3 DEF RowsAreCounted
<1>5. \A r \in Requests : Ready(req[r])
  BY DEF Ready, Idle
<1> QED BY <1>2, <1>3, <1>4, <1>5 DEF PostingInv

(* Every step keeps what postings promise. *)
LEMMA NextPostings == FinanceInv /\ PostingInv /\ [Next]_vars => PostingInv'
<1> SUFFICES ASSUME FinanceInv, PostingInv, [Next]_vars PROVE PostingInv'
  OBVIOUS
<1>1. CASE FinanceNext
  <2>1. ASSUME NEW r \in Requests, Handle(r) PROVE PostingInv'
    BY <2>1, EndsPost, ReadsPost, BookingPosts, StartsPost DEF Handle
  <2> QED BY <1>1, <2>1, AccountsPost, TransactionsPost, StartsPost, EndsPost
      DEF FinanceNext
<1>2. CASE ApprovalNext
  BY <1>2, ApprovalsPost, TransactionsPost
<1>3. CASE \E c \in Collections : CollectionValidated(c)
  BY <1>3, ValidationPosts
<1>4. CASE UNCHANGED vars
  <2>1. UNCHANGED <<accounts, txns, ledger, collections, policy, approvals>>
    BY <1>4 DEF vars
  <2>2. \A r \in Requests : req'[r] = req[r]
    BY <1>4 DEF vars
  <2> QED BY <2>1, <2>2, RequestsPost
<1> QED BY <1>1, <1>2, <1>3, <1>4 DEF Next

(* Postings keep their promises in every state: each is booked once, under a *)
(* key and a source of its own, as validated and as approved.               *)
THEOREM PostingInvariant == Spec => []PostingInv
  BY InitPostings, NextPostings, FinanceInvariant, PTL DEF Spec

(* A transaction is POSTED exactly when one ledger row carries it.          *)
THEOREM PostedExactlyOnce == Spec => []PostedIffBooked
<1>1. PostingInv => PostedIffBooked
  BY DEF PostingInv
<1> QED BY <1>1, PostingInvariant, PTL

(* No two transactions share an idempotency key or a source collection.     *)
THEOREM KeysAndSourcesAreUnique == Spec => []NoSharedKeyOrSource
<1>1. PostingInv => NoSharedKeyOrSource
  BY DEF PostingInv
<1> QED BY <1>1, PostingInvariant, PTL

(* A collection is booked with the amount it was validated with, above zero. *)
THEOREM BookedAsValidated == Spec => []CollectionBookedAsValidated
<1>1. PostingInv => CollectionBookedAsValidated
  BY DEF PostingInv
<1> QED BY <1>1, PostingInvariant, PTL

(* A posted expense satisfies the policy its post has read: its amount needs *)
(* no approvals there, or it has as many as that policy requires.           *)
THEOREM ExpensesWereApproved == Spec => []PostedExpensesWereApproved
<1>1. PostingInv => PostedExpensesWereApproved
  BY DEF PostingInv
<1> QED BY <1>1, PostingInvariant, PTL

(* A step of the finance operations that writes a row is a post, and one that *)
(* writes a transaction is a post, a draft or a decision about one.         *)
LEMMA FinanceWrites ==
  ASSUME FinanceNext
  PROVE  \/ UNCHANGED <<ledger, txns>>
         \/ \E r \in Requests : AppendLedger(r)
         \/ \E t \in Txns : \/ \E c \in Commands : CreateDraft(t, c)
                            \/ ValidateTransaction(t)
                            \/ RejectTransaction(t)
                            \/ VoidDraftTransaction(t)
<1>1. ASSUME NEW r \in Requests, Handle(r)
      PROVE  UNCHANGED <<ledger, txns>> \/ AppendLedger(r)
  <2>1. Replay(r) \/ Refuse(r) \/ InsufficientBalance(r) \/ DuplicateKey(r)
        \/ SerializationFailure(r) \/ GiveUp(r)
        => UNCHANGED <<ledger, txns>>
    BY DEF Replay, Refuse, InsufficientBalance, DuplicateKey, SerializationFailure, GiveUp
  <2>2. ReadTransaction(r) \/ ReadCollection(r) => UNCHANGED <<ledger, txns>>
    BY DEF ReadTransaction, ReadCollection, Snapshot
  <2> QED BY <1>1, <2>1, <2>2 DEF Handle
<1>2. ASSUME NEW a \in Accounts,
             \/ CreateCashAccount(a)
             \/ \E s \in {"active", "inactive"} : UpdateCashAccount(a, s)
             \/ CountLedgerToArchive(a)
             \/ ArchiveCashAccount(a)
      PROVE  UNCHANGED <<ledger, txns>>
  BY <1>2 DEF CreateCashAccount, UpdateCashAccount, CountLedgerToArchive, ArchiveCashAccount
<1>3. ASSUME NEW r, NEW t, NEW c, NEW a, NEW k, SendPost(r, t, k) \/ SendCollection(r, t, c, a, k)
      PROVE  UNCHANGED <<ledger, txns>>
  BY <1>3 DEF SendPost, SendCollection
<1>4. ASSUME NEW type, NEW s, SetCategory(type, s) \/ Crash
      PROVE  UNCHANGED <<ledger, txns>>
  BY <1>4 DEF SetCategory, Crash
<1> QED BY <1>1, <1>2, <1>3, <1>4 DEF FinanceNext

(* Only a post changes the ledger. *)
LEMMA OnlyPostsBook ==
  ASSUME [Next]_vars
  PROVE  ledger' = ledger \/ \E r \in Requests : AppendLedger(r)
<1>1. CASE FinanceNext
  <2>1. ASSUME NEW t \in Txns,
                 \/ \E c \in Commands : CreateDraft(t, c)
                 \/ ValidateTransaction(t)
                 \/ RejectTransaction(t)
                 \/ VoidDraftTransaction(t)
        PROVE  ledger' = ledger
    BY <2>1 DEF CreateDraft, ValidateTransaction, RejectTransaction, VoidDraftTransaction,
         Transition
  <2> QED BY <1>1, <2>1, FinanceWrites
<1>2. CASE ApprovalNext
  BY <1>2 DEF ApprovalNext, UpdatePolicy, RequestApprovals, Approve, RejectApproval,
              CancelApproval
<1>3. CASE \E c \in Collections : CollectionValidated(c)
  BY <1>3 DEF CollectionValidated
<1> QED BY <1>1, <1>2, <1>3 DEF Next, vars

(* What one step may do to the books: at most one row more, on an account    *)
(* that is active, and no posted transaction changes.                       *)
LEMMA StepAppends ==
  ASSUME FinanceInv, PostingInv, Next
  PROVE  /\ ledger \subseteq ledger'
         /\ \A t \in Txns : txns[t].status = "POSTED" => txns'[t] = txns[t]
         /\ \A e, f \in ledger' \ ledger : e = f
         /\ \A e \in ledger' \ ledger : accounts'[e.account].status = "active"
<1>1. ASSUME NEW r \in Requests, AppendLedger(r)
      PROVE  /\ ledger \subseteq ledger'
             /\ \A t \in Txns : txns[t].status = "POSTED" => txns'[t] = txns[t]
             /\ \A e, f \in ledger' \ ledger : e = f
             /\ \A e \in ledger' \ ledger : accounts'[e.account].status = "active"
  BY <1>1, BooksOnce DEF LedgerRow
<1>2. ASSUME ledger' = ledger, NEW t \in Txns, txns[t].status # "POSTED",
             \A u \in Txns \ {t} : txns'[u] = txns[u]
      PROVE  /\ ledger \subseteq ledger'
             /\ \A u \in Txns : txns[u].status = "POSTED" => txns'[u] = txns[u]
             /\ \A e, f \in ledger' \ ledger : e = f
             /\ \A e \in ledger' \ ledger : accounts'[e.account].status = "active"
  BY <1>2
<1>3. CASE UNCHANGED <<ledger, txns>>
  BY <1>3
<1>4. ASSUME NEW t \in Txns,
             \/ \E c \in Commands : CreateDraft(t, c)
             \/ ValidateTransaction(t)
             \/ RejectTransaction(t)
             \/ VoidDraftTransaction(t)
             \/ \E p \in Approvers : RejectApproval(t, p)
      PROVE  /\ ledger' = ledger /\ txns[t].status # "POSTED"
             /\ \A u \in Txns \ {t} : txns'[u] = txns[u]
  BY <1>4 DEF CreateDraft, UnusedIds, ValidateTransaction, RejectTransaction,
              VoidDraftTransaction, Transition, RejectApproval, FinanceInv, TypeOK
<1>5. \/ UNCHANGED <<ledger, txns>>
      \/ \E r \in Requests : AppendLedger(r)
      \/ \E t \in Txns : \/ \E c \in Commands : CreateDraft(t, c)
                         \/ ValidateTransaction(t)
                         \/ RejectTransaction(t)
                         \/ VoidDraftTransaction(t)
                         \/ \E p \in Approvers : RejectApproval(t, p)
  <2>1. CASE FinanceNext
    BY <2>1, FinanceWrites
  <2>2. CASE ApprovalNext
    BY <2>2 DEF ApprovalNext, UpdatePolicy, RequestApprovals, Approve, CancelApproval
  <2>3. CASE \E c \in Collections : CollectionValidated(c)
    BY <2>3 DEF CollectionValidated
  <2> QED BY <2>1, <2>2, <2>3 DEF Next
<1> QED BY <1>1, <1>2, <1>3, <1>4, <1>5

(* The ledger only grows, by one row a step and on a usable account, and a   *)
(* posted transaction never changes.                                        *)
THEOREM BooksOnlyGrow == Spec => AppendOnly
<1>1. FinanceInv /\ PostingInv /\ [Next]_vars =>
        [/\ ledger \subseteq ledger'
         /\ \A t \in Txns : txns[t].status = "POSTED" => txns'[t] = txns[t]
         /\ \A e, f \in ledger' \ ledger : e = f
         /\ \A e \in ledger' \ ledger : accounts'[e.account].status = "active"]_vars
  BY StepAppends
<1> QED BY <1>1, FinanceInvariant, PostingInvariant, PTL DEF Spec, AppendOnly

(* What one step may tell the client of a request.                          *)
LEMMA StepAnswers ==
  ASSUME FinanceInv, PostingInv, Next, NEW s \in Requests,
         req'[s].answer \in {"posted", "replayed"}, req[s].pc # "idle"
  PROVE  \E t \in Txns :
           /\ txns'[t].status = "POSTED"
           /\ IF req[s].coll = None THEN t = req[s].txn
                                    ELSE txns'[t].source = req[s].coll
           /\ req[s].key \in {None, txns'[t].key}
<1>1. req[s].answer = "none" /\ req[s] \in RequestStates
  BY DEF PostingInv, Ready, FinanceInv, TypeOK
<1>2. \A rows \in SUBSET (Accounts \cup Txns) : Stale(req[s], rows).answer = "none"
  BY <1>1, StaleKeeps
<1>3. CASE AppendLedger(s)
  <2>1. /\ req[s].txn \in Txns
        /\ txns'[req[s].txn] = req[s].row
        /\ req[s].row.status = "POSTED"
        /\ req[s].key \in {None, req[s].row.key}
        /\ req[s].coll # None => req[s].row.source = req[s].coll
    BY <1>3, BooksOnce
  <2> QED BY <2>1
<1>4. CASE Replay(s)
  <2>1. PICK t \in Existing(req[s]) :
          req' = Answer(s, IF /\ KeyMatches(req[s].key, txns[t].key)
                              /\ txns[t].status = "POSTED"
                           THEN "replayed" ELSE "conflict", {})
    BY <1>4 DEF Replay
  <2>2. KeyMatches(req[s].key, txns[t].key) /\ txns[t].status = "POSTED"
    <3>1. req'[s] = Idle(IF /\ KeyMatches(req[s].key, txns[t].key)
                            /\ txns[t].status = "POSTED"
                         THEN "replayed" ELSE "conflict")
      BY <2>1 DEF Answer, Updated
    <3>2. Idle("conflict").answer = "conflict"
      BY DEF Idle
    <3> QED BY <3>1, <3>2
  <2>3. t \in Txns /\ IF req[s].coll = None THEN t = req[s].txn
                                            ELSE txns[t].source = req[s].coll
    BY <1>4 DEF Existing, SourceTxns, Replay, FinanceInv, SnapshotsAreCurrent
  <2>4. txns' = txns
    BY <1>4 DEF Replay
  <2> QED BY <2>2, <2>3, <2>4 DEF KeyMatches
<1>5. ASSUME NEW r \in Requests, AppendLedger(r), r # s PROVE FALSE
  <2>1. req'[s] = Stale(req[s], {req[r].row.account, req[r].txn})
    BY <1>5, Commits DEF Updated
  <2>2. {req[r].row.account, req[r].txn} \in SUBSET (Accounts \cup Txns)
    BY <1>5, Commits
  <2> QED BY <1>2, <2>1, <2>2
<1>6. ASSUME NEW r \in Requests, NEW x \in {"replayed", "refused", "conflict"},
             req' = Answer(r, x, {}), r # s \/ x # "replayed"
      PROVE  FALSE
  <2>1. req' = [req EXCEPT ![r] = Idle(x)]
    BY <1>6, NobodyStale DEF Answer, FinanceInv
  <2>2. req'[s] = IF s = r THEN Idle(x) ELSE req[s]
    BY <2>1 DEF FinanceInv, TypeOK
  <2>3. Idle(x).answer = x
    BY DEF Idle
  <2> QED BY <1>1, <1>6, <2>2, <2>3
<1>7. ASSUME NEW r \in Requests,
             \/ Refuse(r) \/ InsufficientBalance(r) \/ GiveUp(r)
             \/ r # s /\ Replay(r)
      PROVE  FALSE
  <2>1. CASE Refuse(r) \/ InsufficientBalance(r) \/ GiveUp(r)
    <3>1. \E x \in {"refused", "conflict"} : req' = Answer(r, x, {})
      BY <2>1 DEF Refuse, InsufficientBalance, GiveUp
    <3> QED BY <1>6, <3>1
  <2>2. CASE r # s /\ Replay(r)
    <3>1. \E x \in {"replayed", "conflict"} : req' = Answer(r, x, {})
      BY <2>2 DEF Replay
    <3> QED BY <1>6, <2>2, <3>1
  <2> QED BY <1>7, <2>1, <2>2
<1>8. ASSUME NEW rows \in SUBSET (Accounts \cup Txns), req' = Updated(rows) PROVE FALSE
  BY <1>2, <1>8 DEF Updated
<1>9. ASSUME req'[s] = req[s] PROVE FALSE
  BY <1>1, <1>9
<1>10. ASSUME NEW r \in Requests,
              \/ \E t, k : SendPost(r, t, k)
              \/ \E t, c, a, k : SendCollection(r, t, c, a, k)
       PROVE  FALSE
  <2>1. r # s /\ \A u \in Requests \ {r} : req'[u] = req[u]
    BY <1>10 DEF SendPost, SendCollection, FinanceInv, TypeOK
  <2> QED BY <1>9, <2>1
<1>11. ASSUME NEW r \in Requests, DuplicateKey(r) \/ SerializationFailure(r) PROVE FALSE
  <2> DEFINE failed == [Idle("none") EXCEPT !.pc = "failing", !.txn = req[r].txn,
                                            !.coll = req[r].coll, !.key = req[r].key]
             again == [Idle("none") EXCEPT !.pc = "begin", !.txn = req[r].txn,
                         !.coll = req[r].coll, !.key = req[r].key,
                         !.want = req[r].want, !.attempt = req[r].attempt + 1]
  <2>1. failed.answer = "none" /\ again.answer = "none"
    BY DEF Idle
  <2>2. \/ req' = [req EXCEPT ![r] = failed]
        \/ req' = [req EXCEPT ![r] = again]
    BY <1>11 DEF DuplicateKey, SerializationFailure, Failing
  <2> HIDE DEF failed, again
  <2>3. req'[s] \in {req[s], failed, again}
    BY <2>2 DEF FinanceInv, TypeOK
  <2> QED BY <1>9, <2>1, <2>3
<1>12. ASSUME NEW r \in Requests, ReadTransaction(r) \/ ReadCollection(r) PROVE FALSE
  <2>1. PICK row : Snapshot(r, row)
    BY <1>12 DEF ReadTransaction, ReadCollection
  <2>2. req'[s].answer = req[s].answer
    BY <1>1, <2>1 DEF Snapshot, FinanceInv, TypeOK, RequestStates
  <2> QED BY <1>1, <2>2
<1>13. ASSUME NEW a \in Accounts,
              \/ CreateCashAccount(a)
              \/ \E x \in {"active", "inactive"} : UpdateCashAccount(a, x)
              \/ ArchiveCashAccount(a)
       PROVE  FALSE
  BY <1>8, <1>13 DEF CreateCashAccount, UpdateCashAccount, ArchiveCashAccount
<1>14. ASSUME NEW t \in Txns,
              \/ ValidateTransaction(t)
              \/ RejectTransaction(t)
              \/ VoidDraftTransaction(t)
              \/ \E p \in Approvers : RejectApproval(t, p)
       PROVE  FALSE
  BY <1>8, <1>14 DEF ValidateTransaction, RejectTransaction, VoidDraftTransaction,
                     Transition, RejectApproval
<1>15. ASSUME Crash PROVE FALSE
  <2>1. req'[s] = Idle("lost")
    BY <1>15 DEF Crash
  <2> QED BY <2>1 DEF Idle
<1>16. CASE req' = req
  BY <1>9, <1>16
<1>17. CASE FinanceNext /\ req' # req
  <2>1. ASSUME NEW r \in Requests, Handle(r) PROVE AppendLedger(s) \/ Replay(s)
    BY <2>1, <1>5, <1>7, <1>11, <1>12 DEF Handle
  <2>2. req' # req => ~(\E t \in Txns, c \in Commands : CreateDraft(t, c))
                      /\ ~(\E a \in Accounts : CountLedgerToArchive(a))
                      /\ ~(\E type, x : SetCategory(type, x))
    BY DEF CreateDraft, CountLedgerToArchive, SetCategory
  <2> QED BY <1>3, <1>4, <1>10, <1>13, <1>14, <1>15, <1>17, <2>1, <2>2 DEF FinanceNext
<1>18. CASE ~FinanceNext /\ req' # req
  BY <1>14, <1>18 DEF Next, ApprovalNext, UpdatePolicy, RequestApprovals, Approve,
                      CancelApproval, CollectionValidated
<1> QED BY <1>16, <1>17, <1>18

(* Success is never answered for nothing: the transaction is posted, with    *)
(* the source and under the key of the request.                             *)
THEOREM AnswersAreTrue == Spec => SuccessMeansPosted
<1>1. FinanceInv /\ PostingInv /\ [Next]_vars =>
        [\A r \in Requests :
           req'[r].answer \in {"posted", "replayed"} /\ req[r].pc # "idle" =>
             \E t \in Txns :
               /\ txns'[t].status = "POSTED"
               /\ IF req[r].coll = None THEN t = req[r].txn
                                        ELSE txns'[t].source = req[r].coll
               /\ req[r].key \in {None, txns'[t].key}]_vars
  BY StepAnswers
<1> QED BY <1>1, FinanceInvariant, PostingInvariant, PTL DEF Spec, SuccessMeansPosted

-----------------------------------------------------------------------------
(* The ledger as a cash book. *)

(* In rows numbered without a gap and once each, the row of a number is     *)
(* there, and it is the only one.                                           *)
LEMMA RowsByNumber ==
  ASSUME NEW S, NEW n \in Nat, {e.seq : e \in S} = 1 .. n,
         \A e, f \in S : e.seq = f.seq => e = f,
         NEW i \in 1 .. n
  PROVE  /\ (CHOOSE e \in S : e.seq = i) \in S
         /\ (CHOOSE e \in S : e.seq = i).seq = i
         /\ \A e \in S : e.seq = i => e = CHOOSE f \in S : f.seq = i
<1>1. \E e \in S : e.seq = i
  OBVIOUS
<1>2. /\ (CHOOSE e \in S : e.seq = i) \in S
      /\ (CHOOSE e \in S : e.seq = i).seq = i
  BY <1>1
<1> QED BY <1>2

(* The book of an account has a line per row, and ends in the balance that  *)
(* the account mirrors.                                                     *)
RightBook(a) ==
  /\ Book[a] \in Seq(Promise!Line)
  /\ Len(Book[a]) = accounts[a].version - 1
  /\ \A n \in 1 .. Len(Book[a]) :
       /\ Book[a][n] = LineOf(RowAt(a, n))
       /\ RowAt(a, n) \in EntriesOf(a)
       /\ RowAt(a, n).seq = n
       /\ \A e \in EntriesOf(a) : e.seq = n => e = RowAt(a, n)
  /\ Promise!BalanceOf(Book[a]) = accounts[a].balance

BookIsRight == \A a \in Accounts : RightBook(a)

LEMMA BooksAreBooks == FinanceInv /\ PostingInv => BookIsRight
<1> SUFFICES ASSUME FinanceInv, PostingInv, NEW a \in Accounts
             PROVE  /\ Book[a] \in Seq(Promise!Line)
                    /\ Len(Book[a]) = accounts[a].version - 1
                    /\ \A n \in 1 .. Len(Book[a]) :
                         /\ Book[a][n] = LineOf(RowAt(a, n))
                         /\ RowAt(a, n) \in EntriesOf(a)
                         /\ RowAt(a, n).seq = n
                         /\ \A e \in EntriesOf(a) : e.seq = n => e = RowAt(a, n)
                    /\ Promise!BalanceOf(Book[a]) = accounts[a].balance
  BY DEF BookIsRight, RightBook
<1> DEFINE n == accounts[a].version - 1
<1>1. n \in Nat
  BY DEF FinanceInv, TypeOK
<1>2. Cardinality(EntriesOf(a)) = n
  BY DEF PostingInv, RowsAreCounted
<1>3. Book[a] = [i \in 1 .. n |-> LineOf(RowAt(a, i))]
  BY <1>2 DEF Book
<1>4. ASSUME NEW i \in 1 .. n
      PROVE  /\ RowAt(a, i) \in ledger /\ RowAt(a, i) \in EntriesOf(a)
             /\ RowAt(a, i).seq = i
             /\ \A e \in EntriesOf(a) : e.seq = i => e = RowAt(a, i)
  <2>1. /\ {e.seq : e \in EntriesOf(a)} = 1 .. n
        /\ \A e, f \in EntriesOf(a) : e.seq = f.seq => e = f
    BY DEF FinanceInv, SequenceContinuity
  <2> HIDE DEF n
  <2>2. /\ RowAt(a, i) \in EntriesOf(a)
        /\ RowAt(a, i).seq = i
        /\ \A e \in EntriesOf(a) : e.seq = i => e = RowAt(a, i)
    BY <1>1, <2>1, RowsByNumber DEF RowAt
  <2> QED BY <2>2 DEF EntriesOf
<1>5. \A i \in 1 .. n : Book[a][i] \in Promise!Line
  BY <1>3, <1>4 DEF LineOf, Promise!Line, FinanceInv, TypeOK, LedgerRows, Types
<1> HIDE DEF n
<1>6. Book[a] \in Seq(Promise!Line) /\ Len(Book[a]) = n
  BY <1>1, <1>3, <1>5
<1>7. Promise!BalanceOf(Book[a]) = accounts[a].balance
  <2>1. accounts[a].balance = LatestBalance(a)
    BY DEF FinanceInv, MirroredBalance
  <2>2. /\ EntriesOf(a) = {} <=> n = 0
        /\ EntriesOf(a) # {} =>
             LatestEntry(a) \in EntriesOf(a) /\ LatestEntry(a).seq = n
    BY <1>1, LatestIsLast DEF FinanceInv, TypeOK, n
  <2>3. CASE n = 0
    BY <1>6, <2>1, <2>2, <2>3 DEF Promise!BalanceOf, LatestBalance
  <2>4. CASE n # 0
    <3>1. n \in 1 .. n
      BY <1>1, <2>4
    <3>2. LatestEntry(a) = RowAt(a, n)
      BY <1>4, <2>2, <2>4, <3>1
    <3>3. Book[a][n].balance = RowAt(a, n).after /\ Book[a] # <<>>
      BY <1>3, <1>6, <2>4, <3>1 DEF LineOf
    <3> QED BY <1>6, <2>1, <2>2, <2>4, <3>2, <3>3 DEF Promise!BalanceOf, LatestBalance
  <2> QED BY <2>3, <2>4
<1> QED BY <1>3, <1>4, <1>6, <1>7 DEF n

LEMMA BooksStayBooks == FinanceInv' /\ PostingInv' => BookIsRight'
  BY BooksAreBooks, PTL

(* What a booking adds to the rows of one account.                          *)
LEMMA BookedRow ==
  ASSUME FinanceInv, PostingInv, NEW r \in Requests, AppendLedger(r),
         NEW a, a = req[r].row.account, NEW row, row = LedgerRow(req[r]),
         NEW n, n = accounts[a].version - 1
  PROVE  /\ a \in Accounts /\ row.txn \in Txns
         /\ n \in Nat /\ accounts'[a].version - 1 = n + 1
         /\ row.seq = n + 1
         /\ row.type \in Types /\ row.amount \in Nat \ {0} /\ row.after \in Nat
         /\ row.after = Promise!Moved(accounts[a].balance, row)
         /\ ledger' = ledger \cup {row}
         /\ \A e \in ledger : e.txn # row.txn
         /\ EntriesOf(a)' = EntriesOf(a) \cup {row}
         /\ \A b \in Accounts \ {a} : EntriesOf(b)' = EntriesOf(b)
<1> DEFINE q == req[r]
<1>1. /\ a \in Accounts /\ q.txn \in Txns
      /\ q.row \in TxnRows /\ q.row.amount > 0
      /\ accounts' = [accounts EXCEPT ![a] = BookedAccount(accounts[a], q)]
      /\ ledger' = ledger \cup {row}
      /\ q.balance = accounts[a].balance
  BY Commits
<1>2. \A e \in ledger : e.txn # q.txn
  BY BooksOnce
<1>3. /\ row.seq = accounts[a].version
      /\ row.after = BalanceAfter(q)
      /\ EntriesOf(a)' = EntriesOf(a) \cup {row}
      /\ \A b \in Accounts \ {a} : EntriesOf(b)' = EntriesOf(b)
      /\ row \in LedgerRows
  BY NextRow
<1>4. row.txn = q.txn
  BY DEF LedgerRow
<1>5. accounts[a].version \in Nat \ {0} /\ accounts[a].balance \in Nat
  BY <1>1 DEF FinanceInv, TypeOK
<1>6. accounts'[a].version = accounts[a].version + 1
  BY <1>1 DEF FinanceInv, TypeOK, BookedAccount
<1>7. n \in Nat /\ accounts'[a].version - 1 = n + 1 /\ row.seq = n + 1
  BY <1>3, <1>5, <1>6
<1>8. BalanceAfter(q) = Promise!Moved(accounts[a].balance, row)
  <2>1. row.type = q.row.type /\ row.amount = q.row.amount
    BY DEF LedgerRow
  <2> QED BY <1>1, <2>1 DEF BalanceAfter, Promise!Moved
<1>9. row.type \in Types /\ row.amount \in Nat \ {0} /\ row.after \in Nat
  BY <1>3 DEF LedgerRows
<1> QED BY <1>1, <1>2, <1>3, <1>4, <1>7, <1>8, <1>9

(* A booking appends a line to one book and leaves the others.              *)
LEMMA BookingIsAPost ==
  ASSUME FinanceInv, PostingInv, NEW r \in Requests, AppendLedger(r)
  PROVE  Promise!Next
<1> PICK a : a = req[r].row.account
  OBVIOUS
<1> PICK row : row = LedgerRow(req[r])
  OBVIOUS
<1> PICK n : n = accounts[a].version - 1
  OBVIOUS
<1>1. FinanceInv' /\ PostingInv'
  BY Booking, BookingPosts
<1>2. BookIsRight /\ BookIsRight'
  BY <1>1, BooksAreBooks, BooksStayBooks
<1>3. /\ a \in Accounts /\ row.txn \in Txns
      /\ n \in Nat /\ accounts'[a].version - 1 = n + 1
      /\ row.seq = n + 1
      /\ row.type \in Types /\ row.amount \in Nat \ {0} /\ row.after \in Nat
      /\ row.after = Promise!Moved(accounts[a].balance, row)
      /\ \A e \in ledger : e.txn # row.txn
      /\ EntriesOf(a)' = EntriesOf(a) \cup {row}
      /\ \A b \in Accounts \ {a} : EntriesOf(b)' = EntriesOf(b)
  BY BookedRow
<1>4. /\ Book[a] \in Seq(Promise!Line) /\ Len(Book[a]) = n
      /\ \A i \in 1 .. n :
           /\ Book[a][i] = LineOf(RowAt(a, i))
           /\ RowAt(a, i) \in EntriesOf(a) /\ RowAt(a, i).seq = i
      /\ Promise!BalanceOf(Book[a]) = accounts[a].balance
  <2>0. RightBook(a)
    BY <1>2, <1>3 DEF BookIsRight
  <2>1. Book[a] \in Seq(Promise!Line) /\ Len(Book[a]) = n
    BY <1>3, <2>0 DEF RightBook
  <2>2. /\ \A i \in 1 .. Len(Book[a]) :
             /\ Book[a][i] = LineOf(RowAt(a, i))
             /\ RowAt(a, i) \in EntriesOf(a) /\ RowAt(a, i).seq = i
        /\ Promise!BalanceOf(Book[a]) = accounts[a].balance
    BY <2>0 DEF RightBook
  <2> QED BY <2>1, <2>2
<1>5. /\ Book'[a] \in Seq(Promise!Line) /\ Len(Book'[a]) = n + 1
      /\ \A i \in 1 .. n + 1 :
           /\ Book'[a][i] = LineOf(RowAt(a, i)')
           /\ \A e \in EntriesOf(a)' : e.seq = i => e = RowAt(a, i)'
  <2>0. RightBook(a)'
    BY <1>2, <1>3 DEF BookIsRight
  <2>1. Book'[a] \in Seq(Promise!Line) /\ Len(Book'[a]) = n + 1
    BY <1>3, <2>0 DEF RightBook
  <2>2. \A i \in 1 .. Len(Book'[a]) :
          /\ Book'[a][i] = LineOf(RowAt(a, i)')
          /\ \A e \in EntriesOf(a)' : e.seq = i => e = RowAt(a, i)'
    BY <2>0 DEF RightBook
  <2> QED BY <2>1, <2>2
<1>6. ASSUME NEW b \in Accounts \ {a} PROVE Book'[b] = Book[b]
  <2>1. EntriesOf(b)' = EntriesOf(b)
    BY <1>3
  <2>2. \A i : RowAt(b, i)' = RowAt(b, i)
    BY <2>1 DEF RowAt
  <2> QED BY <2>1, <2>2 DEF Book
<1>7. ASSUME NEW i \in 1 .. n PROVE RowAt(a, i)' = RowAt(a, i)
  <2>1. RowAt(a, i) \in EntriesOf(a)' /\ RowAt(a, i).seq = i
    BY <1>3, <1>4
  <2>2. i \in 1 .. n + 1
    BY <1>3
  <2> QED BY <1>5, <2>1, <2>2
<1>8. RowAt(a, n + 1)' = row
  <2>1. n + 1 \in 1 .. n + 1
    BY <1>3
  <2> QED BY <1>3, <1>5, <2>1
<1>9. DOMAIN Book[a] = 1 .. n /\ \A i \in 1 .. n : Book'[a][i] = Book[a][i]
  <2>1. ASSUME NEW i \in 1 .. n PROVE Book'[a][i] = Book[a][i]
    <3>1. i \in 1 .. n + 1
      BY <1>3
    <3>2. Book'[a][i] = LineOf(RowAt(a, i)')
      BY <1>5, <3>1
    <3>3. Book[a][i] = LineOf(RowAt(a, i))
      BY <1>4
    <3>4. RowAt(a, i)' = RowAt(a, i)
      BY <1>7
    <3> QED BY <3>2, <3>3, <3>4, Zenon
  <2>2. DOMAIN Book[a] = 1 .. n
    <3>1. Book[a] \in Seq(Promise!Line) /\ Len(Book[a]) = n
      BY <1>4
    <3> QED BY <3>1
  <2> QED BY <2>1, <2>2
<1>10. Book'[a][n + 1] = LineOf(row)
  <2>1. n + 1 \in 1 .. n + 1
    BY <1>3
  <2> QED BY <1>5, <1>8, <2>1
<1>11. LineOf(row) \in Promise!Line
  BY <1>3 DEF LineOf, Promise!Line, Types
<1>12. row.txn \notin Promise!Booked
  <2> SUFFICES ASSUME NEW b \in Accounts, NEW i \in DOMAIN Book[b]
               PROVE  Book[b][i].txn # row.txn
    BY DEF Promise!Booked
  <2>0. RightBook(b)
    BY <1>2 DEF BookIsRight
  <2>1. Book[b] \in Seq(Promise!Line)
    BY <2>0 DEF RightBook
  <2>2. i \in 1 .. Len(Book[b])
    BY <2>1
  <2>3. /\ Book[b][i] = LineOf(RowAt(b, i))
        /\ RowAt(b, i) \in EntriesOf(b)
    BY <2>0, <2>2 DEF RightBook
  <2> QED BY <1>3, <2>3 DEF EntriesOf, LineOf
<1>13. Promise!Post(a, row.txn)
  <2>1. Book'[a][Len(Book'[a])] = LineOf(row)
    BY <1>5, <1>10
  <2>2. Len(Book'[a]) = Len(Book[a]) + 1
    BY <1>4, <1>5
  <2>3. row.after = Promise!Moved(Promise!BalanceOf(Book[a]), row)
    BY <1>3, <1>4
  <2>4. \A i \in DOMAIN Book[a] : Book'[a][i] = Book[a][i]
    BY <1>9, Zenon
  <2> DEFINE line == Book'[a][Len(Book'[a])]
  <2>5. /\ line \in Promise!Line /\ line.txn = row.txn /\ line.balance = row.after
        /\ line.type = row.type /\ line.amount = row.amount
    BY <1>11, <2>1 DEF LineOf
  <2> HIDE DEF line
  <2>6. line.balance = Promise!Moved(Promise!BalanceOf(Book[a]), line)
    BY <2>3, <2>5 DEF Promise!Moved
  <2>7. \A b \in Accounts \ {a} : Book'[b] = Book[b]
    BY <1>6, Zenon
  <2> QED BY <1>12, <2>2, <2>4, <2>5, <2>6, <2>7, Zenon DEF Promise!Post, line
<1> QED BY <1>3, <1>13 DEF Promise!Next

(* The ledger implements the cash book: whatever else happens, an account's  *)
(* book gets a line at a time, each transaction has at most one line over   *)
(* all books, and lines stay as they were written.                          *)
THEOREM LedgerImplementsCashBook == Spec => LedgerIsACashBook
<1>1. Init => Promise!Init
  <2> SUFFICES ASSUME Init PROVE Book = [a \in Accounts |-> <<>>]
    BY DEF Promise!Init
  <2> SUFFICES ASSUME NEW a \in Accounts PROVE Book[a] = <<>>
    BY DEF Book
  <2>1. FinanceInv /\ PostingInv /\ BookIsRight
    BY InitInv, InitPostings, BooksAreBooks
  <2>2. accounts[a].version = 1
    BY DEF Init, FinanceInit
  <2>3. Book[a] \in Seq(Promise!Line) /\ Len(Book[a]) = 0
    BY <2>1, <2>2 DEF BookIsRight, RightBook
  <2> QED BY <2>3
<1>2. FinanceInv /\ PostingInv /\ [Next]_vars => [Promise!Next]_Book
  <2> SUFFICES ASSUME FinanceInv, PostingInv, [Next]_vars
               PROVE  Promise!Next \/ Book' = Book
    OBVIOUS
  <2>1. CASE \E r \in Requests : AppendLedger(r)
    BY <2>1, BookingIsAPost
  <2>2. CASE ledger' = ledger
    BY <2>2 DEF Book, EntriesOf, RowAt
  <2> QED BY <2>1, <2>2, OnlyPostsBook
<1> QED BY <1>1, <1>2, FinanceInvariant, PostingInvariant, PTL
    DEF Spec, LedgerIsACashBook, Promise!Spec
=============================================================================
