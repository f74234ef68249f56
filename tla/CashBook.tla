------------------------------ MODULE CashBook ------------------------------
(***************************************************************************)
(* What the cash ledger promises: one book per cash account, to which      *)
(* transactions are appended one at a time, each at most once over all     *)
(* books.  A line moves the balance of the line before it by its amount,   *)
(* never below zero.  Nothing is ever taken out or reordered, not even      *)
(* when an account is archived.                                            *)
(***************************************************************************)
EXTENDS Naturals, Sequences

CONSTANTS Accounts, Txns

VARIABLE book  (* per account, the lines in the order they were booked *)

Line == [txn: Txns, type: {"INCOME", "EXPENSE"}, amount: Nat \ {0}, balance: Nat]

BalanceOf(lines) == IF lines = <<>> THEN 0 ELSE lines[Len(lines)].balance

Moved(balance, line) ==
  IF line.type = "EXPENSE" THEN balance - line.amount ELSE balance + line.amount

Booked == {t \in Txns : \E a \in Accounts :
             \E i \in DOMAIN book[a] : book[a][i].txn = t}

Init == book = [a \in Accounts |-> <<>>]

(* Transaction t moves the balance of account a. *)
Post(a, t) ==
  /\ t \notin Booked
  /\ \A b \in Accounts \ {a} : book'[b] = book[b]
  /\ Len(book'[a]) = Len(book[a]) + 1
  /\ \A i \in DOMAIN book[a] : book'[a][i] = book[a][i]
  /\ LET line == book'[a][Len(book'[a])] IN
       /\ line \in Line
       /\ line.txn = t
       /\ line.balance = Moved(BalanceOf(book[a]), line)

Next == \E a \in Accounts, t \in Txns : Post(a, t)

Spec == Init /\ [][Next]_book
=============================================================================
