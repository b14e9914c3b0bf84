------------------------------ MODULE Reconcile ------------------------------
(****************************************************************************)
(* The queries of internal/reconcile.  Each one is a single statement and   *)
(* therefore reads one snapshot of the committed rows: A are the accounts   *)
(* rows, T the transfers rows, E the ledger_entries rows it sees.           *)
(*                                                                          *)
(* Where two definitions of one thing stand together, the first is a        *)
(* mutation that the properties are tried against, as in Posting.           *)
(****************************************************************************)
EXTENDS Books

Present(A) == { a \in Accounts : A[a] # NoRow }

(* LEFT JOIN ledger_entries e ON e.account_id = a.id; SUM(e.amount_minor).  *)
LedgerMinor(E, a) == SumOf({ e \in E : e.account = a })

(* SnapshotBaseline: the part of each balance that no entry explains.  An   *)
(* account that is not in the map reads as zero.                            *)
StoredBalances(A, E) ==
    [a \in Accounts |-> IF A[a] = NoRow THEN 0 ELSE A[a].balance]
SnapshotBaseline(A, E) ==
    [a \in Accounts |->
        IF A[a] = NoRow THEN 0 ELSE A[a].balance - LedgerMinor(E, a)]

(* SELECT SUM(balance_minor) FROM accounts.                                 *)
TotalBalance(A) ==
    MapThenSumSet(LAMBDA a : A[a].balance, Present(A))

(* countTotals, as far as a verdict depends on it.                          *)
countTotals(T, E) ==
    [completed |-> Cardinality({ t \in T : t.status = "completed" }),
     ledger    |-> SumOf(E)]

findNegativeBalances(A) == { a \in Present(A) : A[a].balance < 0 }

(* The WHERE clause over the per_transfer aggregates of transfer t, whose   *)
(* entries are S.                                                           *)
NoCheckOfSides(t, S) ==
    \/ Cardinality(S) # 2
    \/ SumOf(S) # 0
    \/ Cardinality({ e \in S : e.amount < 0 }) # 1
    \/ Cardinality({ e \in S : e.amount > 0 }) # 1
    \/ \E e \in S : e.currency # t.currency
    \/ \E e \in S : e.account \notin {t.src, t.dst}

Offends(t, S) ==
    \/ Cardinality(S) # 2
    \/ SumOf(S) # 0
    \/ Cardinality({ e \in S : e.amount < 0 }) # 1
    \/ Cardinality({ e \in S : e.amount > 0 }) # 1
    \/ \E e \in S : e.currency # t.currency
    \/ \E e \in S : e.account # t.src /\ e.account # t.dst
    \/ \E e \in S : e.account = t.src /\ e.amount # -t.amount
    \/ \E e \in S : e.account = t.dst /\ e.amount # t.amount

findUnbalancedTransfers(T, E) ==
    { t \in T : /\ t.status = "completed"
                /\ Offends(t, { e \in E : e.transfer = t.id }) }

NoMismatches(A, E, baseline) == {}
findBalanceMismatches(A, E, baseline) ==
    { a \in Present(A) : A[a].balance # baseline[a] + LedgerMinor(E, a) }
==============================================================================
