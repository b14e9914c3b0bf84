----------------------------- MODULE PostingProps ----------------------------
(****************************************************************************)
(* The correctness properties of Posting.                                   *)
(****************************************************************************)
EXTENDS Posting

(* Every variable has its type.  For accounts this is the schema's          *)
(* accounts_balance_non_negative and the BIGINT range: no committed balance *)
(* is negative or beyond MaxBalance, whatever commits in whatever order.    *)
TypeOK ==
    /\ accounts \in [Accounts -> Row \cup {NoRow}]
    /\ transfers \subseteq Transfer
    /\ entries \subseteq Entry
    /\ req \in [Calls -> Request \cup {NoReq}]
    /\ known \in [Calls -> SUBSET Accounts]
    /\ answer \in [Calls -> Outcomes \cup {Pending}]
    /\ lock \in [Accounts -> Calls \cup {NoCall}]
    /\ pc \in [Calls -> InTx \cup {"idle", "begin", "backoff", "done"}]
    /\ attempt \in [Calls -> 0 .. MaxAttempts]
    /\ tx \in [Calls -> {"none", "active", "committing"}]
    /\ view \in [Calls -> [Accounts -> Row \cup {NoRow}]]
    /\ stale \in [Calls -> SUBSET Accounts]
    /\ new \in [Calls -> Transfer \cup {NoTransfer}]
    /\ legs \in [Calls -> SUBSET Entry]

(****************************************************************************)
(* The books                                                                *)
(****************************************************************************)
Baseline(a) == IF Opening[a] = NoRow THEN 0 ELSE Opening[a].balance

(* reconcile.findBalanceMismatches finds nothing, at any moment: every      *)
(* stored balance is its opening funding plus the sum of its ledger         *)
(* entries.  A debit without its credit, a lost update of a balance or a    *)
(* leg written for a transfer that rolled back would break it.              *)
BalancesReconcile ==
    \A a \in L!Existing :
        accounts[a].balance =
            Baseline(a) + SumOf({ e \in entries : e.account = a })

(* reconcile.findUnbalancedTransfers finds nothing, at any moment: every    *)
(* committed transfer is completed and has exactly its two legs, the debit  *)
(* on its source and the credit on its destination, and no entry exists     *)
(* without its transfer.                                                    *)
DoubleEntry ==
    /\ \A t \in transfers :
        /\ t.status = "completed"
        /\ { e \in entries : e.transfer = t.id } = Legs(t.id, t)
    /\ \A e \in entries : \E t \in transfers : t.id = e.transfer

(* transfers_idempotency_key_unique: two committed transfers never carry    *)
(* the same key, even when calls race past each other before either has     *)
(* committed.                                                               *)
OneTransferPerKey ==
    \A t, u \in transfers : t.key = u.key /\ t.key # NoKey => t = u

(* Every step that changes a balance is the commit of one new transfer that *)
(* appends its two legs and moves exactly that amount from its source to    *)
(* its destination; nothing else touches the journal, and nothing committed *)
(* is ever edited or deleted (ledger_entries_are_append_only,               *)
(* transfers_completed_are_immutable).                                      *)
MovesAreJournaled ==
    \/ /\ transfers' = transfers
       /\ entries' = entries
       /\ \A a \in L!Existing : accounts'[a] = accounts[a]
    \/ \E t \in transfers' :
        /\ transfers' = transfers \cup {t}
        /\ \A u \in transfers : u.id # t.id
        /\ entries' = entries \cup Legs(t.id, t)
        /\ accounts' = [accounts EXCEPT ![t.src] = Moved(@, -t.amount),
                                        ![t.dst] = Moved(@, t.amount)]

JournalOnly == [][MovesAreJournaled]_vars

(****************************************************************************)
(* Locking                                                                  *)
(****************************************************************************)
(* "The balance was read under FOR UPDATE, so no concurrent transfer can    *)
(* change it before this transaction ends: this check is now authoritative" *)
(* (transfer.go:302): from the moment both locks are held until the first   *)
(* write, what the transaction sees of its two rows is what is committed.   *)
LockedReadsAreCurrent ==
    \A c \in Calls :
        pc[c] \in {"check", "insert", "debit"} =>
            \A a \in {Cmd(c).src, Cmd(c).dst} : view[c][a] = accounts[a]

(* Call c cannot go on before call d's transaction ends.                    *)
WaitsForRow(c, d) ==
    /\ Locking(c)
    /\ view[c][Target(c)] # NoRow
    /\ Target(c) \notin stale[c]
    /\ lock[Target(c)] = d

WaitsForKey(c, d) ==
    /\ pc[c] = "insert"
    /\ req[c].key # NoKey
    /\ c # d
    /\ new[d] # NoTransfer
    /\ new[d].key = req[c].key

WaitsFor(c, d) == WaitsForRow(c, d) \/ WaitsForKey(c, d)

(* lockOrder is "the whole of the deadlock-prevention strategy": no set of  *)
(* transactions is ever stuck waiting for each other, through row locks,    *)
(* through the unique index on the key, or through both.                    *)
NoWaitCycle ==
    \A S \in (SUBSET Calls) \ {{}} :
        \E c \in S : \A d \in S : ~WaitsFor(c, d)

(****************************************************************************)
(* The inductive invariant, call by call                                    *)
(****************************************************************************)
Valid(c) == req[c] # NoReq /\ Validate(Cmd(c)) = "ok"

Sides(c) == {Cmd(c).src, Cmd(c).dst}

(* Where the call is, what it was told and what the server has of it.       *)
Control(c) ==
    /\ (pc[c] = "idle") <=> (req[c] = NoReq)
    /\ (pc[c] = "done") <=> (answer[c] # Pending)
    /\ pc[c] \notin {"idle", "done"} \/ tx[c] # "none" =>
            Valid(c) /\ attempt[c] >= 1
    /\ pc[c] = "backoff" => attempt[c] < MaxAttempts
    /\ pc[c] \in {"idle", "begin", "backoff"} => tx[c] = "none"
    /\ pc[c] \in InTx \ {"commit"} => tx[c] = "active"
    /\ pc[c] = "commit" => tx[c] # "active"
    /\ tx[c] = "committing" => pc[c] \in {"commit", "done"}
    /\ pc[c] = "done" /\ tx[c] # "none" => answer[c] = "Failed"
    /\ tx[c] = "none" => new[c] = NoTransfer

(* Whose locks c's transaction holds: its rows, and it has seen their       *)
(* latest committed version.                                                *)
HoldsRow(c, a) == lock[a] = c /\ a \notin stale[c] /\ view[c][a] # NoRow

First(c) == lockOrder(Cmd(c).src, Cmd(c).dst)[1]

PastLocks(c) ==
    \/ pc[c] \in {"check", "insert", "debit", "credit", "entries", "verify"}
    \/ tx[c] = "committing"

Locks(c) ==
    /\ \A a \in Accounts : lock[a] = c => tx[c] # "none"
    /\ pc[c] = "lock1" => \A a \in Accounts : lock[a] # c
    /\ pc[c] = "lock2" => /\ HoldsRow(c, First(c))
                          /\ \A a \in Accounts : lock[a] = c => a = First(c)
    /\ PastLocks(c) => \A a \in Sides(c) : HoldsRow(c, a)

(* A row still has the version c's snapshot shows.                          *)
Unwritten(c, a) ==
    a \notin stale[c] /\ view[c][a] # NoRow => view[c][a] = accounts[a]

Debited(c) ==
    view[c][Cmd(c).src] = Moved(accounts[Cmd(c).src], -Cmd(c).amount)

Credited(c) ==
    view[c][Cmd(c).dst] = Moved(accounts[Cmd(c).dst], Cmd(c).amount)

Funded(c) ==
    /\ \A a \in Sides(c) : accounts[a] # NoRow
                            /\ accounts[a].currency = Cmd(c).currency
    /\ accounts[Cmd(c).src].balance >= Cmd(c).amount

Written(c) == pc[c] \in {"entries", "verify"} \/ tx[c] = "committing"

Views(c) ==
    /\ pc[c] \in {"lock1", "lock2", "check", "insert", "debit"} =>
            \A a \in Accounts : Unwritten(c, a)
    /\ pc[c] \in {"insert", "debit", "credit"} \/ Written(c) => Funded(c)
    /\ pc[c] = "credit" => Debited(c) /\ Unwritten(c, Cmd(c).dst)
    /\ Written(c) => /\ Debited(c)
                     /\ Credited(c)
                     /\ accounts[Cmd(c).dst].balance + Cmd(c).amount
                            <= MaxBalance
    /\ \A a \in known[c] :
            accounts[a] # NoRow /\ (tx[c] # "none" => view[c][a] # NoRow)

(* What the transaction has inserted.                                       *)
Inserts(c) ==
    /\ pc[c] \in {"lock1", "lock2", "check", "insert"} => new[c] = NoTransfer
    /\ pc[c] \in {"debit", "credit", "entries", "verify"} =>
            new[c] = OwnTransfer(c, "pending")
    /\ pc[c] = "verify" => legs[c] = Legs(<<c, attempt[c]>>, Cmd(c))
    /\ tx[c] = "committing" =>
            /\ new[c] = OwnTransfer(c, "completed")
            /\ legs[c] = Legs(<<c, attempt[c]>>, Cmd(c))
    /\ new[c] # NoTransfer => new[c].key = req[c].key

(* What the call has committed.                                             *)
Committed(c) ==
    /\ pc[c] = "commit" /\ tx[c] = "none" => L!CommittedBy(c) # {}
    /\ L!CommittedBy(c) # {} =>
            /\ tx[c] = "none"
            /\ \/ pc[c] = "commit"
               \/ pc[c] = "done" /\ answer[c] \in {"Posted", "Failed"}

CallInv(c) ==
    /\ Control(c)
    /\ Locks(c)
    /\ Views(c)
    /\ Inserts(c)
    /\ Committed(c)

(* A key is inserted by at most one open transaction, and by none when a    *)
(* committed transfer has it.                                               *)
KeyBarrier ==
    \A c \in Calls :
        new[c] # NoTransfer /\ new[c].key # NoKey =>
            /\ ~L!KeyTaken(new[c].key)
            /\ \A d \in Calls :
                  new[d] # NoTransfer /\ new[d].key = new[c].key => d = c

(* The invariant the proofs rest on: what each call of the posting code     *)
(* knows at each statement about its locks, its snapshot, its inserts and   *)
(* its commits, and the state of the unique index on the key.               *)
PostingInv ==
    /\ TypeOK
    /\ \A c \in Calls : CallInv(c)
    /\ KeyBarrier
    /\ OneTransferPerKey
    /\ DoubleEntry

(****************************************************************************)
(* The promise, and progress                                                *)
(****************************************************************************)
(* The statement-by-statement posting implements the one-step Ledger: a     *)
(* call commits at most once however often it is retried, a refusal is true *)
(* and final, and only "Failed" leaves the outcome open.                    *)
ImplementsLedger == L!Spec

(* postWithRetry always returns ("the loop always terminates here, whatever *)
(* the load"), also when transactions compete for rows and keys.            *)
EveryCallReturns ==
    \A c \in Calls : (req[c] # NoReq) ~> (answer[c] # Pending)

(* "guarantees no transaction is ever left open" (transfer.go:248): every   *)
(* transaction ends and every row lock is released, also the ones of        *)
(* clients that gave up.                                                    *)
NoTransactionLeftOpen ==
    /\ \A c \in Calls : (tx[c] # "none") ~> (tx[c] = "none")
    /\ \A a \in Accounts : (lock[a] # NoCall) ~> (lock[a] = NoCall)
==============================================================================
