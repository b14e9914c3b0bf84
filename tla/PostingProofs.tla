---------------------------- MODULE PostingProofs ----------------------------
(****************************************************************************)
(* Posting, proved for every set of calls, accounts, keys and commands and  *)
(* every value of the bounds: the inductive invariant and the theorems that *)
(* follow from it; the books; the refinement of Ledger; and the absence of  *)
(* deadlock.                                                                *)
(****************************************************************************)
EXTENDS PostingSteps, BooksProofs

(* Most leaves are first-order; those with arithmetic, EXCEPT or records    *)
(* name the SMT solver.                                                     *)
USE Zenon

(****************************************************************************)
(* The commit                                                               *)
(****************************************************************************)
(* What a commit does to the committed rows: it moves the amount between    *)
(* the two committed balances, and adds the transfer with its two legs.     *)
LEMMA CommitEffect ==
  ASSUME PostingInv, NEW c \in Calls, ServerCommit(c)
  PROVE  LET m  == Cmd(c)
             id == <<c, attempt[c]>>
         IN  /\ Valid(c)
             /\ Funded(c)
             /\ accounts[m.dst].balance + m.amount <= MaxBalance
             /\ accounts' = [accounts EXCEPT ![m.src] = Moved(@, -m.amount),
                                             ![m.dst] = Moved(@, m.amount)]
             /\ new[c] = TransferRow(id, m, req[c].key, "completed")
             /\ transfers' = transfers \cup {new[c]}
             /\ entries' = entries \cup Legs(id, m)
             /\ L!CommittedBy(c) = {}
             /\ \A a \in Sides(c) : lock[a] = c /\ view[c][a] # NoRow
  <1>0. /\ TypeOK /\ CallInv(c) /\ tx[c] = "committing" /\ Valid(c)
        /\ Written(c) /\ PastLocks(c)
    BY DEF PostingInv, CallInv, Control, ServerCommit, Written, PastLocks
  <1>1. /\ Cmd(c).src \in Accounts /\ Cmd(c).dst \in Accounts
        /\ Cmd(c).src # Cmd(c).dst
    BY <1>0, ValidCall
  <1>2. Funded(c) /\ Debited(c) /\ Credited(c)
        /\ accounts[Cmd(c).dst].balance + Cmd(c).amount <= MaxBalance
    BY <1>0 DEF CallInv, Views
  <1>3. accounts' = [accounts EXCEPT
                        ![Cmd(c).src] = Moved(@, -Cmd(c).amount),
                        ![Cmd(c).dst] = Moved(@, Cmd(c).amount)]
    BY <1>0, <1>1, <1>2 DEF ServerCommit, TypeOK, Debited, Credited
  <1>4. /\ new[c] = TransferRow(<<c, attempt[c]>>, Cmd(c), req[c].key,
                                "completed")
        /\ transfers' = transfers \cup {new[c]}
        /\ entries' = entries \cup Legs(<<c, attempt[c]>>, Cmd(c))
    BY <1>0 DEF CallInv, Inserts, OwnTransfer, ServerCommit
  <1>5. L!CommittedBy(c) = {}
    BY <1>0 DEF CallInv, Committed
  <1>6. \A a \in Sides(c) : lock[a] = c /\ view[c][a] # NoRow
    BY <1>0 DEF CallInv, Locks, HoldsRow
  <1> QED BY <1>0, <1>2, <1>3, <1>4, <1>5, <1>6

(* What the commit of call c leaves of another call d: all of it, except    *)
(* that d's snapshot, if it has one, is behind on c's two rows.  The rows d *)
(* has locked are not among them.                                           *)
LEMMA CommitFrame ==
  ASSUME PostingInv, NEW c \in Calls, ServerCommit(c),
         NEW d \in Calls, d # c
  PROVE  CallInv(d)'
  <1> DEFINE S == Sides(c)
  <1>0. TypeOK /\ CallInv(d)
    BY DEF PostingInv
  <1>e. /\ Valid(c)
        /\ \A a \in S : lock[a] = c /\ view[c][a] # NoRow /\ a \in Accounts
        /\ transfers' = transfers \cup {new[c]}
        /\ new[c].id = <<c, attempt[c]>>
    <2>0. new[c] = TransferRow(<<c, attempt[c]>>, Cmd(c), req[c].key,
                               "completed")
      BY CommitEffect
    <2>1. new[c].id = <<c, attempt[c]>>
      BY <2>0, SMT DEF TransferRow
    <2>2. /\ Valid(c) /\ transfers' = transfers \cup {new[c]}
          /\ \A a \in Sides(c) : lock[a] = c /\ view[c][a] # NoRow
      BY CommitEffect
    <2> QED BY <2>1, <2>2, <1>0, ValidCall DEF Sides
  <1>u. /\ req'[d] = req[d] /\ known'[d] = known[d] /\ answer'[d] = answer[d]
        /\ pc'[d] = pc[d] /\ attempt'[d] = attempt[d] /\ tx'[d] = tx[d]
        /\ view'[d] = view[d] /\ new'[d] = new[d] /\ legs'[d] = legs[d]
        /\ stale'[d] = IF tx[d] # "none" THEN stale[d] \cup S ELSE stale[d]
        /\ \A a \in Accounts : (lock'[a] = d) <=> (lock[a] = d)
    BY <1>0, NullsAssumption, SMT DEF ServerCommit, EndTx, FreeLocks, TypeOK, Sides
  <1>a. /\ \A a \in Accounts \ S : accounts'[a] = accounts[a]
        /\ \A a \in S : accounts'[a] # NoRow
    BY <1>e DEF ServerCommit, Sides
  <1>c. Cmd(d)' = Cmd(d) /\ Sides(d)' = Sides(d)
    BY <1>u DEF Cmd, Sides
  <1>v. /\ (PastLocks(d) \/ Written(d) \/ pc[d] \in InTx \ {"commit"}) =>
              Valid(d) /\ tx[d] # "none"
        /\ Written(d) \/ pc[d] \in {"insert", "debit", "credit"} =>
              PastLocks(d)
    BY <1>0 DEF CallInv, Control, PastLocks, Written, InTx
  <1>t. Valid(d) => Cmd(d).src \in Accounts /\ Cmd(d).dst \in Accounts
                    /\ lockOrder(Cmd(d).src, Cmd(d).dst)[1] \in Accounts
    BY <1>0, ValidCall DEF lockOrder
  <1>s. /\ PastLocks(d)' <=> PastLocks(d)
        /\ Written(d)' <=> Written(d)
    BY <1>u DEF PastLocks, Written
  <1>d. \A a \in Accounts : lock[a] = d => a \notin S
    BY <1>e
  <1>h. \A a \in Accounts : HoldsRow(d, a) => HoldsRow(d, a)'
    BY <1>u, <1>d DEF HoldsRow
  <1>k. PastLocks(d) => \A a \in Sides(d) : accounts'[a] = accounts[a]
                                            /\ a \in Accounts
    BY <1>0, <1>v, <1>t, <1>d, <1>a DEF CallInv, Locks, HoldsRow, Sides
  <1>1. Control(d)'
    BY <1>0, <1>u DEF CallInv, Control, Valid, Cmd
  <1>2. Locks(d)'
    <2>1. PastLocks(d)' => \A a \in Sides(d)' : HoldsRow(d, a)'
      BY <1>0, <1>s, <1>c, <1>h, <1>k DEF CallInv, Locks
    <2>f. First(d)' = First(d) /\ (pc[d] = "lock2" => First(d) \in Accounts)
      BY <1>c, <1>t, <1>v DEF First, InTx
    <2>2. pc'[d] = "lock2" =>
            /\ HoldsRow(d, First(d))'
            /\ \A a \in Accounts : lock'[a] = d => a = First(d)'
      BY <1>0, <1>u, <1>h, <2>f DEF CallInv, Locks
    <2> QED BY <1>0, <1>u, <2>1, <2>2 DEF CallInv, Locks
  <1>3. Views(d)'
    <2>1. tx[d] # "none" =>
            \A a \in Accounts : Unwritten(d, a) => Unwritten(d, a)'
      BY <1>u, <1>a DEF Unwritten
    <2>2. PastLocks(d) /\ Funded(d) => Funded(d)'
      BY <1>c, <1>k, SMT DEF Funded, Sides
    <2>3. PastLocks(d) =>
            /\ Debited(d) => Debited(d)'
            /\ Credited(d) => Credited(d)'
            /\ accounts'[Cmd(d).dst] = accounts[Cmd(d).dst]
      BY <1>c, <1>k, <1>u DEF Sides, Debited, Credited
    <2>4. \A a \in known'[d] :
            accounts'[a] # NoRow /\ (tx'[d] # "none" => view'[d][a] # NoRow)
      BY <1>0, <1>u, <1>a DEF CallInv, Views, TypeOK
    <2>5. pc'[d] \in {"lock1", "lock2", "check", "insert", "debit"} =>
            \A a \in Accounts : Unwritten(d, a)'
      BY <1>0, <1>u, <1>v, <2>1 DEF CallInv, Views, InTx
    <2>6. pc'[d] \in {"insert", "debit", "credit"} \/ Written(d)' => Funded(d)'
      BY <1>0, <1>u, <1>v, <1>s, <2>2 DEF CallInv, Views
    <2>7. pc'[d] = "credit" => Debited(d)' /\ Unwritten(d, Cmd(d).dst)'
      BY <1>0, <1>u, <1>v, <1>t, <1>c, <2>1, <2>3 DEF CallInv, Views, InTx
    <2>8. Written(d)' => /\ Debited(d)'
                         /\ Credited(d)'
                         /\ accounts'[Cmd(d)'.dst].balance + Cmd(d)'.amount
                                <= MaxBalance
      BY <1>0, <1>v, <1>s, <1>c, <2>3 DEF CallInv, Views
    <2> QED BY <2>4, <2>5, <2>6, <2>7, <2>8 DEF Views
  <1>4. Inserts(d)'
    BY <1>0, <1>u, <1>c DEF CallInv, Inserts, OwnTransfer
  <1>5. Committed(d)'
    <2>1. L!CommittedBy(d)' = L!CommittedBy(d)
      BY <1>e, SMT DEF L!CommittedBy
    <2> QED BY <1>0, <1>u, <2>1 DEF CallInv, Committed
  <1> QED BY <1>1, <1>2, <1>3, <1>4, <1>5 DEF CallInv

(* COMMIT on the server.                                                    *)
LEMMA ServerCommitInv ==
  ASSUME PostingInv, NEW c \in Calls, ServerCommit(c)
  PROVE  PostingInv'
  <1> DEFINE m  == Cmd(c)
             id == <<c, attempt[c]>>
  <1>0. TypeOK /\ CallInv(c) /\ tx[c] = "committing"
    BY DEF PostingInv, ServerCommit
  <1>e. /\ Valid(c) /\ attempt[c] >= 1
        /\ new[c] = TransferRow(id, m, req[c].key, "completed")
        /\ transfers' = transfers \cup {new[c]}
        /\ entries' = entries \cup Legs(id, m)
        /\ L!CommittedBy(c) = {}
        /\ \A a \in Sides(c) : view[c][a] # NoRow
    BY CommitEffect, <1>0 DEF CallInv, Control
  <1>n. /\ new[c].id = id /\ new[c].status = "completed"
        /\ new[c] # NoTransfer /\ new[c] \in Transfer
        /\ Legs(id, new[c]) = Legs(id, m)
    <2>1. new[c].id = id /\ new[c].status = "completed"
          /\ Legs(id, new[c]) = Legs(id, m)
      BY <1>e, SMT DEF TransferRow, Legs
    <2>2. new[c] \in Transfer /\ new[c] # NoTransfer
      BY <1>e, <1>0, OwnTransferType DEF OwnTransfer
    <2> QED BY <2>1, <2>2
  <1>p. /\ tx'[c] = "none" /\ new'[c] = NoTransfer /\ stale'[c] = {}
        /\ pc'[c] = pc[c] /\ answer'[c] = answer[c] /\ req'[c] = req[c]
        /\ \A a \in Accounts : lock'[a] # c
        /\ \A d \in Calls \ {c} : new'[d] = new[d]
    BY <1>0, NullsAssumption DEF ServerCommit, EndTx, FreeLocks, TypeOK
  <1>1. TypeOK'
    <2>1. accounts' \in [Accounts -> Row \cup {NoRow}]
      BY <1>0, SMT DEF TypeOK, ServerCommit
    <2>2. transfers' \subseteq Transfer
      BY <1>0, <1>e, <1>n DEF TypeOK
    <2>3. entries' \subseteq Entry
      BY <1>0, <1>e, OwnLegsType DEF TypeOK
    <2>4. stale' \in [Calls -> SUBSET Accounts]
      BY <1>0, <1>e, ValidCall, SMT DEF TypeOK, ServerCommit
    <2>5. /\ lock' \in [Accounts -> Calls \cup {NoCall}]
          /\ tx' \in [Calls -> {"none", "active", "committing"}]
          /\ view' \in [Calls -> [Accounts -> Row \cup {NoRow}]]
          /\ new' \in [Calls -> Transfer \cup {NoTransfer}]
          /\ legs' \in [Calls -> SUBSET Entry]
      BY <1>0 DEF TypeOK, ServerCommit, EndTx, FreeLocks, Blank
    <2> QED BY <1>0, <2>1, <2>2, <2>3, <2>4, <2>5 DEF TypeOK, ServerCommit
  <1>2. CallInv(c)'
    <2>0. pc[c] \in {"commit", "done"} /\ (pc[c] = "done" => answer[c] = "Failed")
      BY <1>0 DEF CallInv, Control
    <2>1. Control(c)'
      BY <1>0, <1>p, <2>0 DEF CallInv, Control, Valid, Cmd, InTx, ServerCommit
    <2>2. Locks(c)'
      BY <1>p, <2>0 DEF Locks, PastLocks
    <2>3. Views(c)'
      <3>1. \A a \in known'[c] : accounts'[a] # NoRow
        BY <1>0, <1>e DEF ServerCommit, CallInv, Views, Sides, TypeOK
      <3> QED BY <1>p, <2>0, <3>1 DEF Views, Written
    <2>4. Inserts(c)'
      BY <1>p, <2>0 DEF Inserts
    <2>5. Committed(c)'
      <3>1. L!CommittedBy(c)' # {}
        BY <1>e, <1>n, SMT DEF L!CommittedBy
      <3> QED BY <1>p, <2>0, <3>1 DEF Committed
    <2> QED BY <2>1, <2>2, <2>3, <2>4, <2>5 DEF CallInv
  <1>3. ASSUME NEW d \in Calls PROVE CallInv(d)'
    BY <1>2, CommitFrame
  <1>4. /\ new[c].key # NoKey => ~L!KeyTaken(new[c].key)
        /\ \A d \in Calls : new[d] # NoTransfer /\ new[d].key = new[c].key
                            /\ new[c].key # NoKey => d = c
    BY <1>n DEF PostingInv, KeyBarrier
  <1>5. KeyBarrier'
    <2>1. \A k : L!KeyTaken(k)' => L!KeyTaken(k) \/ (k = new[c].key /\ k # NoKey)
      BY <1>e DEF L!KeyTaken
    <2> QED BY <1>p, <1>4, <2>1, SMT DEF PostingInv, KeyBarrier
  <1>6. OneTransferPerKey'
    BY <1>e, <1>4 DEF PostingInv, OneTransferPerKey, L!KeyTaken
  <1>7. DoubleEntry'
    <2>1. \A t \in transfers : t.id # id
      BY <1>e, SMT DEF L!CommittedBy
    <2>2. \A e \in entries : e.transfer # id
      BY <2>1 DEF PostingInv, DoubleEntry
    <2>3. \A e \in Legs(id, m) : e.transfer = id
      BY SMT DEF Legs
    <2> HIDE DEF id, m
    <2>4. ASSUME NEW t \in transfers
          PROVE  { e \in entries' : e.transfer = t.id } = Legs(t.id, t)
      BY <2>1, <2>3, <1>e DEF PostingInv, DoubleEntry
    <2>5. { e \in entries' : e.transfer = id } = Legs(id, m)
      BY <2>2, <2>3, <1>e
    <2>6. \A t \in transfers' :
            /\ t.status = "completed"
            /\ { e \in entries' : e.transfer = t.id } = Legs(t.id, t)
      BY <2>4, <2>5, <1>e, <1>n, SMT DEF PostingInv, DoubleEntry
    <2>7. \A e \in entries' : \E t \in transfers' : t.id = e.transfer
      BY <2>3, <1>e, <1>n DEF PostingInv, DoubleEntry
    <2> QED BY <2>6, <2>7 DEF DoubleEntry
  <1> QED BY <1>1, <1>3, <1>5, <1>6, <1>7 DEF PostingInv

(****************************************************************************)
(* The theorems                                                             *)
(****************************************************************************)
(* A step of a running call.                                                *)
LEMMA ProgressInv ==
  ASSUME PostingInv, NEW c \in Calls, Progress(c)
  PROVE  PostingInv'
  <1>t. pc[c] \in InTx \ {"commit"} => tx[c] # "none"
    BY AtStatement
  <1>1. CASE LockMissing(c)
    BY <1>1, <1>t, RejectInv
       DEF LockMissing, missingAccountError, Locking, InTx, Outcomes, Rejections
  <1>2. CASE LockStale(c)
    BY <1>2, <1>t, RetryOrExhaustInv DEF LockStale, Locking, InTx
  <1>3. CASE CheckRefuses(c)
    <2>1. Verdict(c) \in Outcomes
      BY <1>3 DEF CheckRefuses, Verdict, Outcomes, Rejections
    <2> QED BY <1>3, <1>t, <2>1, RejectInv DEF CheckRefuses, InTx
  <1>4. CASE InsertDuplicate(c)
    BY <1>4, <1>t, RejectInv DEF InsertDuplicate, InTx, Outcomes
  <1>5. CASE CreditOverflows(c)
    BY <1>5, <1>t, RejectInv DEF CreditOverflows, InTx, Outcomes
  <1> QED BY <1>1, <1>2, <1>3, <1>4, <1>5, BeginInv, LockGrantedInv,
             CheckPassesInv, InsertTransferInv, DebitInv, CreditInv,
             InsertEntriesInv, CompleteInv, ServerCommitInv, ClientLeaves,
             RetryInv DEF Progress

(* The invariant is inductive.                                              *)
LEMMA NextInv == PostingInv /\ [Next]_vars => PostingInv'
  <1> SUFFICES ASSUME PostingInv, [Next]_vars PROVE PostingInv'
    OBVIOUS
  <1>1. CASE UNCHANGED vars
    <2>1. ASSUME NEW d \in Calls PROVE CallInv(d)'
      <3>1. SameCall(d) /\ SameLocks(d) /\ RowsKept /\ transfers' = transfers
        BY <1>1 DEF vars, SameCall, SameLocks, RowsKept
      <3> QED BY <3>1, Frame DEF PostingInv
    <2>2. TypeOK'
      BY <1>1 DEF vars, PostingInv, TypeOK
    <2>3. KeyBarrier' /\ OneTransferPerKey' /\ DoubleEntry'
      BY <1>1 DEF vars, PostingInv, KeyBarrier, OneTransferPerKey,
                  DoubleEntry, L!KeyTaken
    <2> QED BY <2>1, <2>2, <2>3 DEF PostingInv
  <1>2. CASE \E c \in Calls : SerializationFailure(c)
    BY <1>2, RetryOrExhaustInv DEF SerializationFailure
  <1> QED BY <1>1, <1>2, CreateAccountInv, InvokeInv, ProgressInv,
             ClientLeaves, ServerRollbackInv DEF Next

(* Whatever the calls, accounts and bounds, every state the posting code    *)
(* can reach satisfies the invariant: what post believes at each statement  *)
(* about its locks, its snapshot and its inserts is true.                   *)
THEOREM Invariance == Spec => []PostingInv
  BY InitInv, NextInv, PTL DEF Spec

(* Types, and with them the schema's balance CHECK: no committed balance is *)
(* ever negative or beyond BIGINT.                                          *)
THEOREM TypeCorrect == Spec => []TypeOK
  BY Invariance, PTL DEF PostingInv

(* Every committed transfer has exactly its two legs, and every entry its   *)
(* transfer.                                                                *)
THEOREM DoubleEntryHolds == Spec => []DoubleEntry
  BY Invariance, PTL DEF PostingInv

(* One committed transfer per idempotency key, also when calls race.        *)
THEOREM KeyIsUnique == Spec => []OneTransferPerKey
  BY Invariance, PTL DEF PostingInv

(* The balance check under FOR UPDATE is authoritative: between the second  *)
(* lock and the first write, the transaction sees the committed rows.       *)
THEOREM ReadsAreAuthoritative == Spec => []LockedReadsAreCurrent
  <1>1. PostingInv => LockedReadsAreCurrent
    <2> SUFFICES ASSUME PostingInv, NEW c \in Calls,
                        pc[c] \in {"check", "insert", "debit"},
                        NEW a \in Sides(c)
                 PROVE  view[c][a] = accounts[a]
      BY DEF LockedReadsAreCurrent, Sides
    <2>1. CallInv(c) /\ a \in Accounts
      BY AtStatement DEF InTx, Sides
    <2> QED BY <2>1 DEF CallInv, Locks, PastLocks, HoldsRow, Views, Unwritten
  <1> QED BY <1>1, Invariance, PTL

(* The committed rows change when a transaction commits and when a client   *)
(* opens an account, and at no other step.                                  *)
LEMMA TableSteps ==
  ASSUME Next
  PROVE  \/ \E c \in Calls : ServerCommit(c)
         \/ \E a \in Accounts, cur \in Currencies : CreateAccount(a, cur)
         \/ UNCHANGED <<accounts, transfers, entries>>
  <1>1. ASSUME NEW c \in Calls, Progress(c), ~ServerCommit(c)
        PROVE  UNCHANGED <<accounts, transfers, entries>>
    BY <1>1 DEF Progress, Begin, LockMissing, LockStale, LockGranted,
       CheckRefuses, CheckPasses, InsertTransfer, InsertDuplicate, Debit,
       Credit, CreditOverflows, InsertEntries, Complete,
       CommitAcknowledged, Retry, Reject, RetryOrExhaust, Goto
  <1>2. ASSUME NEW c \in Calls,
               \/ SerializationFailure(c) \/ GiveUp(c) \/ ServerRollback(c)
               \/ \E k \in Keys \cup {NoKey}, m \in Commands : Invoke(c, k, m)
        PROVE  UNCHANGED <<accounts, transfers, entries>>
    BY <1>2 DEF SerializationFailure, RetryOrExhaust, GiveUp,
                ServerRollback, Invoke, L!Invoke
  <1> QED BY <1>1, <1>2 DEF Next

(* Every step is either no move at all, or the commit of one new transfer   *)
(* with its two legs and its two balances; committed rows are never edited. *)
THEOREM MovesJournaled == Spec => JournalOnly
  <1>1. PostingInv /\ [Next]_vars => [MovesAreJournaled]_vars
    <2> SUFFICES ASSUME PostingInv, Next PROVE MovesAreJournaled
      OBVIOUS
    <2>1. ASSUME NEW c \in Calls, ServerCommit(c) PROVE MovesAreJournaled
      <3> DEFINE m  == Cmd(c)
                 id == <<c, attempt[c]>>
      <3>1. /\ new[c] = TransferRow(id, m, req[c].key, "completed")
            /\ transfers' = transfers \cup {new[c]}
            /\ entries' = entries \cup Legs(id, m)
            /\ L!CommittedBy(c) = {}
            /\ accounts' = [accounts EXCEPT ![m.src] = Moved(@, -m.amount),
                                            ![m.dst] = Moved(@, m.amount)]
        BY <2>1, CommitEffect
      <3>2. /\ new[c].id = id /\ new[c].src = m.src /\ new[c].dst = m.dst
            /\ new[c].amount = m.amount /\ new[c].currency = m.currency
        BY <3>1, SMT DEF TransferRow
      <3>3. Legs(new[c].id, new[c]) = Legs(id, m)
        BY <3>2 DEF Legs
      <3>4. \A u \in transfers : u.id # id
        BY <3>1, SMT DEF L!CommittedBy
      <3> HIDE DEF m, id
      <3> QED BY <3>1, <3>2, <3>3, <3>4 DEF MovesAreJournaled
    <2>2. ASSUME NEW a \in Accounts, NEW cur \in Currencies,
                 CreateAccount(a, cur)
          PROVE  MovesAreJournaled
      BY <2>2 DEF CreateAccount, L!CreateAccount, MovesAreJournaled,
                  L!Existing, PostingInv, TypeOK
    <2>3. UNCHANGED <<accounts, transfers, entries>> => MovesAreJournaled
      BY DEF MovesAreJournaled
    <2> QED BY <2>1, <2>2, <2>3, TableSteps
  <1> QED BY <1>1, Invariance, PTL DEF JournalOnly, Spec

(****************************************************************************)
(* The books                                                                *)
(****************************************************************************)
(* What every account was funded with before the first transfer.            *)
Funding == [a \in Accounts |-> Baseline(a)]

(* Beyond BalancesReconcile: the entries can be summed, none is of an       *)
(* account that does not exist, and such an account was not funded, so that *)
(* it may be opened with an empty balance.                                  *)
BooksInv == Reconciled(accounts, entries, Funding)

(* Every account has a baseline.                                            *)
LEMMA FundingType == Funding \in [Accounts -> Int]
  <1>1. \A a \in Accounts : Baseline(a) \in Int
    BY OpeningAssumption, SMT DEF Baseline, Row
  <1> QED BY <1>1 DEF Funding

(* Before the first transfer every balance is its baseline.                 *)
LEMMA BooksStart == Init => BooksInv
  <1> SUFFICES ASSUME Init PROVE BooksInv
    OBVIOUS
  <1>1. accounts = Opening /\ entries = {}
    BY DEF Init, L!Init
  <1>2. Summable({}) /\ \A a : LedgerMinor({}, a) = 0
    <2>1. \A a : { e \in {} : e.account = a } = {}
      OBVIOUS
    <2> QED BY <2>1, FS_EmptySet, SumOfEmpty DEF Summable, LedgerMinor
  <1>3. \A a \in Accounts : Funding[a] = IF Opening[a] = NoRow THEN 0
                                         ELSE Opening[a].balance
    BY DEF Funding, Baseline
  <1>4. \A a \in Present(Opening) : Opening[a].balance \in Int
    BY OpeningAssumption, SMT DEF Present, Row
  <1>5. findBalanceMismatches(Opening, {}, Funding) = {}
    BY <1>2, <1>3, <1>4, SMT DEF findBalanceMismatches, Present
  <1> QED BY <1>1, <1>2, <1>3, <1>5 DEF BooksInv, Reconciled, Present

(* The transfer a committing call makes is possible on the committed rows,  *)
(* and its id is new to the journal.                                        *)
LEMMA CommitIsPossible ==
  ASSUME PostingInv, NEW c \in Calls, ServerCommit(c)
  PROVE  /\ Possible(accounts, Cmd(c))
         /\ NewID(<<c, attempt[c]>>, entries)
         /\ accounts' = AfterMove(accounts, Cmd(c))
         /\ entries' = entries \cup Legs(<<c, attempt[c]>>, Cmd(c))
  <1> DEFINE m == Cmd(c)
  <1>1. /\ Valid(c) /\ Funded(c)
        /\ accounts[m.dst].balance + m.amount <= MaxBalance
        /\ accounts' = [accounts EXCEPT ![m.src] = Moved(@, -m.amount),
                                        ![m.dst] = Moved(@, m.amount)]
        /\ entries' = entries \cup Legs(<<c, attempt[c]>>, m)
        /\ L!CommittedBy(c) = {}
    BY CommitEffect
  <1>2. req[c] \in Request /\ m \in Commands
    <2>1. req[c] \in Request \cup {NoReq}
      BY DEF PostingInv, TypeOK
    <2> QED BY <1>1, <2>1, SMT DEF Valid, Request, Cmd
  <1>3. m.src \in Accounts /\ m.dst \in Accounts
        /\ m.src # m.dst /\ m.amount \in Int /\ m.amount > 0
    BY <1>1, <1>2, CommandsAssumption, SMT DEF Valid, Validate
  <1>4. Possible(accounts, m)
    BY <1>1, <1>3 DEF Possible, Funded, Sides, Present
  <1>5. \A t \in transfers : t.id # <<c, attempt[c]>>
    BY <1>1, SMT DEF L!CommittedBy
  <1>6. NewID(<<c, attempt[c]>>, entries)
    BY <1>5 DEF PostingInv, DoubleEntry, NewID
  <1> QED BY <1>1, <1>4, <1>6 DEF AfterMove

(* No step of a posting puts the books out of balance.                      *)
LEMMA BooksStep == PostingInv /\ BooksInv /\ [Next]_vars => BooksInv'
  <1> SUFFICES ASSUME PostingInv, BooksInv, [Next]_vars PROVE BooksInv'
    OBVIOUS
  <1>0. accounts \in Rows /\ Funding' = Funding
    BY DEF PostingInv, TypeOK, Rows, Funding, Baseline
  <1>1. ASSUME NEW c \in Calls, ServerCommit(c) PROVE BooksInv'
    <2>1. /\ Possible(accounts, Cmd(c)) /\ NewID(<<c, attempt[c]>>, entries)
          /\ accounts' = AfterMove(accounts, Cmd(c))
          /\ entries' = entries \cup Legs(<<c, attempt[c]>>, Cmd(c))
      BY <1>1, CommitIsPossible
    <2>2. Reconciled(accounts, entries, Funding)
      BY DEF BooksInv
    <2>3. Reconciled(AfterMove(accounts, Cmd(c)),
                     entries \cup Legs(<<c, attempt[c]>>, Cmd(c)), Funding)
      BY <1>0, <2>1, <2>2, TransferReconciles, FundingType
    <2> QED BY <1>0, <2>1, <2>3 DEF BooksInv
  <1>2. ASSUME NEW a \in Accounts, NEW cur \in Currencies,
               CreateAccount(a, cur)
        PROVE  BooksInv'
    BY <1>0, <1>2, AccountReconciles, FundingType
       DEF BooksInv, CreateAccount, L!CreateAccount
  <1>3. UNCHANGED <<accounts, transfers, entries>> => BooksInv'
    BY <1>0 DEF BooksInv
  <1>4. UNCHANGED vars => UNCHANGED <<accounts, transfers, entries>>
    BY DEF vars
  <1> QED BY <1>1, <1>2, <1>3, <1>4, TableSteps

(* The reconciliation finds no balance mismatch at any moment: every stored *)
(* balance is what the account was funded with plus the sum of its entries, *)
(* for any number of transfers, in any interleaving, with any failures.     *)
THEOREM BooksReconcile == Spec => []BalancesReconcile
  <1>1. BooksInv => BalancesReconcile
    <2> SUFFICES ASSUME BooksInv, NEW a \in L!Existing
                 PROVE  accounts[a].balance =
                          Baseline(a) + SumOf({ e \in entries : e.account = a })
      BY DEF BalancesReconcile
    <2>1. a \in Present(accounts) /\ a \in Accounts
      BY DEF L!Existing, Present
    <2>2. accounts[a].balance = Funding[a] + LedgerMinor(entries, a)
      BY <2>1 DEF BooksInv, Reconciled, findBalanceMismatches
    <2> QED BY <2>1, <2>2 DEF Funding, LedgerMinor
  <1> QED BY <1>1, BooksStart, BooksStep, Invariance, PTL DEF Spec

(* The accounts in a currency, by the rows A.                               *)
InCurrency(A, cur) == { a \in Present(A) : A[a].currency = cur }

(* No money is made or lost, currency by currency: all accounts in it hold  *)
(* together what they were funded with at the start, at every moment of any *)
(* number of concurrent, repeated and interrupted postings.                 *)
MoneyConserved ==
    \A cur \in Currencies :
        Held(accounts, InCurrency(accounts, cur)) =
            Held(Opening, InCurrency(Opening, cur))

(* A transfer stays within one currency and changes no account's.           *)
LEMMA MoveStays ==
  ASSUME NEW A \in Rows, NEW m, Possible(A, m),
         A[m.src].currency = A[m.dst].currency, NEW cur
  PROVE  Held(AfterMove(A, m), InCurrency(AfterMove(A, m), cur)) =
           Held(A, InCurrency(A, cur))
  <1> DEFINE N == AfterMove(A, m)
             S == InCurrency(A, cur)
  <1>1. m.src \in Present(A) /\ m.dst \in Present(A)
        /\ m.src # m.dst /\ m.src \in Accounts /\ m.dst \in Accounts
    BY DEF Possible, Present
  <1>2. /\ N[m.src] = Moved(A[m.src], -m.amount)
        /\ N[m.dst] = Moved(A[m.dst], m.amount)
        /\ \A a \in Accounts \ {m.src, m.dst} : N[a] = A[a]
    BY <1>1 DEF AfterMove, Rows
  <1>3. \A a \in Accounts : N[a].currency = A[a].currency
    BY <1>1, <1>2, SMT DEF Moved
  <1>4. Present(N) = Present(A)
    BY MoveFacts
  <1> HIDE DEF N
  <1>5. InCurrency(N, cur) = S
    BY <1>3, <1>4 DEF InCurrency, Present
  <1>6. S \subseteq Present(A) /\ (m.src \in S <=> m.dst \in S)
    BY <1>1 DEF InCurrency
  <1> HIDE DEF S
  <1>7. Held(N, S) = Held(A, S)
    BY <1>6, MoveKeeps DEF N
  <1> QED BY <1>5, <1>7 DEF N, S

(* The row an account is created with is there, and holds nothing.          *)
LEMMA EmptyRow ==
  \A c0 \in Currencies : /\ [currency |-> c0, balance |-> 0] # NoRow
                         /\ [currency |-> c0, balance |-> 0].balance = 0
  BY BoundsAssumption, NullsAssumption, SMT DEF Row

(* A new account adds nothing to its currency.                              *)
LEMMA AccountIsEmpty ==
  ASSUME NEW A \in Rows, NEW a \in Accounts, A[a] = NoRow,
         NEW cur, NEW N, N[a] # NoRow, N[a].balance = 0,
         \A b \in Accounts \ {a} : N[b] = A[b]
  PROVE  Held(N, InCurrency(N, cur)) = Held(A, InCurrency(A, cur))
  <1> DEFINE S == InCurrency(A, cur)
  <1>3. S \subseteq Present(A) /\ a \notin S /\ S \subseteq Accounts
    BY DEF InCurrency, Present
  <1>4. InCurrency(N, cur) = IF N[a].currency = cur THEN S \cup {a} ELSE S
    BY DEF InCurrency, Present
  <1>5. \A b \in S : A[b].balance \in Int /\ N[b].balance = A[b].balance
    <2>1. \A b \in S : A[b] \in Row /\ N[b] = A[b]
      BY <1>3 DEF Rows, Present
    <2> QED BY <2>1, SMT DEF Row
  <1>6. IsFiniteSet(S)
    BY <1>3, FiniteAccounts, FS_Subset
  <1> HIDE DEF S
  <1>7. Held(N, S) = Held(A, S)
    <2>1. \A b \in S : N[b].balance \in Int
      BY <1>5
    <2>2. [b \in S |-> N[b].balance] = [b \in S |-> A[b].balance]
      BY <1>5
    <2>3. Held(A, S) = TotalOf([b \in S |-> A[b].balance], S)
      BY <1>5, <1>6, HeldIs
    <2>4. Held(N, S) = TotalOf([b \in S |-> N[b].balance], S)
      BY <1>6, <2>1, HeldIs
    <2> QED BY <2>2, <2>3, <2>4
  <1>8. Held(N, S \cup {a}) = Held(A, S)
    <2>0. 0 \in Int
      BY SMT
    <2>1. \A b \in S \cup {a} : N[b].balance \in Int
      BY <1>5, <2>0
    <2>2. Held(N, S \cup {a}) = N[a].balance + Held(N, S)
      BY <1>3, <1>6, <2>1, HeldOneMore
    <2>3. Held(A, S) \in Int
      <3>1. PICK w : w = [b \in S |-> A[b].balance]
        OBVIOUS
      <3>2. \A b \in S : w[b] \in Int
        BY <1>5, <3>1
      <3>3. Held(A, S) = TotalOf(w, S)
        BY <1>5, <1>6, <3>1, HeldIs
      <3> QED BY <1>6, <3>2, <3>3, TotalInt
    <2>5. PICK h \in Int : h = Held(A, S)
      BY <2>3
    <2>6. 0 + h = h
      BY SMT
    <2> QED BY <1>7, <2>2, <2>5, <2>6
  <1> QED BY <1>4, <1>7, <1>8 DEF S

(* Posting creates and destroys no money in any currency: not when a debit  *)
(* is retried or its credit overflows, when a connection breaks between the *)
(* two, or when a COMMIT is executed after its caller has gone.             *)
THEOREM Conservation == Spec => []MoneyConserved
  <1>1. Init => MoneyConserved
    BY DEF Init, L!Init, MoneyConserved
  <1>2. PostingInv /\ MoneyConserved /\ [Next]_vars => MoneyConserved'
    <2> SUFFICES ASSUME PostingInv, MoneyConserved, [Next]_vars,
                        NEW cur \in Currencies
                 PROVE  Held(accounts', InCurrency(accounts', cur)) =
                          Held(accounts, InCurrency(accounts, cur))
      BY DEF MoneyConserved
    <2>0. accounts \in Rows
      BY DEF PostingInv, TypeOK, Rows
    <2>1. ASSUME NEW c \in Calls, ServerCommit(c)
          PROVE  Held(accounts', InCurrency(accounts', cur)) =
                   Held(accounts, InCurrency(accounts, cur))
      <3>1. /\ Possible(accounts, Cmd(c))
            /\ accounts' = AfterMove(accounts, Cmd(c))
        BY <2>1, CommitIsPossible
      <3>2. accounts[Cmd(c).src].currency = accounts[Cmd(c).dst].currency
        <4>1. Funded(c)
          BY <2>1, CommitEffect
        <4> QED BY <4>1 DEF Funded, Sides
      <3> QED BY <2>0, <3>1, <3>2, MoveStays
    <2>2. ASSUME NEW a \in Accounts, NEW c0 \in Currencies,
                 CreateAccount(a, c0)
          PROVE  Held(accounts', InCurrency(accounts', cur)) =
                   Held(accounts, InCurrency(accounts, cur))
      <3>1. /\ accounts[a] = NoRow
            /\ accounts'[a] = [currency |-> c0, balance |-> 0]
            /\ \A b \in Accounts \ {a} : accounts'[b] = accounts[b]
        <4>1. /\ accounts[a] = NoRow
              /\ accounts' = [accounts EXCEPT ![a] =
                                [currency |-> c0, balance |-> 0]]
          BY <2>2 DEF CreateAccount, L!CreateAccount
        <4>2. DOMAIN accounts = Accounts
          BY <2>0 DEF Rows
        <4> QED BY <4>1, <4>2
      <3>2. PICK N : N = accounts'
        OBVIOUS
      <3>3. \A b \in Accounts \ {a} : N[b] = accounts[b]
        BY <3>1, <3>2
      <3>4. N[a] # NoRow /\ N[a].balance = 0
        BY <3>1, <3>2, EmptyRow
      <3>5. Held(N, InCurrency(N, cur)) =
              Held(accounts, InCurrency(accounts, cur))
        BY <2>0, <3>1, <3>3, <3>4, AccountIsEmpty
      <3> QED BY <3>2, <3>5
    <2>3. accounts' = accounts =>
            Held(accounts', InCurrency(accounts', cur)) =
              Held(accounts, InCurrency(accounts, cur))
      OBVIOUS
    <2> QED BY <2>1, <2>2, <2>3, TableSteps DEF vars
  <1> QED BY <1>1, <1>2, Invariance, PTL DEF Spec

(****************************************************************************)
(* Posting implements Ledger: seen from outside, the transactions with their*)
(* locks, snapshots, retries and lost connections are single steps that     *)
(* happen at most once per call.                                            *)
(****************************************************************************)
(* Ledger's copy of the vocabulary is the same vocabulary.                  *)
LEMMA SameVocabulary ==
  /\ L!Pending = Pending
  /\ L!Outcomes = Outcomes
  /\ \A row, n : L!Moved(row, n) = Moved(row, n)
  /\ \A id, m : L!Legs(id, m) = Legs(id, m)
  /\ \A id, m, k, s : L!TransferRow(id, m, k, s) = TransferRow(id, m, k, s)
  BY DEF L!Pending, Pending, L!Outcomes, Outcomes, L!Rejections, Rejections,
         L!Malformed, Malformed, L!Moved, Moved, L!Legs, Legs,
         L!TransferRow, TransferRow

(* A call that is inside its transaction has committed nothing and has not  *)
(* been answered.                                                           *)
LEMMA Unanswered ==
  ASSUME PostingInv, NEW c \in Calls, pc[c] \notin {"idle", "done"}
  PROVE  /\ req[c] # NoReq
         /\ answer[c] = Pending
         /\ tx[c] # "none" => L!CommittedBy(c) = {}
  BY DEF PostingInv, CallInv, Control, Committed

(* The answers.                                                             *)
LEMMA AnswerStep ==
  ASSUME PostingInv, NEW c \in Calls, pc[c] \notin {"idle", "done"},
         NEW r \in Outcomes, L!Justified(c, r),
         answer' = [answer EXCEPT ![c] = r],
         UNCHANGED <<accounts, transfers, entries, req, known>>
  PROVE  L!Next
  <1>1. L!Answer(c, r)
    BY Unanswered, SameVocabulary DEF L!Answer
  <1> QED BY <1>1, SameVocabulary DEF L!Next

(* A refusal is true of the committed rows when it is given.                *)
LEMMA RejectRefines ==
  ASSUME PostingInv, NEW c \in Calls, NEW r \in Outcomes,
         pc[c] \in InTx \ {"commit"}, Reject(c, r), L!Justified(c, r)
  PROVE  L!Next
  <1>1. pc[c] \notin {"idle", "done"}
    BY DEF InTx
  <1> QED BY <1>1, AnswerStep DEF Reject

(* What the checks see at the check and at the debit is committed.          *)
LEMMA SeesCommitted ==
  ASSUME PostingInv, NEW c \in Calls, pc[c] \in {"check", "insert", "debit"}
  PROVE  \A a \in Sides(c) :
            /\ view[c][a] = accounts[a] /\ a \in L!Existing
  <1> TAKE a \in Sides(c)
  <1>1. CallInv(c) /\ a \in Accounts
    BY AtStatement DEF InTx, Sides
  <1> QED BY <1>1 DEF CallInv, Locks, PastLocks, HoldsRow, Views, Unwritten,
                      L!Existing

(* A retryable failure either goes round again, unseen, or exhausts the     *)
(* attempts of a call that committed nothing.                               *)
LEMMA RetryRefines ==
  ASSUME PostingInv, NEW c \in Calls, tx[c] # "none",
         pc[c] \notin {"idle", "done"}, RetryOrExhaust(c)
  PROVE  L!Next \/ UNCHANGED L!vars
  <1>1. CASE LastAttempt(c)
    <2>1. L!Justified(c, "Exhausted")
      BY Unanswered DEF L!Justified
    <2>2. "Exhausted" \in Outcomes
      BY DEF Outcomes
    <2> QED BY <1>1, <2>1, <2>2, AnswerStep DEF RetryOrExhaust
  <1>2. CASE ~LastAttempt(c)
    BY <1>2 DEF RetryOrExhaust, L!vars
  <1> QED BY <1>1, <1>2

(* The commit is the one step in which the transfer happens.                *)
LEMMA CommitRefines ==
  ASSUME PostingInv, NEW c \in Calls, ServerCommit(c)
  PROVE  L!Next
  <1> DEFINE m == Cmd(c)
             n == attempt[c]
  <1>0. TypeOK /\ CallInv(c) /\ tx[c] = "committing"
    BY DEF PostingInv, ServerCommit
  <1>1. /\ Valid(c) /\ Funded(c)
        /\ accounts[m.dst].balance + m.amount <= MaxBalance
        /\ accounts' = [accounts EXCEPT ![m.src] = Moved(@, -m.amount),
                                        ![m.dst] = Moved(@, m.amount)]
        /\ new[c] = TransferRow(<<c, n>>, m, req[c].key, "completed")
        /\ transfers' = transfers \cup {new[c]}
        /\ entries' = entries \cup Legs(<<c, n>>, m)
        /\ L!CommittedBy(c) = {}
    BY CommitEffect
  <1>2. req[c] # NoReq /\ answer[c] \in {Pending, "Failed"}
    BY <1>0, <1>1 DEF CallInv, Control, Valid
  <1>3. n \in 1 .. MaxAttempts
    BY <1>0, BoundsAssumption, SMT DEF CallInv, Control, TypeOK
  <1>4. L!CanPost(m)
    BY <1>1 DEF L!CanPost, Funded, Sides
  <1>5. ~L!KeyTaken(req[c].key)
    <2>1. new[c] # NoTransfer
      BY <1>0, <1>1, OwnTransferType DEF OwnTransfer, CallInv, Control
    <2>2. new[c].key = req[c].key
      BY <1>1, SMT DEF TransferRow
    <2> QED BY <2>1, <2>2 DEF PostingInv, KeyBarrier, L!KeyTaken
  <1>6. UNCHANGED <<req, known, answer>>
    BY DEF ServerCommit
  <1>7. m = req[c].cmd
    BY DEF Cmd
  <1> HIDE DEF m, n
  <1>8. \E i \in 1 .. MaxAttempts :
          /\ accounts' = [accounts EXCEPT ![m.src] = L!Moved(@, -m.amount),
                                          ![m.dst] = L!Moved(@, m.amount)]
          /\ transfers' = transfers \cup
                {L!TransferRow(<<c, i>>, m, req[c].key, "completed")}
          /\ entries' = entries \cup L!Legs(<<c, i>>, m)
    <2> WITNESS n \in 1 .. MaxAttempts
    <2> QED BY <1>1, SameVocabulary
  <1>9. L!Commit(c)
    BY <1>1, <1>2, <1>4, <1>5, <1>6, <1>7, <1>8, SameVocabulary
       DEF L!Commit
  <1> QED BY <1>9 DEF L!Next

(* Every refusal of post is justified.                                      *)
LEMMA RefusalRefines ==
  ASSUME PostingInv, NEW c \in Calls,
         \/ LockMissing(c) \/ CheckRefuses(c) \/ InsertDuplicate(c)
         \/ Debit(c) /\ ~DebitMatches(c)
         \/ CreditOverflows(c)
         \/ Complete(c) /\ ~Balanced(legs[c])
  PROVE  L!Next
  <1>0. /\ TypeOK /\ CallInv(c) /\ tx[c] # "none"
        /\ pc[c] \in InTx \ {"commit"}
        /\ L!CommittedBy(c) = {}
        /\ Cmd(c).src \in Accounts /\ Cmd(c).dst \in Accounts
        /\ Cmd(c).amount \in Nat
    <2>1. pc[c] \in InTx \ {"commit"}
      BY DEF LockMissing, Locking, CheckRefuses, InsertDuplicate, Debit,
             CreditOverflows, Complete, InTx
    <2>2. TypeOK /\ CallInv(c) /\ tx[c] # "none"
          /\ Cmd(c).src \in Accounts /\ Cmd(c).dst \in Accounts
          /\ Cmd(c).amount \in Nat
      BY <2>1, AtStatement
    <2>3. L!CommittedBy(c) = {}
      BY <2>1, <2>2, Unanswered DEF InTx
    <2> QED BY <2>1, <2>2, <2>3
  <1>1. CASE LockMissing(c)
    <2>1. Target(c) \in {Cmd(c).src, Cmd(c).dst}
      BY DEF Target, lockOrder
    <2>2. Target(c) \notin known[c]
      BY <1>0, <1>1 DEF LockMissing, CallInv, Views
    <2>3. CASE Target(c) = Cmd(c).src
      BY <1>0, <1>1, <2>2, <2>3, RejectRefines
         DEF LockMissing, missingAccountError, L!Justified, Outcomes,
             Rejections, Cmd
    <2>4. CASE Target(c) # Cmd(c).src
      BY <1>0, <1>1, <2>1, <2>2, <2>4, RejectRefines
         DEF LockMissing, missingAccountError, L!Justified, Outcomes,
             Rejections, Cmd
    <2> QED BY <2>3, <2>4
  <1>2. CASE CheckRefuses(c)
    <2>1. \A a \in Sides(c) : view[c][a] = accounts[a] /\ a \in L!Existing
      BY <1>2, SeesCommitted DEF CheckRefuses
    <2>2. Verdict(c) \in {"CurrencyMismatch", "InsufficientFunds"}
      BY <1>2 DEF CheckRefuses, Verdict
    <2>3. L!Justified(c, Verdict(c))
      BY <1>0, <1>2, <2>1 DEF CheckRefuses, Verdict, L!Justified, Sides, Cmd
    <2>4. Verdict(c) \in Outcomes
      BY <2>2 DEF Outcomes, Rejections
    <2> QED BY <1>0, <1>2, <2>3, <2>4, RejectRefines DEF CheckRefuses
  <1>3. CASE InsertDuplicate(c)
    BY <1>0, <1>3, RejectRefines
       DEF InsertDuplicate, L!Justified, Outcomes
  <1>4. CASE Debit(c) /\ ~DebitMatches(c)
    <2>1. view[c][Cmd(c).src] = accounts[Cmd(c).src]
          /\ Cmd(c).src \in L!Existing
      BY <1>4, SeesCommitted DEF Debit, Sides
    <2>2. accounts[Cmd(c).src].balance < Cmd(c).amount
      <3>1. accounts[Cmd(c).src] \in Row
        BY <1>0, <2>1 DEF TypeOK, L!Existing
      <3>2. accounts[Cmd(c).src].balance \in Int
        BY <3>1, BoundsAssumption, SMT DEF Row
      <3>3. ~(accounts[Cmd(c).src].balance >= Cmd(c).amount)
        BY <1>4, <2>1 DEF DebitMatches
      <3>4. Cmd(c).amount \in Int
        BY <1>4, AtStatement, SMT DEF Debit, InTx
      <3> QED BY <3>2, <3>3, <3>4, SMT
    <2>3. L!Justified(c, "InsufficientFunds")
      BY <1>0, <2>1, <2>2 DEF L!Justified, Cmd
    <2> QED BY <1>0, <1>4, <2>3, RejectRefines
            DEF Debit, Outcomes, Rejections
  <1>5. CASE CreditOverflows(c)
    BY <1>0, <1>5, RejectRefines DEF CreditOverflows, L!Justified, Outcomes
  <1>6. CASE Complete(c) /\ ~Balanced(legs[c])
    BY <1>0, <1>6, RejectRefines DEF Complete, L!Justified, Outcomes
  <1> QED BY <1>1, <1>2, <1>3, <1>4, <1>5, <1>6

(* Every step of a running call is a step of Ledger or invisible.           *)
LEMMA ProgressRefines ==
  ASSUME PostingInv, NEW c \in Calls, Progress(c)
  PROVE  L!Next \/ UNCHANGED L!vars
  <1>1. CASE \/ LockMissing(c) \/ CheckRefuses(c) \/ InsertDuplicate(c)
             \/ CreditOverflows(c)
    BY <1>1, RefusalRefines
  <1>2. CASE LockStale(c)
    <2>1. pc[c] \in InTx \ {"commit"} /\ pc[c] \notin {"idle", "done"}
      BY <1>2 DEF LockStale, Locking, InTx
    <2>2. tx[c] # "none" /\ RetryOrExhaust(c)
      BY <1>2, <2>1, AtStatement DEF LockStale
    <2> QED BY <2>1, <2>2, RetryRefines
  <1>3. CASE ServerCommit(c)
    BY <1>3, CommitRefines
  <1>4. CASE CommitAcknowledged(c)
    <2>1. L!Justified(c, "Posted") /\ "Posted" \in Outcomes
      BY <1>4 DEF CommitAcknowledged, PostingInv, CallInv, Committed,
                  L!Justified, Outcomes
    <2>2. pc[c] \notin {"idle", "done"}
      BY <1>4 DEF CommitAcknowledged
    <2> QED BY <1>4, <2>1, <2>2, AnswerStep DEF CommitAcknowledged
  <1>5. CASE \/ Begin(c) \/ LockGranted(c) \/ CheckPasses(c)
             \/ InsertTransfer(c) \/ Credit(c) \/ InsertEntries(c)
             \/ Retry(c)
    BY <1>5 DEF Begin, LockGranted, CheckPasses, InsertTransfer,
                Credit, InsertEntries, Retry, Goto, L!vars
  <1>6. CASE Debit(c)
    <2>1. CASE DebitMatches(c)
      BY <1>6, <2>1 DEF Debit, Goto, L!vars
    <2>2. CASE ~DebitMatches(c)
      BY <1>6, <2>2, RefusalRefines
    <2> QED BY <2>1, <2>2
  <1>7. CASE Complete(c)
    <2>1. CASE Balanced(legs[c])
      BY <1>7, <2>1 DEF Complete, Goto, L!vars
    <2>2. CASE ~Balanced(legs[c])
      BY <1>7, <2>2, RefusalRefines
    <2> QED BY <2>1, <2>2
  <1> QED BY <1>1, <1>2, <1>3, <1>4, <1>5, <1>6, <1>7 DEF Progress

(* Posting implements Ledger, for every set of calls, accounts, keys and    *)
(* commands: a call commits at most once however often it is retried, at    *)
(* most one call per key commits, a refusal is true when given and final,   *)
(* and only "Failed" leaves the outcome open.                               *)
THEOREM Refinement == Spec => ImplementsLedger
  <1>1. Init => L!Init
    BY DEF Init
  <1>2. PostingInv /\ [Next]_vars => [L!Next]_(L!vars)
    <2> SUFFICES ASSUME PostingInv, [Next]_vars
                 PROVE  L!Next \/ UNCHANGED L!vars
      OBVIOUS
    <2>1. CASE UNCHANGED vars
      BY <2>1 DEF vars, L!vars
    <2>2. ASSUME NEW a \in Accounts, NEW cur \in Currencies,
                 CreateAccount(a, cur)
          PROVE  L!Next
      BY <2>2 DEF CreateAccount, L!Next
    <2>3. ASSUME NEW c \in Calls, NEW k \in Keys \cup {NoKey},
                 NEW m \in Commands, Invoke(c, k, m)
          PROVE  L!Next
      BY <2>3 DEF Invoke, L!Next
    <2>4. ASSUME NEW c \in Calls, SerializationFailure(c)
          PROVE  L!Next \/ UNCHANGED L!vars
      <3>1. pc[c] \notin {"idle", "done"} /\ tx[c] # "none"
        BY <2>4 DEF SerializationFailure, PostingInv, CallInv, Control
      <3> QED BY <2>4, <3>1, RetryRefines DEF SerializationFailure
    <2>5. ASSUME NEW c \in Calls, GiveUp(c)
          PROVE  L!Next
      <3>1. L!Justified(c, "Failed") /\ "Failed" \in Outcomes
        BY DEF L!Justified, Outcomes
      <3> QED BY <2>5, <3>1, AnswerStep DEF GiveUp
    <2>6. ASSUME NEW c \in Calls, ServerRollback(c)
          PROVE  UNCHANGED L!vars
      BY <2>6 DEF ServerRollback, client, L!vars
    <2> QED BY <2>1, <2>2, <2>3, <2>4, <2>5, <2>6, ProgressRefines DEF Next
  <1> QED BY <1>1, <1>2, Invariance, PTL DEF Spec, ImplementsLedger, L!Spec

(****************************************************************************)
(* The locking order of lockAccounts excludes deadlock.                     *)
(*                                                                          *)
(* The argument: a transaction that has inserted its key waits for nothing  *)
(* any more, so no one on a cycle waits for a key; a transaction that holds *)
(* a row and waits for another waits for a larger id, so along a cycle of   *)
(* row waits the ids would grow for ever.                                   *)
(****************************************************************************)
(* Who has inserted a key waits for nobody.                                 *)
LEMMA KeyHolderRuns ==
  ASSUME PostingInv, NEW c \in Calls, NEW d \in Calls, NEW e \in Calls,
         WaitsForKey(c, d)
  PROVE  ~WaitsFor(d, e)
  BY Zenon DEF PostingInv, CallInv, Inserts, WaitsForKey, WaitsFor, WaitsForRow,
         Locking

(* Who holds a row and waits for a row waits for a larger id.               *)
LEMMA RowWaitsAscend ==
  ASSUME PostingInv, NEW c \in Calls, NEW d \in Calls, NEW e \in Calls,
         WaitsForRow(c, d), WaitsForRow(d, e)
  PROVE  /\ Target(c) \in Accounts /\ Target(d) \in Accounts
         /\ Target(c) < Target(d)
  <1>1. /\ pc[c] \in {"lock1", "lock2"} /\ pc[d] \in {"lock1", "lock2"}
        /\ TypeOK /\ Valid(c) /\ Valid(d) /\ CallInv(d)
    BY AtStatement DEF WaitsForRow, Locking, InTx
  <1>2. Target(c) \in Accounts
    <2>1. PICK x \in Accounts, y \in Accounts :
            lockOrder(Cmd(c).src, Cmd(c).dst) = <<x, y>>
      BY <1>1, LockOrder
    <2> QED BY <2>1, SMT DEF Target
  <1>3. PICK x \in Accounts, y \in Accounts :
            /\ lockOrder(Cmd(d).src, Cmd(d).dst) = <<x, y>>
            /\ x \in Nat /\ y \in Nat /\ x < y
    BY <1>1, LockOrder
  <1>f. First(d) = x
    BY <1>3, SMT DEF First
  <1>g. lock[Target(c)] = d
    BY DEF WaitsForRow
  <1>4. pc[d] = "lock2" /\ Target(c) = x
    BY <1>1, <1>2, <1>f, <1>g DEF CallInv, Locks
  <1>5. Target(d) = y
    BY <1>3, <1>4, SMT DEF Target
  <1> QED BY <1>2, <1>3, <1>4, <1>5

(* "The whole of the deadlock-prevention strategy" (transfer.go:420) is     *)
(* enough: no set of calls ever waits in a cycle, over row locks, over the  *)
(* unique index on the key, or over both.                                   *)
THEOREM DeadlockFree == Spec => []NoWaitCycle
  <1>1. PostingInv => NoWaitCycle
    <2> SUFFICES ASSUME PostingInv, NEW S \in SUBSET Calls, S # {},
                        \A c \in S : \E d \in S : WaitsFor(c, d)
                 PROVE  FALSE
      BY DEF NoWaitCycle
    <2>1. \A c \in S : \E d \in S : WaitsForRow(c, d)
      BY KeyHolderRuns DEF WaitsFor
    <2>2. \A c \in S : \E d \in S :
            /\ Target(c) \in Accounts /\ Target(d) \in Accounts
            /\ Target(c) < Target(d)
      BY <2>1, RowWaitsAscend
    <2> DEFINE T == { Target(c) : c \in S }
    <2>3. T \subseteq 0 .. MaxAccountID /\ T # {}
      <3>1. \A c \in S : Target(c) \in Accounts
        BY <2>2
      <3>2. Accounts \subseteq 0 .. MaxAccountID
        BY AccountsAssumption, SMT
      <3>3. PICK c \in S : TRUE
        OBVIOUS
      <3>4. Target(c) \in T
        BY <3>3
      <3> QED BY <3>1, <3>2, <3>4
    <2>4. PICK x \in T : \A y \in T : ~(x < y)
      <3> HIDE DEF T
      <3> QED BY <2>3, Largest, AccountsAssumption, Zenon
    <2> QED BY <2>2, <2>4
  <1> QED BY <1>1, Invariance, PTL
==============================================================================
