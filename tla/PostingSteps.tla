---------------------------- MODULE PostingSteps -----------------------------
(****************************************************************************)
(* Every step of Posting keeps the inductive invariant PostingInv: the lemmas,*)
(* one per action, for every set of calls, accounts, keys and commands and  *)
(* every value of the bounds. PostingProofs draws the theorems from them.   *)
(****************************************************************************)
EXTENDS PostingProps, TLAPS

(* Most leaves are first-order; those with arithmetic, EXCEPT or records    *)
(* name the SMT solver.                                                     *)
USE Zenon

(****************************************************************************)
(* Around the statements: what a step of one call has to establish, the     *)
(* call, the begin and end of its transactions, retries, lost connections   *)
(****************************************************************************)
(* What Command.Validate lets through: two different, non-nil accounts, a   *)
(* positive amount and a valid currency.                                    *)
LEMMA ValidCommand ==
  ASSUME NEW m \in Commands, Validate(m) = "ok"
  PROVE  /\ m.src \in Accounts
         /\ m.dst \in Accounts
         /\ m.src # m.dst
         /\ m.amount \in Nat \ {0}
         /\ m.amount <= MaxBalance
         /\ m.currency \in Currencies
  BY CommandsAssumption, SMT DEF Validate

(* The same, for the command of a call.                                     *)
LEMMA ValidCall ==
  ASSUME TypeOK, NEW c \in Calls, Valid(c)
  PROVE  /\ req[c] \in Request
         /\ Cmd(c) \in Commands
         /\ req[c].key \in Keys \cup {NoKey}
         /\ Cmd(c).src \in Accounts
         /\ Cmd(c).dst \in Accounts
         /\ Cmd(c).src # Cmd(c).dst
         /\ Cmd(c).amount \in Nat \ {0}
         /\ Cmd(c).amount <= MaxBalance
         /\ Cmd(c).currency \in Currencies
  BY ValidCommand DEF TypeOK, Valid, Request, Cmd

(* The invariant holds in the initial state.                                *)
LEMMA InitInv == Init => PostingInv
  <1> SUFFICES ASSUME Init PROVE PostingInv
    OBVIOUS
  <1> USE DEF Init, L!Init
  <1>1. TypeOK
    BY OpeningAssumption, BoundsAssumption, SMT
       DEF TypeOK, Blank, Outcomes, L!Pending, Pending, InTx
  <1>2. ASSUME NEW c \in Calls PROVE CallInv(c)
    <2>1. Control(c)
      BY DEF Control, Pending, L!Pending, InTx
    <2>2. Locks(c)
      BY NullsAssumption DEF Locks, PastLocks
    <2>3. Views(c)
      BY DEF Views, Written
    <2>4. Inserts(c)
      BY DEF Inserts
    <2>5. Committed(c)
      BY DEF Committed, L!CommittedBy
    <2> QED BY <2>1, <2>2, <2>3, <2>4, <2>5 DEF CallInv
  <1>3. KeyBarrier
    BY DEF KeyBarrier
  <1>4. OneTransferPerKey /\ DoubleEntry
    BY DEF OneTransferPerKey, DoubleEntry
  <1> QED BY <1>1, <1>2, <1>3, <1>4 DEF PostingInv

(****************************************************************************)
(* A step of one call leaves the others alone                               *)
(****************************************************************************)
SameCall(d) ==
    /\ req'[d] = req[d] /\ known'[d] = known[d] /\ answer'[d] = answer[d]
    /\ pc'[d] = pc[d] /\ attempt'[d] = attempt[d] /\ tx'[d] = tx[d]
    /\ view'[d] = view[d] /\ stale'[d] = stale[d]
    /\ new'[d] = new[d] /\ legs'[d] = legs[d]

SameLocks(d) == \A a \in Accounts : (lock'[a] = d) <=> (lock[a] = d)

RowsKept == \A a \in Accounts : accounts[a] # NoRow => accounts'[a] = accounts[a]

(* A call none of whose state changes keeps its invariant when rows that    *)
(* exist keep their values and no transfer commits.                         *)
LEMMA Frame ==
  ASSUME TypeOK, NEW d \in Calls, CallInv(d),
         SameCall(d), SameLocks(d), RowsKept, transfers' = transfers
  PROVE  CallInv(d)'
  <1> USE DEF SameCall
  <1>v. (Valid(d) <=> Valid(d)') /\ (req[d] # NoReq => Cmd(d)' = Cmd(d))
    BY DEF Valid, Cmd
  <1>c. Cmd(d)' = Cmd(d)
    BY DEF Cmd
  <1>s. (PastLocks(d) \/ Written(d) \/ pc[d] \in InTx \ {"commit"}) => Valid(d)
    BY DEF CallInv, Control, PastLocks, Written, InTx
  <1>t. Valid(d) => Cmd(d).src \in Accounts /\ Cmd(d).dst \in Accounts
    BY ValidCall
  <1>1. Control(d)'
    BY <1>v DEF CallInv, Control
  <1>2. Locks(d)'
    <2>1. \A a \in Accounts : HoldsRow(d, a) => HoldsRow(d, a)'
      BY DEF HoldsRow, SameLocks
    <2>2. PastLocks(d)' => PastLocks(d)
      BY DEF PastLocks
    <2>3. \A a \in Accounts : lock'[a] = d => tx'[d] # "none"
      BY DEF SameLocks, CallInv, Locks
    <2>4. PastLocks(d)' => \A a \in Sides(d)' : HoldsRow(d, a)'
      BY <2>1, <2>2, <1>c, <1>s, <1>t DEF CallInv, Locks, Sides
    <2>f. First(d)' = First(d) /\ (pc[d] = "lock2" => First(d) \in Accounts)
      BY <1>c, <1>s, <1>t DEF First, lockOrder, InTx
    <2>5. pc'[d] = "lock2" =>
            /\ HoldsRow(d, First(d))'
            /\ \A a \in Accounts : lock'[a] = d => a = First(d)'
      BY <2>1, <2>f DEF CallInv, Locks, SameLocks
    <2>6. pc'[d] = "lock1" => \A a \in Accounts : lock'[a] # d
      BY DEF CallInv, Locks, SameLocks
    <2> QED BY <2>3, <2>4, <2>5, <2>6 DEF Locks
  <1>3. Views(d)'
    <2>1. \A a \in Accounts : Unwritten(d, a) => Unwritten(d, a)'
      BY DEF Unwritten, RowsKept
    <2>2. Valid(d) /\ Funded(d) => Funded(d)'
      BY <1>c, <1>t DEF Funded, RowsKept, Sides
    <2>3. Valid(d) /\ Funded(d) =>
            /\ Debited(d) => Debited(d)'
            /\ Credited(d) => Credited(d)'
            /\ accounts'[Cmd(d).dst] = accounts[Cmd(d).dst]
      BY <1>c, <1>t DEF Funded, RowsKept, Sides, Debited, Credited
    <2>4. Written(d)' <=> Written(d)
      BY DEF Written
    <2>5. \A a \in known'[d] :
            accounts'[a] # NoRow /\ (tx'[d] # "none" => view'[d][a] # NoRow)
      BY DEF CallInv, Views, RowsKept, TypeOK
    <2>6. pc'[d] \in {"lock1", "lock2", "check", "insert", "debit"} =>
            \A a \in Accounts : Unwritten(d, a)'
      BY <2>1 DEF CallInv, Views
    <2>7. pc'[d] \in {"insert", "debit", "credit"} \/ Written(d)' => Funded(d)'
      BY <2>2, <2>4, <1>s DEF CallInv, Views, InTx
    <2>8. pc'[d] = "credit" => Debited(d)' /\ Unwritten(d, Cmd(d).dst)'
      BY <2>1, <2>3, <1>s, <1>t, <1>c DEF CallInv, Views, InTx
    <2>9. Written(d)' => /\ Debited(d)'
                         /\ Credited(d)'
                         /\ accounts'[Cmd(d)'.dst].balance + Cmd(d)'.amount
                                <= MaxBalance
      BY <2>3, <2>4, <1>s, <1>t, <1>c DEF CallInv, Views
    <2> QED BY <2>5, <2>6, <2>7, <2>8, <2>9 DEF Views
  <1>4. Inserts(d)'
    BY <1>c DEF CallInv, Inserts, OwnTransfer
  <1>5. Committed(d)'
    BY DEF CallInv, Committed, L!CommittedBy
  <1> QED BY <1>1, <1>2, <1>3, <1>4, <1>5 DEF CallInv

(* What a step of call c has to establish when it commits nothing: its own  *)
(* types and its own invariant, and that a key it inserts was free.         *)
LEMMA OwnStep ==
  ASSUME PostingInv, NEW c \in Calls,
         TypeOK', CallInv(c)',
         \A d \in Calls \ {c} : SameCall(d) /\ SameLocks(d),
         RowsKept, transfers' = transfers, entries' = entries,
         \/ new'[c] = NoTransfer
         \/ new[c] # NoTransfer /\ new'[c].key = new[c].key
         \/ ~KeyPending(c, new'[c].key) /\ ~L!KeyTaken(new'[c].key)
  PROVE  PostingInv'
  <1>1. ASSUME NEW d \in Calls PROVE CallInv(d)'
    <2>1. CASE d = c
      BY <2>1
    <2>2. CASE d # c
      BY <2>2, Frame DEF PostingInv
    <2> QED BY <2>1, <2>2
  <1>2. KeyBarrier'
    <2>1. \A k : L!KeyTaken(k)' <=> L!KeyTaken(k)
      BY DEF L!KeyTaken
    <2>2. \A d \in Calls \ {c} : new'[d] = new[d]
      BY DEF SameCall
    <2>3. CASE new'[c] = NoTransfer
      BY <2>1, <2>2, <2>3, SMT DEF KeyBarrier, PostingInv
    <2>4. CASE new[c] # NoTransfer /\ new'[c].key = new[c].key
      BY <2>1, <2>2, <2>4, SMT DEF KeyBarrier, PostingInv
    <2>5. CASE ~KeyPending(c, new'[c].key) /\ ~L!KeyTaken(new'[c].key)
      BY <2>1, <2>2, <2>5, SMT DEF KeyBarrier, PostingInv, KeyPending
    <2> QED BY <2>3, <2>4, <2>5
  <1>3. OneTransferPerKey' /\ DoubleEntry'
    BY DEF PostingInv, OneTransferPerKey, DoubleEntry
  <1> QED BY <1>1, <1>2, <1>3 DEF PostingInv

(* The end of a transaction without a commit: the call is told r and is at  *)
(* p, its locks and its writes are gone.                                    *)
LEMMA TxEnds ==
  ASSUME PostingInv, NEW c \in Calls, NEW p, NEW r,
         tx[c] # "none",
         EndTx(c), stale' = [stale EXCEPT ![c] = {}],
         pc' = [pc EXCEPT ![c] = p], answer' = [answer EXCEPT ![c] = r],
         UNCHANGED <<accounts, transfers, entries, req, known, attempt>>,
         \/ p = "done" /\ r \in Outcomes
         \/ p = "backoff" /\ r = Pending /\ attempt[c] < MaxAttempts
  PROVE  PostingInv'
  <1> USE DEF EndTx, FreeLocks
  <1>0. TypeOK /\ CallInv(c)
    BY DEF PostingInv
  <1>p. /\ pc'[c] = p /\ answer'[c] = r /\ tx'[c] = "none"
        /\ new'[c] = NoTransfer /\ stale'[c] = {}
        /\ \A a \in Accounts : lock'[a] # c
    BY <1>0, NullsAssumption DEF TypeOK
  <1>1. TypeOK'
    BY <1>0 DEF TypeOK, Blank, InTx
  <1>2. CallInv(c)'
    <2>1. Control(c)'
      BY <1>0, <1>p DEF CallInv, Control, Valid, Cmd, Outcomes, Rejections,
                        Malformed, Pending, InTx, TypeOK
    <2>2. Locks(c)'
      BY <1>p DEF Locks, PastLocks
    <2>3. Views(c)'
      BY <1>0, <1>p DEF CallInv, Views, Written
    <2>4. Inserts(c)'
      BY <1>p DEF Inserts
    <2>5. Committed(c)'
      BY <1>0, <1>p DEF CallInv, Committed, L!CommittedBy
    <2> QED BY <2>1, <2>2, <2>3, <2>4, <2>5 DEF CallInv
  <1>3. \A d \in Calls \ {c} : SameCall(d) /\ SameLocks(d)
    BY <1>0, NullsAssumption, SMT DEF TypeOK, SameCall, SameLocks
  <1>4. RowsKept
    BY DEF RowsKept
  <1> QED BY <1>1, <1>2, <1>3, <1>4, <1>p, OwnStep

(* post's error return with its deferred rollback.                          *)
LEMMA RejectInv ==
  ASSUME PostingInv, NEW c \in Calls, NEW r \in Outcomes,
         tx[c] # "none", Reject(c, r)
  PROVE  PostingInv'
  BY TxEnds DEF Reject

(* A retryable failure, on the last attempt or before it.                   *)
LEMMA RetryOrExhaustInv ==
  ASSUME PostingInv, NEW c \in Calls, tx[c] # "none", pc[c] # "done",
         RetryOrExhaust(c)
  PROVE  PostingInv'
  <1>1. CASE LastAttempt(c)
    BY <1>1, TxEnds DEF RetryOrExhaust, Outcomes
  <1>2. CASE ~LastAttempt(c)
    <2>1. answer' = [answer EXCEPT ![c] = Pending]
      BY <1>2, SMT DEF RetryOrExhaust, PostingInv, CallInv, Control, TypeOK
    <2>2. attempt[c] < MaxAttempts
      BY <1>2, BoundsAssumption, SMT DEF PostingInv, TypeOK, LastAttempt
    <2> QED BY <1>2, <2>1, <2>2, TxEnds DEF RetryOrExhaust
  <1> QED BY <1>1, <1>2

(* The server's rollback of an abandoned transaction.                       *)
LEMMA ServerRollbackInv ==
  ASSUME PostingInv, NEW c \in Calls, ServerRollback(c)
  PROVE  PostingInv'
  <1>1. /\ pc' = [pc EXCEPT ![c] = "done"]
        /\ answer' = [answer EXCEPT ![c] = "Failed"]
    BY DEF ServerRollback, PostingInv, CallInv, Control, TypeOK, client
  <1> QED BY <1>1, TxEnds DEF ServerRollback, client, Outcomes

(* account.Store.Create only adds a row.                                    *)
LEMMA CreateAccountInv ==
  ASSUME PostingInv, NEW a \in Accounts, NEW cur \in Currencies,
         CreateAccount(a, cur)
  PROVE  PostingInv'
  <1> USE DEF CreateAccount, L!CreateAccount
  <1>0. TypeOK
    BY DEF PostingInv
  <1>1. TypeOK'
    <2>1. [currency |-> cur, balance |-> 0] \in Row
      BY BoundsAssumption, SMT DEF Row
    <2> QED BY <1>0, <2>1 DEF TypeOK
  <1>2. RowsKept
    BY <1>0 DEF RowsKept, TypeOK
  <1>3. ASSUME NEW d \in Calls PROVE CallInv(d)'
    <2>1. SameCall(d) /\ SameLocks(d)
      BY DEF SameCall, SameLocks
    <2> QED BY <1>0, <1>2, <2>1, Frame DEF PostingInv
  <1>4. KeyBarrier'
    BY DEF PostingInv, KeyBarrier, L!KeyTaken
  <1>5. OneTransferPerKey' /\ DoubleEntry'
    BY DEF PostingInv, OneTransferPerKey, DoubleEntry
  <1> QED BY <1>1, <1>3, <1>4, <1>5 DEF PostingInv

(* The call is made and its command validated.                              *)
LEMMA InvokeInv ==
  ASSUME PostingInv, NEW c \in Calls, NEW k \in Keys \cup {NoKey},
         NEW m \in Commands, Invoke(c, k, m)
  PROVE  PostingInv'
  <1> USE DEF Invoke, L!Invoke
  <1>0. TypeOK /\ CallInv(c)
    BY DEF PostingInv
  <1>v. L!Validate(m) = Validate(m) /\ L!Pending = Pending
    BY DEF L!Validate, Validate, L!Pending, Pending, L!NilID, NilID
  <1>w. Validate(m) = "ok" \/ Validate(m) \in Malformed
    BY DEF Validate, Malformed
  <1>r. [cmd |-> m, key |-> k] \in Request
    BY DEF Request
  <1>i. pc[c] = "idle" /\ tx[c] = "none" /\ new[c] = NoTransfer
    BY <1>0 DEF CallInv, Control
  <1>n. L!CommittedBy(c) = {}
    BY <1>0, <1>i DEF CallInv, Committed
  <1>1. TypeOK'
    <2>1. answer' \in [Calls -> Outcomes \cup {Pending}]
      BY <1>0, <1>v, <1>w DEF TypeOK, Outcomes
    <2>2. /\ req' \in [Calls -> Request \cup {NoReq}]
          /\ known' \in [Calls -> SUBSET Accounts]
      BY <1>0, <1>r DEF TypeOK, L!Existing
    <2>3. pc' \in [Calls -> InTx \cup {"idle", "begin", "backoff", "done"}]
      BY <1>0 DEF TypeOK
    <2>4. attempt' \in [Calls -> 0 .. MaxAttempts]
      <3>1. 1 \in 0 .. MaxAttempts
        BY BoundsAssumption, SMT
      <3>2. attempt' = attempt \/ attempt' = [attempt EXCEPT ![c] = 1]
        OBVIOUS
      <3> QED BY <1>0, <3>1, <3>2 DEF TypeOK
    <2> QED BY <1>0, <2>1, <2>2, <2>3, <2>4 DEF TypeOK
  <1>2. CallInv(c)'
    <2>r. req'[c] = [cmd |-> m, key |-> k] /\ req'[c] # NoReq /\ Cmd(c)' = m
      BY <1>0, <1>r, NullsAssumption DEF TypeOK, Cmd
    <2>p. /\ Validate(m) = "ok" => pc'[c] = "begin" /\ answer'[c] = Pending
                                   /\ attempt'[c] = 1
          /\ Validate(m) # "ok" => pc'[c] = "done" /\ answer'[c] # Pending
      BY <1>0, <1>v, <1>w, SMT DEF TypeOK, Malformed, Pending
    <2>1. Control(c)'
      <3>1. CASE Validate(m) = "ok"
        BY <1>i, <2>r, <2>p, <3>1, SMT DEF Control, Valid, InTx
      <3>2. CASE Validate(m) # "ok"
        BY <1>i, <2>r, <2>p, <3>2 DEF Control, InTx
      <3> QED BY <3>1, <3>2
    <2>2. Locks(c)'
      BY <1>0, <1>i, <2>p DEF CallInv, Locks, PastLocks
    <2>3. Views(c)'
      <3>1. known'[c] = L!Existing
        BY <1>0 DEF TypeOK
      <3> QED BY <1>i, <2>p, <3>1 DEF Views, Written, L!Existing
    <2>4. Inserts(c)'
      BY <1>i, <2>p DEF Inserts
    <2>5. Committed(c)'
      BY <1>n, <2>p DEF Committed, L!CommittedBy
    <2> QED BY <2>1, <2>2, <2>3, <2>4, <2>5 DEF CallInv
  <1>3. \A d \in Calls \ {c} : SameCall(d) /\ SameLocks(d)
    BY <1>0 DEF TypeOK, SameCall, SameLocks
  <1> QED BY <1>1, <1>2, <1>3, <1>i, OwnStep DEF RowsKept

(* BeginTx: a fresh snapshot.                                               *)
LEMMA BeginInv ==
  ASSUME PostingInv, NEW c \in Calls, Begin(c)
  PROVE  PostingInv'
  <1> USE DEF Begin
  <1>0. TypeOK /\ CallInv(c)
    BY DEF PostingInv
  <1>p. /\ pc'[c] = "lock1" /\ tx'[c] = "active" /\ view'[c] = accounts
        /\ tx[c] = "none" /\ new[c] = NoTransfer
    BY <1>0 DEF TypeOK, CallInv, Control
  <1>1. TypeOK'
    BY <1>0 DEF TypeOK, InTx
  <1>2. CallInv(c)'
    <2>1. Control(c)'
      BY <1>0, <1>p DEF CallInv, Control, InTx, Valid, Cmd
    <2>2. Locks(c)'
      BY <1>0, <1>p DEF CallInv, Locks, PastLocks
    <2>3. Views(c)'
      BY <1>0, <1>p DEF CallInv, Views, Written, Unwritten
    <2>4. Inserts(c)'
      BY <1>p DEF Inserts
    <2>5. Committed(c)'
      BY <1>0, <1>p DEF CallInv, Committed, L!CommittedBy
    <2> QED BY <2>1, <2>2, <2>3, <2>4, <2>5 DEF CallInv
  <1>3. \A d \in Calls \ {c} : SameCall(d) /\ SameLocks(d)
    BY <1>0 DEF TypeOK, SameCall, SameLocks
  <1> QED BY <1>1, <1>2, <1>3, <1>p, OwnStep DEF RowsKept

(* The next attempt.                                                        *)
LEMMA RetryInv ==
  ASSUME PostingInv, NEW c \in Calls, Retry(c)
  PROVE  PostingInv'
  <1> USE DEF Retry, NextAttempt
  <1>0. TypeOK /\ CallInv(c)
    BY DEF PostingInv
  <1>p. /\ pc'[c] = "begin" /\ attempt'[c] = attempt[c] + 1
        /\ tx[c] = "none" /\ new[c] = NoTransfer
        /\ attempt[c] \in Nat /\ attempt[c] + 1 \in 0 .. MaxAttempts
    BY <1>0, BoundsAssumption, SMT DEF TypeOK, CallInv, Control
  <1>1. TypeOK'
    BY <1>0, <1>p DEF TypeOK
  <1>2. CallInv(c)'
    <2>1. Control(c)'
      BY <1>0, <1>p, SMT DEF CallInv, Control, InTx, Valid, Cmd
    <2>2. Locks(c)'
      BY <1>0, <1>p DEF CallInv, Locks, PastLocks
    <2>3. Views(c)'
      BY <1>0, <1>p DEF CallInv, Views, Written
    <2>4. Inserts(c)'
      BY <1>p DEF Inserts
    <2>5. Committed(c)'
      BY <1>0, <1>p DEF CallInv, Committed, L!CommittedBy
    <2> QED BY <2>1, <2>2, <2>3, <2>4, <2>5 DEF CallInv
  <1>3. \A d \in Calls \ {c} : SameCall(d) /\ SameLocks(d)
    BY <1>0 DEF TypeOK, SameCall, SameLocks
  <1> QED BY <1>1, <1>2, <1>3, <1>p, OwnStep DEF RowsKept

(* The client is told r and leaves; the server's side is as it was.         *)
LEMMA ClientLeaves ==
  ASSUME PostingInv, NEW c \in Calls,
         \/ GiveUp(c)
         \/ CommitAcknowledged(c)
  PROVE  PostingInv'
  <1> USE DEF GiveUp, CommitAcknowledged
  <1>0. TypeOK /\ CallInv(c)
    BY DEF PostingInv
  <1>u. UNCHANGED <<accounts, transfers, entries, req, known,
                    lock, attempt, tx, view, stale, new, legs>>
    OBVIOUS
  <1>p. /\ pc'[c] = "done" /\ pc[c] \notin {"idle", "done"}
        /\ \/ answer'[c] = "Failed"
           \/ answer'[c] = "Posted" /\ tx[c] = "none"
    BY <1>0 DEF TypeOK
  <1>1. TypeOK'
    BY <1>0 DEF TypeOK, Outcomes
  <1>2. \A d \in Calls \ {c} : SameCall(d) /\ SameLocks(d)
    BY <1>0, <1>u DEF TypeOK, SameCall, SameLocks
  <1> HIDE DEF GiveUp, CommitAcknowledged
  <1>3. CallInv(c)'
    <2>1. Control(c)'
      BY <1>0, <1>p, <1>u DEF CallInv, Control, InTx, Valid, Cmd, Pending
    <2>2. Locks(c)'
      BY <1>0, <1>p, <1>u DEF CallInv, Locks, PastLocks, Sides, Cmd, HoldsRow
    <2>3. Views(c)'
      <3>1. Written(c)' => Written(c)
        BY <1>p, <1>u DEF Written
      <3>2. (Funded(c) => Funded(c)') /\ (Debited(c) => Debited(c)')
            /\ (Credited(c) => Credited(c)') /\ Cmd(c)' = Cmd(c)
        BY <1>u DEF Funded, Debited, Credited, Cmd, Sides
      <3> QED BY <1>0, <1>p, <1>u, <3>1, <3>2 DEF CallInv, Views
    <2>4. Inserts(c)'
      BY <1>0, <1>p, <1>u DEF CallInv, Inserts, OwnTransfer, Cmd
    <2>5. Committed(c)'
      BY <1>0, <1>p, <1>u DEF CallInv, Committed, L!CommittedBy
    <2> QED BY <2>1, <2>2, <2>3, <2>4, <2>5 DEF CallInv
  <1>4. \/ new'[c] = NoTransfer
        \/ new[c] # NoTransfer /\ new'[c].key = new[c].key
    BY <1>u
  <1> QED BY <1>1, <1>2, <1>3, <1>4, <1>u, OwnStep DEF RowsKept

(****************************************************************************)
(* The statements of post                                                   *)
(****************************************************************************)
(* What a statement that succeeds leaves to show: types, locks, views and   *)
(* inserts of its own call.                                                 *)
LEMMA StatementStep ==
  ASSUME PostingInv, NEW c \in Calls, NEW p \in InTx \ {"lock1"}, NEW s,
         pc[c] \in InTx \ {"commit"},
         Goto(c, p), tx' = [tx EXCEPT ![c] = s],
         s = IF p = "commit" THEN "committing" ELSE "active",
         TypeOK', Locks(c)', Views(c)', Inserts(c)',
         \A d \in Calls \ {c} :
            view'[d] = view[d] /\ new'[d] = new[d] /\ legs'[d] = legs[d],
         \A d \in Calls \ {c} : SameLocks(d),
         \/ new'[c] = NoTransfer
         \/ new[c] # NoTransfer /\ new'[c].key = new[c].key
         \/ ~KeyPending(c, new'[c].key) /\ ~L!KeyTaken(new'[c].key)
  PROVE  PostingInv'
  <1> USE DEF Goto
  <1>0. TypeOK /\ CallInv(c)
    BY DEF PostingInv
  <1>p. pc'[c] = p /\ tx'[c] = s
    BY <1>0, SMT DEF TypeOK
  <1>a. /\ tx[c] = "active" /\ answer[c] = Pending /\ req[c] # NoReq
        /\ Valid(c) /\ attempt[c] >= 1
    BY <1>0 DEF CallInv, Control, InTx
  <1>u. /\ answer'[c] = Pending /\ req'[c] # NoReq
        /\ Valid(c)' /\ attempt'[c] >= 1
    BY <1>a DEF Valid, Cmd
  <1>1. Control(c)'
    BY <1>p, <1>u, SMT DEF Control, InTx
  <1>2. Committed(c)'
    <2>1. L!CommittedBy(c) = {}
      BY <1>0, <1>a DEF CallInv, Committed
    <2>2. L!CommittedBy(c)' = {}
      BY <2>1 DEF L!CommittedBy
    <2> QED BY <1>p, <2>2, SMT DEF Committed
  <1>3. CallInv(c)'
    BY <1>1, <1>2 DEF CallInv
  <1>4. \A d \in Calls \ {c} : SameCall(d) /\ SameLocks(d)
    BY <1>0, SMT DEF TypeOK, SameCall
  <1> QED BY <1>3, <1>4, OwnStep DEF RowsKept

(* What every statement can rely on.                                        *)
LEMMA AtStatement ==
  ASSUME PostingInv, NEW c \in Calls, pc[c] \in InTx \ {"commit"}
  PROVE  /\ TypeOK /\ CallInv(c) /\ tx[c] = "active" /\ Valid(c)
         /\ tx = [tx EXCEPT ![c] = "active"]
         /\ Cmd(c).src \in Accounts /\ Cmd(c).dst \in Accounts
         /\ Cmd(c).src # Cmd(c).dst
         /\ Cmd(c).amount \in Nat \ {0}
  <1>1. TypeOK /\ CallInv(c) /\ tx[c] = "active" /\ Valid(c)
    BY DEF PostingInv, CallInv, Control, InTx
  <1>2. tx = [tx EXCEPT ![c] = "active"]
    BY <1>1 DEF TypeOK
  <1> QED BY <1>1, <1>2, ValidCall

(* The rows of a call past its locks: it holds them, and one it has not     *)
(* written yet it sees as committed.                                        *)
LEMMA RowsHeld ==
  ASSUME TypeOK, NEW c \in Calls, CallInv(c), Valid(c), PastLocks(c),
         NEW a \in Sides(c)
  PROVE  /\ a \in Accounts /\ HoldsRow(c, a)
         /\ Unwritten(c, a) => /\ view[c][a] = accounts[a]
                               /\ accounts[a] # NoRow /\ accounts[a] \in Row
  <1>1. a \in Accounts
    BY ValidCall DEF Sides
  <1>2. HoldsRow(c, a)
    BY DEF CallInv, Locks
  <1>3. accounts[a] \in Row \cup {NoRow}
    BY <1>1 DEF TypeOK
  <1> QED BY <1>1, <1>2, <1>3 DEF HoldsRow, Unwritten

(* What a call knows of the rows depends on the tables and its view only.   *)
LEMMA SameFunds ==
  ASSUME NEW c \in Calls, Cmd(c)' = Cmd(c), accounts' = accounts, Funded(c)
  PROVE  Funded(c)'
  BY DEF Funded, Sides

(* So does what it has written.                                             *)
LEMMA SameView ==
  ASSUME NEW c \in Calls, Cmd(c)' = Cmd(c), accounts' = accounts,
         view'[c] = view[c], stale' = stale
  PROVE  /\ \A a \in Accounts : Unwritten(c, a) => Unwritten(c, a)'
         /\ Debited(c) => Debited(c)'
         /\ Credited(c) => Credited(c)'
  BY DEF Unwritten, Debited, Credited

(****************************************************************************)
(* The statements of post, from the first lock to the completed transfer    *)
(****************************************************************************)
(* The two locks of lockAccounts are for the two sides, smaller id first.   *)
LEMMA LockOrder ==
  ASSUME TypeOK, NEW c \in Calls, Valid(c)
  PROVE  \E x, y \in Accounts :
            /\ lockOrder(Cmd(c).src, Cmd(c).dst) = <<x, y>>
            /\ Sides(c) = {x, y}
            /\ x \in Nat /\ y \in Nat /\ x < y
  <1> DEFINE a == Cmd(c).src
             b == Cmd(c).dst
  <1>1. a \in Accounts /\ b \in Accounts /\ a # b
    BY ValidCall
  <1> HIDE DEF a, b
  <1>2. a \in Nat /\ b \in Nat
    BY <1>1, AccountsAssumption, SMT
  <1>3. CASE a <= b
    <2>1. lockOrder(a, b) = <<a, b>> /\ a < b
      BY <1>1, <1>2, <1>3, SMT DEF lockOrder
    <2> QED BY <1>1, <1>2, <2>1 DEF Sides, a, b
  <1>4. CASE ~(a <= b)
    <2>1. lockOrder(a, b) = <<b, a>> /\ b < a
      BY <1>1, <1>2, <1>4, SMT DEF lockOrder
    <2> QED BY <1>1, <1>2, <2>1 DEF Sides, a, b
  <1> QED BY <1>3, <1>4

(* A row lock is granted: the row is the one the snapshot shows.            *)
LEMMA LockGrantedInv ==
  ASSUME PostingInv, NEW c \in Calls, LockGranted(c)
  PROVE  PostingInv'
  <1> DEFINE p == IF pc[c] = "lock1" THEN "lock2" ELSE "check"
  <1>0. /\ TypeOK /\ CallInv(c) /\ tx[c] = "active" /\ Valid(c)
        /\ tx = [tx EXCEPT ![c] = "active"]
        /\ pc[c] \in {"lock1", "lock2"}
    BY AtStatement DEF LockGranted, Locking, InTx
  <1>o. PICK x \in Accounts, y \in Accounts :
            /\ lockOrder(Cmd(c).src, Cmd(c).dst) = <<x, y>>
            /\ Sides(c) = {x, y} /\ First(c) = x
    BY <1>0, LockOrder, SMT DEF First
  <1>t. PICK t \in Accounts :
            /\ t = Target(c)
            /\ t = IF pc[c] = "lock1" THEN x ELSE y
    BY <1>o, SMT DEF Target
  <1>u. /\ UNCHANGED <<accounts, transfers, entries, req, known, answer,
                       attempt, stale, tx, view, new, legs>>
        /\ pc' = [pc EXCEPT ![c] = p]
        /\ lock' = [lock EXCEPT ![t] = c]
        /\ lock[t] = NoCall /\ view[c][t] # NoRow /\ t \notin stale[c]
    BY <1>t DEF LockGranted, Goto, Fresh, RowFree
  <1>p. pc'[c] = p /\ Cmd(c)' = Cmd(c) /\ lock'[t] = c
    BY <1>0, <1>u DEF TypeOK, Cmd
  <1>1. TypeOK'
    BY <1>0, <1>u DEF TypeOK, InTx
  <1>2. Locks(c)'
    <2>1. HoldsRow(c, t)'
      BY <1>u, <1>p DEF HoldsRow
    <2>2. \A a \in Accounts : HoldsRow(c, a) => HoldsRow(c, a)'
      BY <1>0, <1>u DEF HoldsRow, TypeOK
    <2>3. CASE pc[c] = "lock1"
      <3>1. First(c)' = t
        BY <2>3, <1>p, <1>t, <1>o DEF First
      <3>2. \A a \in Accounts : lock'[a] = c => a = t
        BY <2>3, <1>0, <1>u DEF CallInv, Locks, TypeOK
      <3> QED BY <2>1, <2>3, <3>1, <3>2, <1>0, <1>u, <1>p, SMT
              DEF Locks, PastLocks
    <2>4. CASE pc[c] = "lock2"
      <3>1. HoldsRow(c, x)' /\ HoldsRow(c, y)'
        BY <2>1, <2>2, <2>4, <1>0, <1>o, <1>t DEF CallInv, Locks
      <3>2. \A a \in Sides(c)' : HoldsRow(c, a)'
        BY <3>1, <1>o, <1>p DEF Sides
      <3> QED BY <3>2, <2>4, <1>0, <1>u, <1>p, SMT DEF Locks
    <2> QED BY <1>0, <2>3, <2>4
  <1>q. p \in {"lock2", "check"} /\ tx'[c] = "active"
    BY <1>0, <1>u
  <1>3. Views(c)'
    <2>1. /\ \A a \in Accounts : Unwritten(c, a)
          /\ \A a \in known[c] : accounts[a] # NoRow /\ view[c][a] # NoRow
      BY <1>0 DEF CallInv, Views
    <2>2. \A a \in Accounts : Unwritten(c, a)'
      BY <1>p, <1>u, <2>1, SameView
    <2>3. ~Written(c)'
      BY <1>p, <1>q DEF Written
    <2> HIDE DEF p
    <2> QED BY <1>p, <1>q, <1>u, <2>1, <2>2, <2>3 DEF Views
  <1>4. Inserts(c)'
    <2>1. new'[c] = NoTransfer
      BY <1>0, <1>u DEF CallInv, Inserts
    <2> HIDE DEF p
    <2> QED BY <1>p, <1>q, <2>1 DEF Inserts
  <1>5. \A d \in Calls \ {c} : SameLocks(d)
    BY <1>0, <1>u, NullsAssumption, SMT DEF SameLocks, TypeOK
  <1>6. Goto(c, p) /\ p \in InTx \ {"lock1", "commit"}
    BY DEF LockGranted, InTx
  <1>7. \/ new'[c] = NoTransfer
        \/ new[c] # NoTransfer /\ new'[c].key = new[c].key
    BY <1>u
  <1> HIDE DEF p
  <1> QED BY <1>0, <1>1, <1>2, <1>3, <1>4, <1>5, <1>6, <1>7, <1>u,
             StatementStep DEF InTx

(* The checks on the locked rows pass: the transfer is funded.              *)
LEMMA CheckPassesInv ==
  ASSUME PostingInv, NEW c \in Calls, CheckPasses(c)
  PROVE  PostingInv'
  <1> USE DEF CheckPasses, Goto
  <1>0. /\ TypeOK /\ CallInv(c) /\ tx[c] = "active" /\ Valid(c)
        /\ tx = [tx EXCEPT ![c] = "active"]
        /\ Cmd(c).src \in Accounts /\ Cmd(c).dst \in Accounts
        /\ Cmd(c).amount \in Nat \ {0}
    BY AtStatement DEF InTx
  <1>p. pc'[c] = "insert" /\ Cmd(c)' = Cmd(c)
    BY <1>0 DEF TypeOK, Cmd
  <1>1. TypeOK'
    BY <1>0 DEF TypeOK, InTx
  <1>2. Locks(c)'
    BY <1>0, <1>p DEF CallInv, Locks, PastLocks, Sides, HoldsRow
  <1>3. Views(c)'
    <2>1. \A a \in Sides(c) : view[c][a] = accounts[a] /\ accounts[a] # NoRow
      <3>1. PastLocks(c) /\ \A a \in Accounts : Unwritten(c, a)
        BY <1>0 DEF CallInv, Views, PastLocks
      <3> QED BY <1>0, <3>1, RowsHeld
    <2>2. Funded(c)
      <3>1. \A a \in Sides(c) : accounts[a] \in Row
        BY <1>0, <2>1 DEF TypeOK, Sides
      <3>2. \A a \in Sides(c) : accounts[a].balance \in Int
        BY <3>1, BoundsAssumption, SMT DEF Row
      <3>3. /\ view[c][Cmd(c).src].currency = Cmd(c).currency
            /\ view[c][Cmd(c).dst].currency = Cmd(c).currency
            /\ ~(view[c][Cmd(c).src].balance < Cmd(c).amount)
        BY DEF Verdict
      <3> QED BY <1>0, <2>1, <3>2, <3>3, SMT DEF Funded, Sides
    <2>3. Funded(c)'
      BY <1>p, <2>2, SameFunds
    <2>4. /\ \A a \in Accounts : Unwritten(c, a)
          /\ \A a \in known[c] : accounts[a] # NoRow /\ view[c][a] # NoRow
      BY <1>0 DEF CallInv, Views
    <2>5. \A a \in Accounts : Unwritten(c, a)'
      BY <1>p, <2>4, SameView
    <2>6. ~Written(c)'
      BY <1>0, <1>p DEF Written
    <2> QED BY <1>p, <2>3, <2>4, <2>5, <2>6 DEF Views
  <1>4. Inserts(c)'
    BY <1>0, <1>p DEF CallInv, Inserts
  <1>5. \A d \in Calls \ {c} : SameLocks(d)
    BY DEF SameLocks
  <1>6. \/ new'[c] = NoTransfer
        \/ new[c] # NoTransfer /\ new'[c].key = new[c].key
    OBVIOUS
  <1> QED BY <1>0, <1>1, <1>2, <1>3, <1>4, <1>5, <1>6, StatementStep DEF InTx

(* The pending row of a call is a transfers row.                            *)
LEMMA OwnTransferType ==
  ASSUME TypeOK, NEW c \in Calls, Valid(c), attempt[c] >= 1,
         NEW s \in {"pending", "completed"}
  PROVE  /\ OwnTransfer(c, s) \in Transfer
         /\ OwnTransfer(c, s) # NoTransfer
         /\ OwnTransfer(c, s).key = req[c].key
  <1>1. attempt[c] \in 1 .. MaxAttempts
    BY BoundsAssumption, SMT DEF TypeOK
  <1>2. <<c, attempt[c]>> \in TransferIDs
    BY <1>1 DEF TransferIDs
  <1>3. OwnTransfer(c, s) \in Transfer
    BY <1>2, ValidCall DEF OwnTransfer, TransferRow, Transfer
  <1> QED BY <1>3, NullsAssumption DEF OwnTransfer, TransferRow

(* INSERT INTO transfers.                                                   *)
LEMMA InsertTransferInv ==
  ASSUME PostingInv, NEW c \in Calls, InsertTransfer(c)
  PROVE  PostingInv'
  <1> USE DEF InsertTransfer, Goto
  <1>0. /\ TypeOK /\ CallInv(c) /\ tx[c] = "active" /\ Valid(c)
        /\ tx = [tx EXCEPT ![c] = "active"]
        /\ attempt[c] >= 1
    BY AtStatement DEF InTx, CallInv, Control
  <1>t. /\ OwnTransfer(c, "pending") \in Transfer
        /\ OwnTransfer(c, "pending").key = req[c].key
    BY <1>0, OwnTransferType
  <1>p. /\ pc'[c] = "debit" /\ Cmd(c)' = Cmd(c)
        /\ new'[c] = OwnTransfer(c, "pending")
        /\ OwnTransfer(c, "pending")' = OwnTransfer(c, "pending")
    BY <1>0 DEF TypeOK, Cmd, OwnTransfer
  <1>1. TypeOK'
    BY <1>0, <1>t DEF TypeOK, InTx
  <1>2. Locks(c)'
    BY <1>0, <1>p DEF CallInv, Locks, PastLocks, Sides, HoldsRow
  <1>3. Views(c)'
    <2>1. /\ \A a \in Accounts : Unwritten(c, a)
          /\ \A a \in known[c] : accounts[a] # NoRow /\ view[c][a] # NoRow
          /\ Funded(c)
      BY <1>0 DEF CallInv, Views
    <2>2. \A a \in Accounts : Unwritten(c, a)'
      BY <1>p, <2>1, SameView
    <2>3. Funded(c)' /\ ~Written(c)'
      BY <1>0, <1>p, <2>1, SameFunds DEF Written
    <2> QED BY <1>p, <2>1, <2>2, <2>3 DEF Views
  <1>4. Inserts(c)'
    BY <1>0, <1>p, <1>t DEF Inserts
  <1>5. \A d \in Calls \ {c} : SameLocks(d)
    BY DEF SameLocks
  <1>6. ~KeyPending(c, new'[c].key) /\ ~L!KeyTaken(new'[c].key)
    BY <1>p, <1>t
  <1>7. \A d \in Calls \ {c} :
            view'[d] = view[d] /\ new'[d] = new[d] /\ legs'[d] = legs[d]
    BY <1>0 DEF TypeOK
  <1> QED BY <1>0, <1>1, <1>2, <1>3, <1>4, <1>5, <1>6, <1>7,
             StatementStep DEF InTx

(* The debit: the row it writes is the committed one less the amount.       *)
LEMMA DebitInv ==
  ASSUME PostingInv, NEW c \in Calls, Debit(c)
  PROVE  PostingInv'
  <1> DEFINE src == Cmd(c).src
             dst == Cmd(c).dst
             n   == Cmd(c).amount
  <1>0. /\ TypeOK /\ CallInv(c) /\ tx[c] = "active" /\ Valid(c)
        /\ tx = [tx EXCEPT ![c] = "active"]
        /\ src \in Accounts /\ dst \in Accounts /\ src # dst
        /\ n \in Nat \ {0} /\ pc[c] = "debit"
    BY AtStatement DEF InTx, Debit
  <1>1. CASE ~DebitMatches(c)
    BY <1>0, <1>1, RejectInv DEF Debit, Outcomes, Rejections
  <1>2. CASE DebitMatches(c)
    <2>u. /\ Goto(c, "credit")
          /\ view' = [view EXCEPT ![c][src] = Moved(@, -n)]
          /\ UNCHANGED <<accounts, transfers, entries, req, known, answer,
                         attempt, stale, lock, tx, new, legs>>
          /\ pc' = [pc EXCEPT ![c] = "credit"]
      BY <1>2 DEF Debit, Goto
    <2>p. /\ pc'[c] = "credit" /\ Cmd(c)' = Cmd(c)
          /\ view'[c][src] = Moved(view[c][src], -n)
          /\ \A a \in Accounts \ {src} : view'[c][a] = view[c][a]
      BY <1>0, <2>u DEF TypeOK, Cmd
    <2>v. /\ view[c][src] = accounts[src] /\ accounts[src] # NoRow
          /\ accounts[src] \in Row
      <3>1. PastLocks(c) /\ src \in Sides(c) /\ Unwritten(c, src)
        BY <1>0 DEF CallInv, Views, PastLocks, Sides
      <3> QED BY <1>0, <3>1, RowsHeld
    <2>r. Moved(view[c][src], -n) \in Row
      <3>1. view[c][src].balance \in 0 .. MaxBalance
            /\ view[c][src].currency \in Currencies
        BY <2>v DEF Row
      <3>2. view[c][src].balance + (-n) \in 0 .. MaxBalance
        BY <1>0, <1>2, <3>1, BoundsAssumption, SMT DEF DebitMatches
      <3> QED BY <3>1, <3>2 DEF Moved, Row
    <2>1. TypeOK'
      <3>1. view' \in [Calls -> [Accounts -> Row \cup {NoRow}]]
        BY <1>0, <2>u, <2>r DEF TypeOK
      <3> QED BY <1>0, <2>u, <3>1 DEF TypeOK, InTx
    <2>2. Locks(c)'
      <3>1. \A a \in Sides(c) : HoldsRow(c, a)'
        <4>1. PastLocks(c) /\ Moved(view[c][src], -n) # NoRow
          BY <1>0, <2>r, NullsAssumption DEF PastLocks
        <4>2. \A a \in Sides(c) : a \in Accounts /\ HoldsRow(c, a)
          BY <1>0, <4>1, RowsHeld
        <4> QED BY <2>u, <2>p, <4>1, <4>2 DEF HoldsRow
      <3>2. tx'[c] # "none"
        BY <1>0, <2>u
      <3> QED BY <2>p, <3>1, <3>2 DEF Locks, Sides
    <2>3. Views(c)'
      <3>1. Unwritten(c, dst) => Unwritten(c, dst)'
        BY <1>0, <2>u, <2>p DEF Unwritten
      <3>2. Debited(c)'
        BY <2>u, <2>p, <2>v DEF Debited
      <3>3. Funded(c)'
        <4>1. Funded(c)
          BY <1>0 DEF CallInv, Views
        <4> QED BY <2>u, <2>p, <4>1, SameFunds
      <3>4. \A a \in known[c] :
              accounts[a] # NoRow /\ view'[c][a] # NoRow
        <4>1. \A a \in known[c] : a \in Accounts /\ accounts[a] # NoRow
                                                /\ view[c][a] # NoRow
          BY <1>0 DEF CallInv, Views, TypeOK
        <4>2. Moved(view[c][src], -n) # NoRow
          BY <2>r, NullsAssumption
        <4> QED BY <2>p, <4>1, <4>2
      <3>5. Unwritten(c, dst) /\ ~Written(c)'
        BY <1>0, <2>u, <2>p DEF CallInv, Views, Written
      <3> QED BY <2>u, <2>p, <3>1, <3>2, <3>3, <3>4, <3>5 DEF Views
    <2>4. Inserts(c)'
      BY <1>0, <2>u, <2>p DEF CallInv, Inserts, OwnTransfer
    <2>5. \A d \in Calls \ {c} : SameLocks(d)
      BY <2>u DEF SameLocks
    <2>6. \/ new'[c] = NoTransfer
          \/ new[c] # NoTransfer /\ new'[c].key = new[c].key
      BY <2>u
    <2>7. \A d \in Calls \ {c} :
            view'[d] = view[d] /\ new'[d] = new[d] /\ legs'[d] = legs[d]
      BY <1>0, <2>u DEF TypeOK
    <2> QED BY <1>0, <2>u, <2>1, <2>2, <2>3, <2>4, <2>5, <2>6, <2>7,
               StatementStep DEF InTx
  <1> QED BY <1>1, <1>2

(* The credit: the row it writes is the committed one plus the amount.      *)
LEMMA CreditInv ==
  ASSUME PostingInv, NEW c \in Calls, Credit(c)
  PROVE  PostingInv'
  <1> DEFINE src == Cmd(c).src
             dst == Cmd(c).dst
             n   == Cmd(c).amount
  <1>0. /\ TypeOK /\ CallInv(c) /\ tx[c] = "active" /\ Valid(c)
        /\ tx = [tx EXCEPT ![c] = "active"]
        /\ src \in Accounts /\ dst \in Accounts /\ src # dst
        /\ n \in Nat \ {0} /\ pc[c] = "credit" /\ CreditFits(c)
    BY AtStatement DEF InTx, Credit
  <1>u. /\ Goto(c, "entries")
        /\ view' = [view EXCEPT ![c][dst] = Moved(view[c][dst], n)]
        /\ UNCHANGED <<accounts, transfers, entries, req, known, answer,
                       attempt, stale, lock, tx, new, legs>>
        /\ pc' = [pc EXCEPT ![c] = "entries"]
    BY DEF Credit, CreditedRow, Goto
  <1>p. /\ pc'[c] = "entries" /\ Cmd(c)' = Cmd(c)
        /\ view'[c][dst] = Moved(view[c][dst], n)
        /\ \A a \in Accounts \ {dst} : view'[c][a] = view[c][a]
    BY <1>0, <1>u, SMT DEF TypeOK, Cmd
  <1>v. /\ view[c][dst] = accounts[dst] /\ accounts[dst] # NoRow
        /\ accounts[dst] \in Row
    <2>1. PastLocks(c) /\ dst \in Sides(c) /\ Unwritten(c, dst)
      BY <1>0 DEF CallInv, Views, PastLocks, Sides
    <2> QED BY <1>0, <2>1, RowsHeld
  <1>b. /\ view[c][dst].balance + n \in 0 .. MaxBalance
        /\ view[c][dst].currency \in Currencies
    <2>1. view[c][dst].balance \in 0 .. MaxBalance
          /\ view[c][dst].currency \in Currencies
      BY <1>v DEF Row
    <2> QED BY <1>0, <2>1, BoundsAssumption, SMT DEF CreditFits
  <1>r. Moved(view[c][dst], n) \in Row
    BY <1>b DEF Moved, Row
  <1>1. TypeOK'
    <2>1. view' \in [Calls -> [Accounts -> Row \cup {NoRow}]]
      BY <1>0, <1>u, <1>r DEF TypeOK
    <2> QED BY <1>0, <1>u, <2>1 DEF TypeOK, InTx
  <1>2. Locks(c)'
    <2>1. \A a \in Sides(c) : HoldsRow(c, a)'
      <3>1. PastLocks(c) /\ Moved(view[c][dst], n) # NoRow
        BY <1>0, <1>r, NullsAssumption DEF PastLocks
      <3>2. \A a \in Sides(c) : a \in Accounts /\ HoldsRow(c, a)
        BY <1>0, <3>1, RowsHeld
      <3> QED BY <1>u, <1>p, <3>1, <3>2 DEF HoldsRow
    <2>2. tx'[c] # "none"
      BY <1>0, <1>u
    <2> QED BY <1>p, <2>1, <2>2 DEF Locks, Sides
  <1>3. Views(c)'
    <2>1. Debited(c)'
      <3>1. Debited(c)
        BY <1>0 DEF CallInv, Views
      <3> QED BY <1>0, <1>u, <1>p, <3>1 DEF Debited
    <2>2. Credited(c)' /\ accounts[dst].balance + n <= MaxBalance
      BY <1>0, <1>u, <1>p, <1>v DEF Credited, CreditFits
    <2>3. Funded(c)'
      <3>1. Funded(c)
        BY <1>0 DEF CallInv, Views
      <3> QED BY <1>u, <1>p, <3>1, SameFunds
    <2>4. \A a \in known[c] :
            accounts[a] # NoRow /\ view'[c][a] # NoRow
      <3>1. \A a \in known[c] : a \in Accounts /\ accounts[a] # NoRow
                                              /\ view[c][a] # NoRow
        BY <1>0 DEF CallInv, Views, TypeOK
      <3>2. Moved(view[c][dst], n) # NoRow
        BY <1>r, NullsAssumption
      <3> QED BY <1>p, <3>1, <3>2
    <2> QED BY <1>u, <1>p, <2>1, <2>2, <2>3, <2>4 DEF Views
  <1>4. Inserts(c)'
    BY <1>0, <1>u, <1>p DEF CallInv, Inserts, OwnTransfer
  <1>5. \A d \in Calls \ {c} : SameLocks(d)
    BY <1>u DEF SameLocks
  <1>6. \/ new'[c] = NoTransfer
        \/ new[c] # NoTransfer /\ new'[c].key = new[c].key
    BY <1>u
  <1>7. \A d \in Calls \ {c} :
          view'[d] = view[d] /\ new'[d] = new[d] /\ legs'[d] = legs[d]
    BY <1>0, <1>u DEF TypeOK
  <1> QED BY <1>0, <1>u, <1>1, <1>2, <1>3, <1>4, <1>5, <1>6, <1>7,
             StatementStep, SMT DEF InTx

(* The two legs of a call are ledger_entries rows.                          *)
LEMMA OwnLegsType ==
  ASSUME TypeOK, NEW c \in Calls, Valid(c), attempt[c] >= 1
  PROVE  Legs(<<c, attempt[c]>>, Cmd(c)) \subseteq Entry
  <1>1. attempt[c] \in 1 .. MaxAttempts
    BY BoundsAssumption, SMT DEF TypeOK
  <1>2. <<c, attempt[c]>> \in TransferIDs
    BY <1>1 DEF TransferIDs
  <1> QED BY <1>2, ValidCall, SMT DEF Legs, Entry

(* INSERT INTO ledger_entries.                                              *)
LEMMA InsertEntriesInv ==
  ASSUME PostingInv, NEW c \in Calls, InsertEntries(c)
  PROVE  PostingInv'
  <1> USE DEF InsertEntries, OwnLegs, Goto
  <1>0. /\ TypeOK /\ CallInv(c) /\ tx[c] = "active" /\ Valid(c)
        /\ tx = [tx EXCEPT ![c] = "active"] /\ attempt[c] >= 1
    BY AtStatement DEF InTx, CallInv, Control
  <1>p. /\ pc'[c] = "verify" /\ Cmd(c)' = Cmd(c)
        /\ legs'[c] = Legs(<<c, attempt[c]>>, Cmd(c))
    BY <1>0 DEF TypeOK, Cmd
  <1>1. TypeOK'
    BY <1>0, OwnLegsType DEF TypeOK, InTx
  <1>2. Locks(c)'
    BY <1>0, <1>p DEF CallInv, Locks, PastLocks, Sides, HoldsRow
  <1>3. Views(c)'
    BY <1>0, <1>p DEF CallInv, Views, Written, Funded, Sides, Debited, Credited
  <1>4. Inserts(c)'
    BY <1>0, <1>p DEF CallInv, Inserts, OwnTransfer
  <1>5. \A d \in Calls \ {c} : SameLocks(d)
    BY DEF SameLocks
  <1>6. \/ new'[c] = NoTransfer
        \/ new[c] # NoTransfer /\ new'[c].key = new[c].key
    OBVIOUS
  <1>7. \A d \in Calls \ {c} :
          view'[d] = view[d] /\ new'[d] = new[d] /\ legs'[d] = legs[d]
    BY <1>0 DEF TypeOK
  <1> QED BY <1>0, <1>1, <1>2, <1>3, <1>4, <1>5, <1>6, <1>7,
             StatementStep DEF InTx

(* assertBalanced, the completion of the row, and COMMIT on its way.        *)
LEMMA CompleteInv ==
  ASSUME PostingInv, NEW c \in Calls, Complete(c)
  PROVE  PostingInv'
  <1>0. /\ TypeOK /\ CallInv(c) /\ tx[c] = "active" /\ Valid(c)
        /\ attempt[c] >= 1 /\ pc[c] = "verify"
    BY AtStatement DEF InTx, CallInv, Control, Complete
  <1>1. CASE ~Balanced(legs[c])
    BY <1>0, <1>1, RejectInv DEF Complete, Outcomes
  <1>2. CASE Balanced(legs[c])
    <2>u. /\ Goto(c, "commit")
          /\ new' = [new EXCEPT ![c] = OwnTransfer(c, "completed")]
          /\ tx' = [tx EXCEPT ![c] = "committing"]
          /\ pc' = [pc EXCEPT ![c] = "commit"]
          /\ UNCHANGED <<accounts, transfers, entries, req, known, answer,
                         attempt, stale, lock, view, legs>>
      BY <1>2 DEF Complete, Goto
    <2>t. /\ OwnTransfer(c, "completed") \in Transfer
          /\ OwnTransfer(c, "completed").key = req[c].key
          /\ OwnTransfer(c, "pending") # NoTransfer
          /\ OwnTransfer(c, "pending").key = req[c].key
      BY <1>0, OwnTransferType
    <2>p. /\ pc'[c] = "commit" /\ tx'[c] = "committing" /\ Cmd(c)' = Cmd(c)
          /\ new'[c] = OwnTransfer(c, "completed")
          /\ OwnTransfer(c, "completed")' = OwnTransfer(c, "completed")
      BY <1>0, <2>u DEF TypeOK, Cmd, OwnTransfer
    <2>1. TypeOK'
      BY <1>0, <2>u, <2>t DEF TypeOK, InTx
    <2>2. Locks(c)'
      BY <1>0, <2>u, <2>p DEF CallInv, Locks, PastLocks, Sides, HoldsRow
    <2>3. Views(c)'
      <3>1. /\ Funded(c) /\ Debited(c) /\ Credited(c)
            /\ accounts[Cmd(c).dst].balance + Cmd(c).amount <= MaxBalance
            /\ \A a \in known[c] :
                  accounts[a] # NoRow /\ (tx[c] # "none" => view[c][a] # NoRow)
        BY <1>0 DEF CallInv, Views, Written
      <3>2. /\ Funded(c)' /\ Debited(c)' /\ Credited(c)'
            /\ (accounts[Cmd(c).dst].balance + Cmd(c).amount <= MaxBalance)'
        BY <3>1, <2>u, <2>p, SameFunds, SameView
      <3>3. \A a \in known'[c] : accounts'[a] # NoRow /\ view'[c][a] # NoRow
        BY <1>0, <3>1, <2>u
      <3>4. pc'[c] = "commit"
        BY <2>p
      <3> QED BY <3>2, <3>3, <3>4 DEF Views
    <2>4. Inserts(c)'
      BY <1>0, <2>u, <2>p, <2>t DEF CallInv, Inserts
    <2>5. \A d \in Calls \ {c} : SameLocks(d)
      BY <2>u DEF SameLocks
    <2>6. new[c] # NoTransfer /\ new'[c].key = new[c].key
      BY <1>0, <2>p, <2>t DEF CallInv, Inserts
    <2>7. \A d \in Calls \ {c} :
            view'[d] = view[d] /\ new'[d] = new[d] /\ legs'[d] = legs[d]
      BY <1>0, <2>u DEF TypeOK
    <2> QED BY <1>0, <2>u, <2>1, <2>2, <2>3, <2>4, <2>5, <2>6, <2>7,
               StatementStep DEF InTx
  <1> QED BY <1>1, <1>2
==============================================================================
