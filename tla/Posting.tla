-------------------------------- MODULE Posting ------------------------------
(****************************************************************************)
(* Service.postWithRetry, postOnce and post of internal/transfer, statement *)
(* by statement, over PostgreSQL as the code uses it.                       *)
(*                                                                          *)
(* Where two definitions of one thing stand together, the first is a        *)
(* mutation: a plausible slip in the code, used by nothing here, that the   *)
(* properties are tried against.                                            *)
(*                                                                          *)
(* Each call runs up to MaxAttempts SERIALIZABLE transactions.  Of          *)
(* PostgreSQL the model keeps what the posting depends on:                  *)
(*   - the snapshot is taken when the first statement starts, that is,      *)
(*     before it waits for a row lock;                                      *)
(*   - SELECT ... FOR UPDATE waits for the holder of the row, and fails     *)
(*     with 40001 when the row was changed by a transaction that committed  *)
(*     after the snapshot; a row the snapshot does not have is not found;   *)
(*   - uncommitted writes are seen by their transaction alone, except that  *)
(*     an INSERT of a key another open transaction has inserted waits for   *)
(*     it;                                                                  *)
(*   - any statement, and COMMIT, may fail with 40001 (or 40P01);           *)
(*   - when the client loses the connection or gives up, the server rolls   *)
(*     the transaction back some time later, unless COMMIT had been sent:   *)
(*     then it either commits or rolls back.                                *)
(****************************************************************************)
EXTENDS Books

CONSTANT MaxConns   \* size of the connection pool

ASSUME PoolAssumption == MaxConns \in Nat \ {0}

VARIABLES
    accounts, transfers, entries,   \* committed rows
    req, known, answer,             \* the calls, as in Ledger
    lock,     \* lock[a]: the call whose transaction holds the row lock of a
    pc,       \* pc[c]: the statement call c is executing
    attempt,  \* attempt[c]: the attempt postWithRetry is on
    tx,       \* tx[c]: the server's state of c's transaction
    view,     \* view[c]: the accounts rows c's transaction sees
    stale,    \* stale[c]: rows changed since c's snapshot by others
    new,      \* new[c]: the uncommitted transfers row of c
    legs      \* legs[c]: the uncommitted ledger_entries rows of c

client == <<req, known, answer, pc, attempt>>
vars   == <<accounts, transfers, entries, req, known, answer,
            lock, pc, attempt, tx, view, stale, new, legs>>

L == INSTANCE Ledger

Blank == [a \in Accounts |-> NoRow]

Init ==
    /\ L!Init
    /\ lock = [a \in Accounts |-> NoCall]
    /\ pc = [c \in Calls |-> "idle"]
    /\ attempt = [c \in Calls |-> 0]
    /\ tx = [c \in Calls |-> "none"]
    /\ view = [c \in Calls |-> Blank]
    /\ stale = [c \in Calls |-> {}]
    /\ new = [c \in Calls |-> NoTransfer]
    /\ legs = [c \in Calls |-> {}]

(* account.Store.Create: an INSERT of an empty account, in a transaction of *)
(* its own.  Open snapshots do not see the row.                             *)
CreateAccount(a, cur) ==
    /\ L!CreateAccount(a, cur)
    /\ UNCHANGED <<lock, pc, attempt, tx, view, stale, new, legs>>

(* Post or PostWithAttempts is called, or PostIdempotent reaches            *)
(* postWithRetry with a stamp.  The command is validated first.             *)
Invoke(c, k, m) ==
    /\ L!Invoke(c, k, m)
    /\ IF Validate(m) = "ok"
       THEN /\ pc' = [pc EXCEPT ![c] = "begin"]
            /\ attempt' = [attempt EXCEPT ![c] = 1]
       ELSE /\ pc' = [pc EXCEPT ![c] = "done"]
            /\ UNCHANGED attempt
    /\ UNCHANGED <<lock, tx, view, stale, new, legs>>

(* pool.BeginTx takes a connection; the transaction's end, or a failure of  *)
(* the connection, gives it back.                                           *)
InTx == {"lock1", "lock2", "check", "insert", "debit", "credit", "entries",
         "verify", "commit"}

ConnsInUse == { c \in Calls : pc[c] \in InTx }

(* pool.BeginTx with IsoLevel Serializable, and the start of the first      *)
(* statement, which takes the snapshot.                                     *)
Begin(c) ==
    /\ pc[c] = "begin"
    /\ Cardinality(ConnsInUse) < MaxConns
    /\ pc' = [pc EXCEPT ![c] = "lock1"]
    /\ tx' = [tx EXCEPT ![c] = "active"]
    /\ view' = [view EXCEPT ![c] = accounts]
    /\ UNCHANGED <<accounts, transfers, entries, req, known, answer,
                   lock, attempt, stale, new, legs>>

(* The row locks without those of c.                                        *)
KeepLocks(c) == lock
FreeLocks(c) == [a \in Accounts |-> IF lock[a] = c THEN NoCall ELSE lock[a]]

(* The transaction of c is over on the server: its locks are free, what it  *)
(* wrote is gone or committed.                                              *)
EndTx(c) ==
    /\ lock' = FreeLocks(c)
    /\ tx' = [tx EXCEPT ![c] = "none"]
    /\ view' = [view EXCEPT ![c] = Blank]
    /\ new' = [new EXCEPT ![c] = NoTransfer]
    /\ legs' = [legs EXCEPT ![c] = {}]

(* post returned an error that is not retryable: the deferred Rollback runs *)
(* and postWithRetry returns the error.                                     *)
Reject(c, r) ==
    /\ EndTx(c)
    /\ stale' = [stale EXCEPT ![c] = {}]
    /\ pc' = [pc EXCEPT ![c] = "done"]
    /\ answer' = [answer EXCEPT ![c] = r]
    /\ UNCHANGED <<accounts, transfers, entries, req, known, attempt>>

(* attempt >= s.retry.MaxAttempts                                           *)
LastAttempt(c) == attempt[c] >= MaxAttempts

(* PostgreSQL reported 40001 or 40P01: the transaction is rolled back, and  *)
(* postWithRetry backs off or, on the last attempt, gives up.               *)
RetryOrExhaust(c) ==
    /\ EndTx(c)
    /\ stale' = [stale EXCEPT ![c] = {}]
    /\ IF LastAttempt(c)
       THEN /\ pc' = [pc EXCEPT ![c] = "done"]
            /\ answer' = [answer EXCEPT ![c] = "Exhausted"]
       ELSE /\ pc' = [pc EXCEPT ![c] = "backoff"]
            /\ UNCHANGED answer
    /\ UNCHANGED <<accounts, transfers, entries, req, known, attempt>>

(* Only the client's program counter moves on to the next statement.        *)
Goto(c, to) ==
    /\ pc' = [pc EXCEPT ![c] = to]
    /\ UNCHANGED <<accounts, transfers, entries, req, known, answer,
                   attempt, stale>>

Cmd(c) == req[c].cmd

(****************************************************************************)
(* lockAccounts                                                             *)
(****************************************************************************)
argumentOrder(a, b) == <<a, b>>
lockOrder(a, b) == IF a <= b THEN <<a, b>> ELSE <<b, a>>

(* The row the FOR UPDATE statement of c asks for.                          *)
Target(c) == LET o == lockOrder(Cmd(c).src, Cmd(c).dst)
             IN  IF pc[c] = "lock1" THEN o[1] ELSE o[2]

Locking(c) == pc[c] \in {"lock1", "lock2"}

missingAccountError(c) ==
    IF Target(c) = Cmd(c).src THEN "SourceNotFound" ELSE "DestinationNotFound"

(* The row is not in the snapshot: the error names its role.                *)
LockMissing(c) ==
    /\ Locking(c)
    /\ view[c][Target(c)] = NoRow
    /\ Reject(c, missingAccountError(c))

(* No transaction that committed after c's snapshot has changed the row;    *)
(* no open transaction holds its lock.                                      *)
AnyVersion(c) == TRUE
Fresh(c)      == Target(c) \notin stale[c]
Unlocked(c)   == TRUE
RowFree(c)    == lock[Target(c)] = NoCall

(* The row was changed by a transaction that committed after the snapshot.  *)
LockStale(c) ==
    /\ Locking(c)
    /\ view[c][Target(c)] # NoRow
    /\ ~Fresh(c)
    /\ RetryOrExhaust(c)

LockGranted(c) ==
    /\ Locking(c)
    /\ view[c][Target(c)] # NoRow
    /\ Fresh(c)
    /\ RowFree(c)
    /\ lock' = [lock EXCEPT ![Target(c)] = c]
    /\ Goto(c, IF pc[c] = "lock1" THEN "lock2" ELSE "check")
    /\ UNCHANGED <<tx, view, new, legs>>

(****************************************************************************)
(* post, after the locks                                                    *)
(****************************************************************************)
(* The verdict on the locked rows: the three currencies, then the balance.  *)
Verdict(c) ==
    LET m == Cmd(c)
    IN  IF \/ view[c][m.src].currency # m.currency
           \/ view[c][m.dst].currency # m.currency
        THEN "CurrencyMismatch"
        ELSE IF view[c][m.src].balance < m.amount
        THEN "InsufficientFunds"
        ELSE "ok"

CheckRefuses(c) ==
    /\ pc[c] = "check"
    /\ Verdict(c) # "ok"
    /\ Reject(c, Verdict(c))

CheckPasses(c) ==
    /\ pc[c] = "check"
    /\ Verdict(c) = "ok"
    /\ Goto(c, "insert")
    /\ UNCHANGED <<lock, tx, view, new, legs>>

(* Another open transaction has inserted key k and not ended.               *)
CommittedKeysOnly(c, k) == FALSE
KeyPending(c, k) ==
    k # NoKey /\ \E d \in Calls \ {c} : new[d] # NoTransfer /\ new[d].key = k

OwnTransfer(c, status) ==
    TransferRow(<<c, attempt[c]>>, Cmd(c), req[c].key, status)

(* INSERT INTO transfers: the UNIQUE constraint on idempotency_key waits    *)
(* for an open inserter of the same key and refuses a committed one.        *)
InsertTransfer(c) ==
    /\ pc[c] = "insert"
    /\ ~KeyPending(c, req[c].key)
    /\ ~L!KeyTaken(req[c].key)
    /\ Goto(c, "debit")
    /\ new' = [new EXCEPT ![c] = OwnTransfer(c, "pending")]
    /\ UNCHANGED <<lock, tx, view, legs>>

InsertDuplicate(c) ==
    /\ pc[c] = "insert"
    /\ L!KeyTaken(req[c].key)
    /\ Reject(c, "Duplicate")

(* UPDATE ... SET balance - amount WHERE balance >= amount, and the check   *)
(* that it changed one row.                                                 *)
DebitMatches(c) == view[c][Cmd(c).src].balance >= Cmd(c).amount

Debit(c) ==
    /\ pc[c] = "debit"
    /\ IF DebitMatches(c)
       THEN /\ Goto(c, "credit")
            /\ view' = [view EXCEPT ![c][Cmd(c).src] = Moved(@, -Cmd(c).amount)]
            /\ UNCHANGED <<lock, tx, new, legs>>
       ELSE Reject(c, "InsufficientFunds")

(* UPDATE ... SET balance + amount.  A sum beyond BIGINT is SQLSTATE 22003, *)
(* which is not retryable.                                                  *)
CreditFits(c) == view[c][Cmd(c).dst].balance + Cmd(c).amount <= MaxBalance

NotCredited(c) == view[c][Cmd(c).dst]
CreditedRow(c) == Moved(view[c][Cmd(c).dst], Cmd(c).amount)

Credit(c) ==
    /\ pc[c] = "credit"
    /\ CreditFits(c)
    /\ Goto(c, "entries")
    /\ view' = [view EXCEPT ![c][Cmd(c).dst] = CreditedRow(c)]
    /\ UNCHANGED <<lock, tx, new, legs>>

CreditOverflows(c) ==
    /\ pc[c] = "credit"
    /\ ~CreditFits(c)
    /\ Reject(c, "Failed")

SwappedLegs(c) == Legs(<<c, attempt[c]>>, [Cmd(c) EXCEPT !.src = Cmd(c).dst,
                                                         !.dst = Cmd(c).src])
OwnLegs(c) == Legs(<<c, attempt[c]>>, Cmd(c))

InsertEntries(c) ==
    /\ pc[c] = "entries"
    /\ Goto(c, "verify")
    /\ legs' = [legs EXCEPT ![c] = OwnLegs(c)]
    /\ UNCHANGED <<lock, tx, view, new>>

(* assertBalanced: exactly two entries, and they sum to zero.               *)
Balanced(S) == Cardinality(S) = 2 /\ SumOf(S) = 0

(* assertBalanced, UPDATE ... SET status = 'completed', and the sending of  *)
(* COMMIT.                                                                  *)
Complete(c) ==
    /\ pc[c] = "verify"
    /\ IF Balanced(legs[c])
       THEN /\ Goto(c, "commit")
            /\ new' = [new EXCEPT ![c] = OwnTransfer(c, "completed")]
            /\ tx' = [tx EXCEPT ![c] = "committing"]
            /\ UNCHANGED <<lock, view, legs>>
       ELSE Reject(c, "Failed")

(****************************************************************************)
(* COMMIT                                                                   *)
(****************************************************************************)
(* The deferred triggers, assert_transfer_balanced.  Where they raise, the  *)
(* COMMIT fails for good: the caller gives up and the server rolls back.    *)
TriggersPass(c) ==
    /\ new[c].status = "completed" => legs[c] # {}
    /\ SumOf(legs[c]) = 0
    /\ \A e \in legs[c] : e.currency = new[c].currency

(* The server commits.  Every other open snapshot is now behind on the two  *)
(* rows.                                                                    *)
ServerCommit(c) ==
    /\ tx[c] = "committing"
    /\ TriggersPass(c)
    /\ accounts' = [a \in Accounts |->
                       IF a \in {Cmd(c).src, Cmd(c).dst} THEN view[c][a]
                                                         ELSE accounts[a]]
    /\ transfers' = transfers \cup {new[c]}
    /\ entries' = entries \cup legs[c]
    /\ EndTx(c)
    /\ stale' = [d \in Calls |->
                    IF d # c /\ tx[d] # "none"
                    THEN stale[d] \cup {Cmd(c).src, Cmd(c).dst}
                    ELSE IF d = c THEN {} ELSE stale[d]]
    /\ UNCHANGED <<req, known, answer, pc, attempt>>

(* The client learns that COMMIT succeeded.                                 *)
CommitAcknowledged(c) ==
    /\ pc[c] = "commit"
    /\ tx[c] = "none"
    /\ pc' = [pc EXCEPT ![c] = "done"]
    /\ answer' = [answer EXCEPT ![c] = "Posted"]
    /\ UNCHANGED <<accounts, transfers, entries, req, known,
                   lock, attempt, tx, view, stale, new, legs>>

(****************************************************************************)
(* What can go wrong                                                        *)
(****************************************************************************)
(* A statement or COMMIT fails with a retryable SQLSTATE.                   *)
SerializationFailure(c) ==
    /\ pc[c] # "done"
    /\ tx[c] # "none"
    /\ RetryOrExhaust(c)

SameAttempt(c) == attempt[c]
NextAttempt(c) == attempt[c] + 1

(* The backoff is over: next attempt.                                       *)
Retry(c) ==
    /\ pc[c] = "backoff"
    /\ pc' = [pc EXCEPT ![c] = "begin"]
    /\ attempt' = [attempt EXCEPT ![c] = NextAttempt(c)]
    /\ UNCHANGED <<accounts, transfers, entries, req, known, answer,
                   lock, tx, view, stale, new, legs>>

(* A mutation of GiveUp: a lost COMMIT is taken for a failed one.           *)
RetryInDoubt(c) ==
    /\ pc[c] \notin {"idle", "done"}
    /\ IF pc[c] = "commit" /\ ~LastAttempt(c)
       THEN pc' = [pc EXCEPT ![c] = "backoff"] /\ UNCHANGED answer
       ELSE /\ pc' = [pc EXCEPT ![c] = "done"]
            /\ answer' = [answer EXCEPT ![c] = "Failed"]
    /\ UNCHANGED <<accounts, transfers, entries, req, known,
                   lock, attempt, tx, view, stale, new, legs>>

(* The context is cancelled, or the connection lost: begin, the statement,  *)
(* the COMMIT or the backoff returns an error that is not retryable.  The   *)
(* server has not noticed.                                                  *)
GiveUp(c) ==
    /\ pc[c] \notin {"idle", "done"}
    /\ pc' = [pc EXCEPT ![c] = "done"]
    /\ answer' = [answer EXCEPT ![c] = "Failed"]
    /\ UNCHANGED <<accounts, transfers, entries, req, known,
                   lock, attempt, tx, view, stale, new, legs>>

(* The server ends a transaction whose client is gone.                      *)
ServerRollback(c) ==
    /\ pc[c] = "done"
    /\ tx[c] # "none"
    /\ EndTx(c)
    /\ stale' = [stale EXCEPT ![c] = {}]
    /\ UNCHANGED <<accounts, transfers, entries, client>>

(* The steps a running call and a running server take by themselves.        *)
Progress(c) ==
    \/ Begin(c) \/ LockMissing(c) \/ LockStale(c) \/ LockGranted(c)
    \/ CheckRefuses(c) \/ CheckPasses(c)
    \/ InsertTransfer(c) \/ InsertDuplicate(c)
    \/ Debit(c) \/ Credit(c) \/ CreditOverflows(c)
    \/ InsertEntries(c) \/ Complete(c)
    \/ ServerCommit(c) \/ CommitAcknowledged(c)
    \/ Retry(c)

Next ==
    \/ \E a \in Accounts, cur \in Currencies : CreateAccount(a, cur)
    \/ \E c \in Calls, k \in Keys \cup {NoKey}, m \in Commands : Invoke(c, k, m)
    \/ \E c \in Calls : Progress(c)
    \/ \E c \in Calls : SerializationFailure(c)
    \/ \E c \in Calls : GiveUp(c)
    \/ \E c \in Calls : ServerRollback(c)

Spec == Init /\ [][Next]_vars

(* A running goroutine keeps running, the server answers or ends what it    *)
(* was left with.  Nothing obliges a client to call, a statement to fail or *)
(* a context to be cancelled.                                               *)
Fairness ==
    \A c \in Calls : WF_vars(Progress(c)) /\ WF_vars(ServerRollback(c))

FairSpec == Spec /\ Fairness
==============================================================================
