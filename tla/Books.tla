-------------------------------- MODULE Books --------------------------------
(****************************************************************************)
(* The vocabulary of the ledger: account rows, transfer commands, completed *)
(* transfers and ledger entries, as the PostgreSQL schema in migrations/    *)
(* and the Go types of internal/transfer and internal/ledger define them.   *)
(*                                                                          *)
(* What is abstracted:                                                      *)
(*   - a UUID is a natural number; bytes.Compare on the 16 raw bytes is <=, *)
(*     and uuid.Nil, the smallest of them, is 0;                            *)
(*   - timestamps are left out: no decision of the code reads them;         *)
(*   - a request fingerprint (SHA-256 over the canonical command) is the    *)
(*     command itself, so that two fingerprints are equal exactly when the  *)
(*     four financial fields are.                                           *)
(****************************************************************************)
EXTENDS Integers, FiniteSetsExt

CONSTANTS
    Calls,         \* calls of the transfer service: one per client request
    Accounts,      \* every account id that may ever exist
    MaxAccountID,  \* the largest UUID
    Currencies,    \* valid ISO 4217 codes
    Keys,          \* idempotency keys
    NoKey,         \* SQL NULL in transfers.idempotency_key
    NoRow,         \* no accounts row with this id
    NoCall,        \* nobody
    NoReq,         \* the call has not been made
    NoTransfer,    \* no transfers row
    Commands,      \* the transfer commands clients send
    MaxBalance,    \* the largest BIGINT
    MaxAttempts,   \* RetryPolicy.MaxAttempts
    Opening        \* accounts rows present at the start, with their funding

NilID == 0

(* uuid.New() is called once per attempt, so the id of a transfer is named  *)
(* by the call and the attempt that drew it.                                *)
TransferIDs == Calls \X (1 .. MaxAttempts)

(* The tables.                                                              *)
Row == [currency : Currencies, balance : 0 .. MaxBalance]

Transfer == [id : TransferIDs, src : Accounts, dst : Accounts, amount : Nat,
             currency : Currencies, key : Keys \cup {NoKey},
             status : {"pending", "completed"}]

Entry == [transfer : TransferIDs, account : Accounts, amount : Int,
          currency : Currencies]

(* A call's command and key.                                                *)
Request == [cmd : Commands, key : Keys \cup {NoKey}]

ASSUME AccountsAssumption ==
    /\ MaxAccountID \in Nat
    /\ Accounts \subseteq 1 .. MaxAccountID

ASSUME BoundsAssumption ==
    /\ MaxBalance \in Nat
    /\ MaxAttempts \in Nat \ {0}

ASSUME NullsAssumption ==
    /\ NoRow \notin Row
    /\ NoKey \notin Keys
    /\ NoCall \notin Calls
    /\ NoReq \notin Request
    /\ NoTransfer \notin Transfer

ASSUME CommandsAssumption ==
    \A m \in Commands :
        /\ m.src \in Accounts \cup {NilID}
        /\ m.dst \in Accounts \cup {NilID}
        /\ m.amount \in Int
        /\ m.amount <= MaxBalance

ASSUME OpeningAssumption == Opening \in [Accounts -> Row \cup {NoRow}]

(****************************************************************************)
(* Command.Validate: the checks that need no database, in the order the     *)
(* code makes them.                                                         *)
(****************************************************************************)
Validate(m) ==
    IF m.amount <= 0 THEN "InvalidAmount"
    ELSE IF m.currency \notin Currencies THEN "InvalidCurrency"
    ELSE IF m.src = m.dst THEN "SameAccount"
    ELSE IF NilID \in {m.src, m.dst} THEN "SourceNotFound"
    ELSE "ok"

(* The transfers row of command m with key k.                               *)
TransferRow(id, m, k, status) ==
    [id |-> id, src |-> m.src, dst |-> m.dst, amount |-> m.amount,
     currency |-> m.currency, key |-> k, status |-> status]

(* UPDATE accounts SET balance_minor = balance_minor + n.                   *)
Moved(row, n) == [currency |-> row.currency, balance |-> row.balance + n]

(* The two halves of the double entry of command m.                         *)
Legs(id, m) ==
    { [transfer |-> id, account |-> m.src, amount |-> -m.amount,
       currency |-> m.currency],
      [transfer |-> id, account |-> m.dst, amount |-> m.amount,
       currency |-> m.currency] }

SumOf(S) == MapThenSumSet(LAMBDA e : e.amount, S)

(* The financial identity of a request, or of the request behind a row.     *)
Fingerprint(m) == <<m.src, m.dst, m.amount, m.currency>>

(* What a call can be told.  "Failed" is every error that carries neither a *)
(* business meaning nor a retryable SQLSTATE: a lost connection, a          *)
(* cancelled context, a numeric overflow.                                   *)
Rejections == {"SourceNotFound", "DestinationNotFound", "CurrencyMismatch",
               "InsufficientFunds"}
Malformed  == {"InvalidAmount", "InvalidCurrency", "SameAccount",
               "SourceNotFound"}
Outcomes   == Rejections \cup Malformed
                \cup {"Posted", "Duplicate", "Exhausted", "Failed"}
Pending    == "pending"
==============================================================================
