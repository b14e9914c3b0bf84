-------------------------------- MODULE Ledger -------------------------------
(****************************************************************************)
(* What Service.Post promises its callers, with the transaction protocol    *)
(* hidden: a transfer happens in one step or not at all, at most once per   *)
(* call and at most once per idempotency key; a refusal is true and final;  *)
(* only "Failed" leaves the caller in doubt, because the COMMIT may have    *)
(* been sent before the connection or the context was lost.                 *)
(*                                                                          *)
(* Posting.tla, translated from the code statement by statement, implements *)
(* this specification.                                                      *)
(****************************************************************************)
EXTENDS Books

VARIABLES
    accounts,   \* committed accounts rows
    transfers,  \* committed transfers rows
    entries,    \* committed ledger_entries rows
    req,        \* req[c]: the command and key of call c
    known,      \* known[c]: the accounts that existed when c was made
    answer      \* answer[c]: what c was told

vars == <<accounts, transfers, entries, req, known, answer>>

Existing == { a \in Accounts : accounts[a] # NoRow }

CommittedBy(c) == { t \in transfers : t.id[1] = c }

KeyTaken(k) == k # NoKey /\ \E t \in transfers : t.key = k

(* The transfer is possible on the committed rows.                          *)
CanPost(m) ==
    /\ accounts[m.src] # NoRow
    /\ accounts[m.dst] # NoRow
    /\ accounts[m.src].currency = m.currency
    /\ accounts[m.dst].currency = m.currency
    /\ accounts[m.src].balance >= m.amount
    /\ accounts[m.dst].balance + m.amount <= MaxBalance

Init ==
    /\ accounts = Opening
    /\ transfers = {}
    /\ entries = {}
    /\ req = [c \in Calls |-> NoReq]
    /\ known = [c \in Calls |-> {}]
    /\ answer = [c \in Calls |-> Pending]

(* A client opens an account: it starts empty.                              *)
CreateAccount(a, cur) ==
    /\ accounts[a] = NoRow
    /\ accounts' = [accounts EXCEPT ![a] = [currency |-> cur, balance |-> 0]]
    /\ UNCHANGED <<transfers, entries, req, known, answer>>

(* A call is made; a malformed command is refused on the spot.              *)
Invoke(c, k, m) ==
    /\ req[c] = NoReq
    /\ req' = [req EXCEPT ![c] = [cmd |-> m, key |-> k]]
    /\ known' = [known EXCEPT ![c] = Existing]
    /\ answer' = [answer EXCEPT ![c] =
                    IF Validate(m) = "ok" THEN Pending ELSE Validate(m)]
    /\ UNCHANGED <<accounts, transfers, entries>>

(* The transfer of call c takes effect.  The caller may have given up       *)
(* ("Failed") while its COMMIT was on the way.                              *)
Commit(c) ==
    /\ req[c] # NoReq
    /\ answer[c] \in {Pending, "Failed"}
    /\ CommittedBy(c) = {}
    /\ CanPost(req[c].cmd)
    /\ ~KeyTaken(req[c].key)
    /\ LET m == req[c].cmd
       IN  \E n \in 1 .. MaxAttempts :
             /\ accounts' = [accounts EXCEPT ![m.src] = Moved(@, -m.amount),
                                              ![m.dst] = Moved(@, m.amount)]
             /\ transfers' = transfers \cup
                    {TransferRow(<<c, n>>, m, req[c].key, "completed")}
             /\ entries' = entries \cup Legs(<<c, n>>, m)
    /\ UNCHANGED <<req, known, answer>>

(* What makes answer r true of call c in the present state.                 *)
Justified(c, r) ==
    LET m == req[c].cmd
    IN  \/ r = "Posted" /\ CommittedBy(c) # {}
        \/ r = "Failed"
        \/ /\ CommittedBy(c) = {}
           /\ \/ r = "Exhausted"
              \/ r = "Duplicate" /\ KeyTaken(req[c].key)
              \/ r = "SourceNotFound" /\ m.src \notin known[c]
              \/ r = "DestinationNotFound" /\ m.dst \notin known[c]
              \/ /\ r = "CurrencyMismatch"
                 /\ \E a \in {m.src, m.dst} \cap Existing :
                        accounts[a].currency # m.currency
              \/ /\ r = "InsufficientFunds"
                 /\ m.src \in Existing
                 /\ accounts[m.src].balance < m.amount

Answer(c, r) ==
    /\ req[c] # NoReq
    /\ answer[c] = Pending
    /\ Justified(c, r)
    /\ answer' = [answer EXCEPT ![c] = r]
    /\ UNCHANGED <<accounts, transfers, entries, req, known>>

Next ==
    \/ \E a \in Accounts, cur \in Currencies : CreateAccount(a, cur)
    \/ \E c \in Calls, k \in Keys \cup {NoKey}, m \in Commands : Invoke(c, k, m)
    \/ \E c \in Calls : Commit(c)
    \/ \E c \in Calls, r \in Outcomes : Answer(c, r)

Spec == Init /\ [][Next]_vars
==============================================================================
