-------------------------------- MODULE Audit --------------------------------
(****************************************************************************)
(* What findUnbalancedTransfers says of a completed transfer, for every set *)
(* of ledger_entries rows the table's own constraints admit.  The rows are  *)
(* written one INSERT at a time by an unspecified writer: the query must    *)
(* not rely on the posting code having written them.                        *)
(****************************************************************************)
EXTENDS Reconcile

CONSTANT MaxAmount   \* bound of the amounts an entry may have

VARIABLES
    subject,  \* the completed transfer under audit
    rows      \* its ledger_entries rows

auditVars == <<subject, rows>>

Amounts == (-MaxAmount .. MaxAmount) \ {0}

AuditInit ==
    /\ \E id \in TransferIDs, m \in Commands :
          /\ Validate(m) = "ok"
          /\ subject = TransferRow(id, m, NoKey, "completed")
    /\ rows = {}

(* INSERT INTO ledger_entries under ledger_entries_amount_non_zero and      *)
(* UNIQUE (transfer_id, account_id).                                        *)
InsertEntry(a, n, cur) ==
    /\ \A e \in rows : e.account # a
    /\ rows' = rows \cup {[transfer |-> subject.id, account |-> a,
                           amount |-> n, currency |-> cur]}
    /\ UNCHANGED subject

AuditNext ==
    \E a \in Accounts, n \in Amounts, cur \in Currencies :
        InsertEntry(a, n, cur)

AuditSpec == AuditInit /\ [][AuditNext]_auditVars

(* What the table's constraints guarantee of the rows.                      *)
AuditInv ==
    /\ subject.status = "completed"
    /\ Validate(subject) = "ok"
    /\ subject.amount \in Int
    /\ \A e \in rows : e \in [transfer : {subject.id}, account : Accounts,
                              amount : Int \ {0}, currency : Currencies]

(* Nothing escapes the audit: a completed transfer that                     *)
(* findUnbalancedTransfers does not report has exactly its debit on the     *)
(* source and its credit on the destination.                                *)
NothingEscapes ==
    findUnbalancedTransfers({subject}, rows) = {} =>
        rows = Legs(subject.id, subject)
==============================================================================
