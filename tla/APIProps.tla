------------------------------- MODULE APIProps ------------------------------
(****************************************************************************)
(* The correctness properties of API: what a client may conclude from what  *)
(* it is told.                                                              *)
(****************************************************************************)
EXTENDS API

Open == {"OK", "Canceled", "DeadlineExceeded", "Internal"}

Replied(c) == reply[c] # NoReply

OK(c) == Replied(c) /\ reply[c].code = "OK"

(* A status code is a promise: only OK, CANCELED, DEADLINE_EXCEEDED and     *)
(* INTERNAL leave room for a payment.  After any other answer, "the ledger  *)
(* is busy" included ("Nothing was written, and retrying later is the right *)
(* response", errors.go:98), the request has moved no money and never will. *)
CodesAreTrue ==
    \A c \in Calls :
        Replied(c) /\ reply[c].code \notin Open => L!CommittedBy(c) = {}

(* "A rejected request never reaches business code.  It cannot claim an     *)
(* idempotency key, cannot write a Redis PROCESSING record, cannot open a   *)
(* transaction and cannot move money" (docs/AUTHENTICATION.md): whatever a  *)
(* request leaves in the tables, in Redis or on the way to it, its header   *)
(* carried a token for the scope, under either name of the claim, signed    *)
(* with the service's key.                                                  *)
OnlyAdmittedLeaveTraces ==
    \A c \in Calls :
        \/ L!CommittedBy(c) # {}
        \/ \E k \in Keys : redis[k] \in Record /\ redis[k].by = c
        \/ \E w \in late : w.rec \in Record /\ w.rec.by = c
        => /\ header[c] \notin {Unset, Empty, Blank, Junk}
           /\ "transfers:write" \in header[c].bearer.scope
                                      \cup header[c].bearer.scp
           /\ header[c].bearer.key = Verifier.key
           /\ Now < header[c].bearer.exp + Verifier.leeway

(* "Repeating a request with the same key returns the same transfer id with *)
(* idempotent_replay = true, and no money moves" (docs/API.md): of all the  *)
(* clients told OK under one key, all hold the same transfer and at most    *)
(* one of them made it.                                                     *)
OneFreshReply ==
    \A c, d \in Calls :
        OK(c) /\ OK(d) /\ Key(c) = Key(d) =>
            /\ reply[c].transfer = reply[d].transfer
            /\ c # d => reply[c].replay \/ reply[d].replay

(* A transfer that a client has been told of can be read from then on, and  *)
(* a list of entries is never half of one: although the transfer and its    *)
(* entries are read in two queries, an answer has exactly two entries, that *)
(* sum to zero ("a completed transfer has exactly two", docs/API.md).       *)
ReadsAreWhole ==
    \A r \in Readers :
        look[r].at = "done" /\ look[r].rpc \in {"GetTransfer",
                                      "ListLedgerEntriesForTransfer"} =>
            /\ look[r].code = "NotFound" =>
                  \A t \in look[r].told : t.id # look[r].id
            /\ look[r].code = "OK" /\ look[r].rpc = "GetTransfer" =>
                  \A t \in look[r].got : t.status = "completed"
            /\ look[r].code = "OK" /\ look[r].rpc # "GetTransfer" =>
                  Cardinality(look[r].got) = 2 /\ SumOf(look[r].got) = 0

(* A client that reads an account after any client was told of a payment    *)
(* sees a balance that this payment is part of, and every amount in it is   *)
(* in the ledger.                                                           *)
BalancesIncludeThePayment ==
    \A r \in Readers :
        look[r].rpc = "GetAccount" /\ look[r].code = "OK" =>
            LET a    == look[r].id
                mine == { e \in entries : e.account = a }
                sure == { e \in mine : \E t \in look[r].told : t.id = e.transfer }
                open == IF Opening[a] = NoRow THEN 0 ELSE Opening[a].balance
            IN  \E S \in SUBSET mine :
                   /\ sure \subseteq S
                   /\ \A row \in look[r].got : row.balance = open + SumOf(S)
==============================================================================
