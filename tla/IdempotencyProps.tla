--------------------------- MODULE IdempotencyProps --------------------------
(****************************************************************************)
(* The correctness properties of Idempotency.                               *)
(****************************************************************************)
EXTENDS Idempotency

Steps == {"idle", "setnx", "get", "lookup", "posting", "recover", "complete",
          "release", "done", "gone"}

Kinds == Outcomes \cup {"none", "Replayed", "Conflict", "InProgress",
                        "InvalidKey", "Undecodable"}

(* Every variable has its type; no round of Acquire is the fourth.          *)
IdemTypeOK ==
    /\ redis \in [Keys -> Record \cup {NoRecord, Corrupt}]
    /\ late \subseteq Write
    /\ step \in [Calls -> Steps]
    /\ ask \in [Calls -> Asking \cup {NoReq}]
    /\ tries \in [Calls -> 0 .. MaxClaims - 1]
    /\ seen \in [Calls -> Record \cup {NoRecord}]
    /\ result \in [Calls -> [kind : Kinds, transfer : Transfer \cup {NoTransfer}]]

(* Whatever Redis holds, loses or forgets, a call that succeeds returns a   *)
(* committed transfer of its own key and of its own payment: its own one    *)
(* when it is new, somebody else's when it is a replay ("a stale or wrong   *)
(* cache entry cannot make this return the wrong payment").                 *)
SuccessIsThePayment ==
    \A c \in Calls :
        result[c].kind \in {"Posted", "Replayed"} =>
            LET t == result[c].transfer
            IN  /\ t \in transfers
                /\ t.key = Key(c)
                /\ Fingerprint(t) = FP(c)
                /\ (result[c].kind = "Posted") <=> (t.id[1] = c)

(* A call that returned anything but a new transfer or an unclassified      *)
(* failure has moved no money and never will: not when it was refused, not  *)
(* when it was told of a conflict or of a request in progress, not when it  *)
(* replayed.                                                                *)
NoMoneyBehindRefusal ==
    \A c \in Calls :
        step[c] = "done" /\ result[c].kind \notin {"Posted", "Failed"} =>
            L!CommittedBy(c) = {}

(* "StateCompleted means a transfer exists in PostgreSQL for this key"      *)
(* (store.go:29): a COMPLETED record this deployment wrote names the        *)
(* committed transfer of its key and fingerprint.                           *)
CompletedIsTrue ==
    \A k \in Keys :
        redis[k] \in Record /\ redis[k].state = "COMPLETED"
                /\ redis[k].by # NoCall =>
            \E t \in RowsOf(k) : /\ t.id = redis[k].transfer
                                 /\ Fingerprint(t) = redis[k].fp

(* A request repeated after its payment was committed never pays again,     *)
(* even when Redis lost every trace of the first one.                       *)
RetryNeverPaysAgain ==
    \A c \in Calls :
        ask[c] # NoReq /\ ask[c].paid => L!CommittedBy(c) = {}

(* A call is told of a conflict only when its key was used for a different  *)
(* payment, by another call or by what an earlier deployment left in Redis. *)
ConflictMeansMisuse ==
    \A c \in Calls :
        result[c].kind = "Conflict" =>
            \/ \E d \in Calls : /\ ask[d] # NoReq
                                /\ Key(d) = Key(c)
                                /\ FP(d) # FP(c)
            \/ \E l \in Leftovers \cap Record : l.fp # FP(c)

(****************************************************************************)
(* The inductive invariant                                                  *)
(****************************************************************************)
(* c has not started a transfer, or has been told that there is none.       *)
Closed(c) == req[c] = NoReq \/ answer[c] \notin {Pending, "Posted", "Failed"}

(* The ledger's view of a call agrees with the service's: a transfer is     *)
(* stamped with the key its caller sent, no key has two, a closed call has  *)
(* none, and a call whose payment had been made before it came in finds the *)
(* barrier in place.                                                        *)
LedgerInv ==
    /\ req \in [Calls -> Request \cup {NoReq}]
    /\ answer \in [Calls -> Outcomes \cup {Pending}]
    /\ \A c \in Calls : req[c] # NoReq =>
          /\ ask[c] \in Asking
          /\ req[c] = [cmd |-> Cmd(c), key |-> Key(c)]
          /\ Key(c) \in Keys
          /\ Validate(Cmd(c)) = "ok"
    /\ \A t \in transfers : \E c \in Calls, n \in 1 .. MaxAttempts :
          /\ req[c] # NoReq
          /\ t = TransferRow(<<c, n>>, Cmd(c), Key(c), "completed")
    /\ \A t, u \in transfers : t.key = u.key => t = u
    /\ \A c \in Calls : Closed(c) => L!CommittedBy(c) = {}
    /\ \A c \in Calls : ask[c] # NoReq /\ ask[c].paid =>
          \E t \in transfers : t.key = Key(c) /\ t.id[1] # c

(* Where a call is tells what the ledger has been asked and has answered,   *)
(* and what the call has in its hands.                                      *)
StepOK(c) ==
    /\ step[c] = "idle" => ask[c] = NoReq /\ req[c] = NoReq
    /\ step[c] # "idle" => ask[c] \in Asking
    /\ step[c] \in {"setnx", "get", "lookup"} =>
          req[c] = NoReq /\ Key(c) \in Keys /\ Validate(Cmd(c)) = "ok"
    /\ step[c] = "lookup" => seen[c] \in Record
    /\ step[c] \in {"posting", "recover", "release", "complete"} =>
          req[c] # NoReq
    /\ step[c] = "posting" => answer[c] = Pending
    /\ step[c] = "recover" => answer[c] = "Duplicate"
    /\ step[c] = "release" => result[c].kind = answer[c]
    /\ step[c] = "complete" => result[c].kind \in {"Posted", "Replayed"}
    /\ step[c] \in {"idle", "setnx", "get", "lookup", "posting", "recover"} =>
          result[c] = NoResult
    /\ step[c] \in {"release", "done"}
            /\ result[c].kind \notin {"Posted", "Failed"} => Closed(c)
    /\ result[c].kind = "Posted" =>
          /\ result[c].transfer \in RowsOf(Key(c))
          /\ Fingerprint(result[c].transfer) = FP(c)
          /\ result[c].transfer.id[1] = c
    /\ result[c].kind = "Replayed" =>
          /\ result[c].transfer \in RowsOf(Key(c))
          /\ Fingerprint(result[c].transfer) = FP(c)
          /\ Closed(c)

(* A record r under key k, in Redis or on its way there, is no lie and was  *)
(* written for a request with that key, or is left over.                    *)
RecordOK(k, r) ==
    r \in Record \ Leftovers =>
        /\ r.state = "COMPLETED" =>
              \E t \in RowsOf(k) : t.id = r.transfer /\ Fingerprint(t) = r.fp
        /\ \E d \in Calls : /\ ask[d] # NoReq
                            /\ Key(d) = k
                            /\ FP(d) = r.fp

(* The inductive invariant of PostIdempotent and its store.                 *)
IdemInv ==
    /\ IdemTypeOK
    /\ LedgerInv
    /\ \A c \in Calls : StepOK(c)
    /\ \A k \in Keys : RecordOK(k, redis[k])
    /\ \A w \in late : RecordOK(w.key, w.rec)
    /\ ConflictMeansMisuse

(* The request and the verdict of call c as its client sees them.           *)
Asked(c) == IF ask[c] = NoReq THEN NoReq
            ELSE [key |-> Key(c), payment |-> FP(c)]

Verdict(c) ==
    IF step[c] # "done" THEN [verdict |-> "nothing", by |-> NoCall]
    ELSE IF result[c].kind \in {"Posted", "Replayed"}
    THEN [verdict |-> "success", by |-> result[c].transfer.id[1]]
    ELSE IF result[c].kind = "Failed"
    THEN [verdict |-> "unknown", by |-> NoCall]
    ELSE [verdict |-> "refused", by |-> NoCall]

(* PostIdempotent with its Redis store implements AtMostOnce: the payments  *)
(* made are the committed transfers, and a client knows what its call has   *)
(* returned.                                                                *)
Promise ==
    INSTANCE AtMostOnce WITH
        Callers  <- Calls,
        Payments <- { Fingerprint(m) : m \in Commands },
        Nobody   <- NoCall,
        NotAsked <- NoReq,
        asked    <- [c \in Calls |-> Asked(c)],
        paid     <- { [key |-> t.key, payment |-> Fingerprint(t),
                       by |-> t.id[1]] : t \in transfers },
        told     <- [c \in Calls |-> Verdict(c)]

ImplementsAtMostOnce == Promise!Spec

(* Every call that is not cut short by a crash returns: Acquire gives up    *)
(* after three rounds and nothing waits for another request.                *)
EveryRequestReturns ==
    \A c \in Calls : (step[c] # "idle") ~> (step[c] \in {"done", "gone"})

(****************************************************************************)
(* What the repository says and the code does not do                        *)
(****************************************************************************)
(* "A caller that retries the same request gets the original transfer back" *)
(* (docs/IDEMPOTENCY.md): at least, it is not told that the payment was     *)
(* refused or that the key belongs to another payment.                      *)
RetryIsNotRefused ==
    \A c \in Calls :
        step[c] = "done" /\ ask[c].paid =>
            result[c].kind \notin Rejections \cup {"Conflict"}
==============================================================================
