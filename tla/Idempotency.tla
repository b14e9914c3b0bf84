------------------------------ MODULE Idempotency ----------------------------
(****************************************************************************)
(* Service.PostIdempotent over the Redis coordination store                 *)
(* (internal/transfer/idempotent.go, internal/idempotency/store.go), one    *)
(* action per round trip to Redis or PostgreSQL.                            *)
(*                                                                          *)
(* The posting itself, postWithRetry with a stamp, is the abstract Ledger   *)
(* that Posting implements: the transfer of a call happens in one step,     *)
(* possibly after the call was told "Failed".                               *)
(*                                                                          *)
(* Of Redis the model keeps one record per key.  A record can vanish at any *)
(* moment (lease, TTL, eviction, flush).  The client library repeats a      *)
(* command whose reply it lost, so that a caller's SET NX can lose to its   *)
(* own first try; and a try that the client has given up on, because the    *)
(* command timed out or was repeated, can reach Redis at any later moment   *)
(* or never.  A store that is not configured behaves like one that always   *)
(* fails.                                                                   *)
(*                                                                          *)
(* A process can die between any two round trips.                           *)
(*                                                                          *)
(* Where two definitions of one thing stand together, the first is a        *)
(* mutation that the properties are tried against, as in Posting.           *)
(****************************************************************************)
EXTENDS Books

CONSTANTS
    BadKeys,    \* keys that ParseKey refuses
    NoRecord,   \* Redis has nothing under the key
    Corrupt,    \* Redis has something under the key that is not a record
    Leftovers,  \* what an earlier deployment may have left under a key
    MaxLate     \* bound: commands on their way that nobody waits for

VARIABLES
    accounts, transfers, entries, req, known, answer,   \* Ledger's
    redis,   \* redis[k]: the record under key k
    late,    \* the commands on their way to Redis that nobody waits for
    step,    \* step[c]: the round trip call c is about to make
    ask,     \* ask[c]: the arguments of the call
    tries,   \* tries[c]: rounds of the loop in Acquire that found nothing
    seen,    \* seen[c]: Claim.Existing
    result   \* result[c]: the Result or error under construction

ledger == <<accounts, transfers, entries, req, known, answer>>
vars   == <<accounts, transfers, entries, req, known, answer,
            redis, late, step, ask, tries, seen, result>>

L == INSTANCE Ledger

(* const maxAttempts = 3 in Acquire.                                        *)
MaxClaims == 3

(* Record.  "by" stands for ClaimedAt: it tells two claims apart.           *)
Record == [state : {"PROCESSING", "COMPLETED"},
           fp : { Fingerprint(m) : m \in Commands },
           transfer : TransferIDs \cup {NoTransfer},
           by : Calls \cup {NoCall}]

(* A command that writes to Redis: SET NX with a claim, SET with a record,  *)
(* or DEL, which leaves no record.                                          *)
Write == [key : Keys, rec : Record \cup {NoRecord}, nx : BOOLEAN]

(* What PostIdempotent is called with.                                      *)
Asking == [cmd : Commands, key : Keys \cup BadKeys, paid : BOOLEAN]

ASSUME RecordAssumption ==
    /\ BadKeys \cap (Keys \cup {NoKey}) = {}
    /\ NoRecord \notin Record
    /\ Corrupt \notin Record \cup {NoRecord}
    /\ Leftovers \subseteq Record \cup {NoRecord, Corrupt}
    /\ \A r \in Leftovers \cap Record : r.by = NoCall
    /\ MaxLate \in Nat
    /\ NoReq \notin Asking \cup [key : Keys \cup BadKeys,
                              payment : { Fingerprint(m) : m \in Commands }]

NoResult == [kind |-> "none", transfer |-> NoTransfer]
Error(e) == [kind |-> e, transfer |-> NoTransfer]

Init ==
    /\ L!Init
    /\ redis \in [Keys -> Leftovers]
    /\ late = {}
    /\ step = [c \in Calls |-> "idle"]
    /\ ask = [c \in Calls |-> NoReq]
    /\ tries = [c \in Calls |-> 0]
    /\ seen = [c \in Calls |-> NoRecord]
    /\ result = [c \in Calls |-> NoResult]

Key(c) == ask[c].key
Cmd(c) == ask[c].cmd
FP(c)  == Fingerprint(Cmd(c))

(* The transfers row of key k, as SELECT ... WHERE idempotency_key = k sees *)
(* it: a set with at most one element.                                      *)
RowsOf(k) == { t \in transfers : t.key = k }

Goto(c, to) == step' = [step EXCEPT ![c] = to]

(* Acquire's loop counter and the claim it found go out of scope.           *)
Forget(c) ==
    /\ tries' = [tries EXCEPT ![c] = 0]
    /\ seen' = [seen EXCEPT ![c] = NoRecord]

Return(c, r) ==
    /\ Goto(c, "done")
    /\ Forget(c)
    /\ result' = [result EXCEPT ![c] = r]

(****************************************************************************)
(* The call                                                                 *)
(****************************************************************************)
(* PostIdempotent is called: key and command are validated before anything  *)
(* is claimed.  "paid" is a history variable: whether an earlier call with  *)
(* this key had already made this payment.                                  *)
Paid(k, m) ==
    \E d \in Calls : /\ L!CommittedBy(d) # {}
                     /\ ask[d].key = k
                     /\ Fingerprint(ask[d].cmd) = Fingerprint(m)

Call(c, k, m) ==
    /\ step[c] = "idle"
    /\ ask' = [ask EXCEPT ![c] =
                 [cmd |-> m, key |-> k, paid |-> Paid(k, m)]]
    /\ IF k \notin Keys
       THEN Return(c, Error("InvalidKey"))
       ELSE IF Validate(m) # "ok"
       THEN Return(c, Error(Validate(m)))
       ELSE /\ Goto(c, "setnx")
            /\ UNCHANGED <<tries, seen, result>>
    /\ UNCHANGED <<accounts, transfers, entries, req, known, answer, redis,
                   late>>

(* The key the transfer is stamped with.                                    *)
NoStamp(c) == NoKey
Stamp(c)   == Key(c)

(* postClaimed starts postWithRetry.                                        *)
Post(c) ==
    /\ L!Invoke(c, Stamp(c), Cmd(c))
    /\ Goto(c, "posting")
    /\ Forget(c)
    /\ UNCHANGED <<ask, result>>

(****************************************************************************)
(* Acquire                                                                  *)
(****************************************************************************)
ClaimAsDone(c) == [state |-> "COMPLETED", fp |-> FP(c),
                   transfer |-> NoTransfer, by |-> c]
Claim(c) == [state |-> "PROCESSING", fp |-> FP(c), transfer |-> NoTransfer,
             by |-> c]

(* The record that cacheCompletion writes.                                  *)
Completion(c) == [state |-> "COMPLETED", fp |-> FP(c),
                  transfer |-> result[c].transfer.id, by |-> c]

(* The write that c sends to Redis in its present step, if any.             *)
Sent(c) ==
    IF step[c] = "setnx"
    THEN {[key |-> Key(c), rec |-> Claim(c), nx |-> TRUE]}
    ELSE IF step[c] = "complete"
    THEN {[key |-> Key(c), rec |-> Completion(c), nx |-> FALSE]}
    ELSE IF step[c] = "release"
    THEN {[key |-> Key(c), rec |-> NoRecord, nx |-> FALSE]}
    ELSE {}

(* A try of that write may still be on its way when c goes on.              *)
Stray(c) ==
    \E W \in SUBSET Sent(c) :
        /\ Cardinality(late \cup W) <= MaxLate
        /\ late' = late \cup W

(* SET NX EX took the key.                                                  *)
SetNXTakes(c) ==
    /\ step[c] = "setnx"
    /\ redis[Key(c)] = NoRecord
    /\ redis' = [redis EXCEPT ![Key(c)] = Claim(c)]
    /\ Stray(c)
    /\ Post(c)

(* SET NX found the key taken.                                              *)
SetNXLoses(c) ==
    /\ step[c] = "setnx"
    /\ redis[Key(c)] # NoRecord
    /\ Stray(c)
    /\ Goto(c, "get")
    /\ UNCHANGED <<accounts, transfers, entries, req, known, answer,
                   redis, ask, tries, seen, result>>

(* SET NX took the key, its reply was lost, and the library's repetition    *)
(* found the key taken.                                                     *)
SetNXLosesToItself(c) ==
    /\ step[c] = "setnx"
    /\ redis[Key(c)] = NoRecord
    /\ redis' = [redis EXCEPT ![Key(c)] = Claim(c)]
    /\ Stray(c)
    /\ Goto(c, "get")
    /\ UNCHANGED <<accounts, transfers, entries, req, known, answer,
                   ask, tries, seen, result>>

(* SET NX failed; it takes the key later, if at all.  ErrUnavailable: the   *)
(* call goes on with PostgreSQL alone.                                      *)
SetNXFails(c) ==
    /\ step[c] = "setnx"
    /\ Stray(c)
    /\ Post(c)
    /\ UNCHANGED redis

(* GET found the record that SET NX lost to.  resolveExisting refuses a key *)
(* used for another payment before it looks at anything else.               *)
GetFinds(c) ==
    /\ step[c] = "get"
    /\ redis[Key(c)] \notin {NoRecord, Corrupt}
    /\ IF redis[Key(c)].fp # FP(c)
       THEN Return(c, Error("Conflict"))
       ELSE /\ Goto(c, "lookup")
            /\ seen' = [seen EXCEPT ![c] = redis[Key(c)]]
            /\ UNCHANGED <<tries, result>>
    /\ UNCHANGED <<accounts, transfers, entries, req, known, answer,
                   redis, late, ask>>

(* GET found something that does not decode.                                *)
GetUndecodable(c) ==
    /\ step[c] = "get"
    /\ redis[Key(c)] = Corrupt
    /\ Return(c, Error("Undecodable"))
    /\ UNCHANGED <<accounts, transfers, entries, req, known, answer,
                   redis, late, ask>>

(* The round of Acquire's loop c is in is not the last one.                 *)
OneRoundMore(c) == tries[c] < MaxClaims
MoreRounds(c)   == tries[c] + 1 < MaxClaims

(* The number of rounds that found nothing, this one included.              *)
NotCounted(c) == tries[c]
Counted(c)    == tries[c] + 1

(* GET found nothing: the claim has gone.  Try again, three times at most.  *)
GetMisses(c) ==
    /\ step[c] = "get"
    /\ redis[Key(c)] = NoRecord
    /\ IF MoreRounds(c)
       THEN /\ Goto(c, "setnx")
            /\ tries' = [tries EXCEPT ![c] = Counted(c)]
            /\ UNCHANGED <<seen, result>>
       ELSE Return(c, Error("InProgress"))
    /\ UNCHANGED <<accounts, transfers, entries, req, known, answer,
                   redis, late, ask>>

GetFails(c) ==
    /\ step[c] = "get"
    /\ Post(c)
    /\ UNCHANGED <<redis, late>>

(****************************************************************************)
(* resolveExisting and postClaimed                                          *)
(****************************************************************************)
(* What recoverFromDatabase makes of the row of c's key.                    *)
TrustKey(c, t) == [kind |-> "Replayed", transfer |-> t]
Replay(c, t) == IF Fingerprint(t) = FP(c)
                THEN [kind |-> "Replayed", transfer |-> t]
                ELSE Error("Conflict")

(* What c is told of a PROCESSING record whose transfer is not there yet.   *)
Contested(c)  == Error("Conflict")
Unfinished(c) == Error("InProgress")

(* resolveExisting reads through to PostgreSQL, whatever the record says; a *)
(* COMPLETED record without a transfer is not believed.                     *)
Lookup(c) ==
    /\ step[c] = "lookup"
    /\ IF RowsOf(Key(c)) # {}
       THEN /\ \E t \in RowsOf(Key(c)) : Return(c, Replay(c, t))
            /\ UNCHANGED <<accounts, transfers, entries, req, known, answer,
                           ask>>
       ELSE IF seen[c].state = "COMPLETED"
       THEN Post(c)
       ELSE /\ Return(c, Unfinished(c))
            /\ UNCHANGED <<accounts, transfers, entries, req, known, answer,
                           ask>>
    /\ UNCHANGED <<redis, late>>

(* The transfer of call c takes effect.                                     *)
Commit(c) ==
    /\ L!Commit(c)
    /\ UNCHANGED <<redis, late, step, ask, tries, seen, result>>

(* postWithRetry returned the new transfer.                                 *)
PostSucceeds(c) ==
    /\ step[c] = "posting"
    /\ L!Answer(c, "Posted")
    /\ Goto(c, "complete")
    /\ \E t \in L!CommittedBy(c) :
          result' = [result EXCEPT ![c] = [kind |-> "Posted", transfer |-> t]]
    /\ UNCHANGED <<redis, late, ask, tries, seen>>

(* The INSERT met transfers_idempotency_key_unique.                         *)
PostIsDuplicate(c) ==
    /\ step[c] = "posting"
    /\ L!Answer(c, "Duplicate")
    /\ Goto(c, "recover")
    /\ UNCHANGED <<redis, late, ask, tries, seen, result>>

(* What the caller is told of error e.                                      *)
Retryable(e)  == IF e = "Failed" THEN Error("Exhausted") ELSE Error(e)
AsReturned(e) == Error(e)

(* postWithRetry returned any other error, e: the claim is to be released.  *)
PostFails(c, e) ==
    /\ step[c] = "posting"
    /\ L!Answer(c, e)
    /\ Goto(c, "release")
    /\ result' = [result EXCEPT ![c] = AsReturned(e)]
    /\ UNCHANGED <<redis, late, ask, tries, seen>>

(* recoverFromDatabase after the barrier fired.                             *)
Recover(c) ==
    /\ step[c] = "recover"
    /\ IF RowsOf(Key(c)) = {}
       THEN Return(c, Error("InProgress"))
       ELSE \E t \in RowsOf(Key(c)) :
              IF Replay(c, t).kind = "Replayed"
              THEN /\ Goto(c, "complete")
                   /\ result' = [result EXCEPT ![c] = Replay(c, t)]
                   /\ UNCHANGED <<tries, seen>>
              ELSE Return(c, Replay(c, t))
    /\ UNCHANGED <<accounts, transfers, entries, req, known, answer,
                   redis, late, ask>>

(* The query of recoverFromDatabase failed.                                 *)
QueryFails(c) ==
    /\ step[c] \in {"lookup", "recover"}
    /\ Return(c, Error("Failed"))
    /\ UNCHANGED <<accounts, transfers, entries, req, known, answer,
                   redis, late, ask>>

(* cacheCompletion overwrites whatever is there, or fails; the call returns *)
(* its transfer either way.                                                 *)
Complete(c) ==
    /\ step[c] = "complete"
    /\ redis' \in {redis, [redis EXCEPT ![Key(c)] = Completion(c)]}
    /\ Stray(c)
    /\ Goto(c, "done")
    /\ UNCHANGED <<accounts, transfers, entries, req, known, answer,
                   ask, tries, seen, result>>

(* releaseClaim deletes whatever is there, or fails.                        *)
Release(c) ==
    /\ step[c] = "release"
    /\ redis' \in {redis, [redis EXCEPT ![Key(c)] = NoRecord]}
    /\ Stray(c)
    /\ Goto(c, "done")
    /\ UNCHANGED <<accounts, transfers, entries, req, known, answer,
                   ask, tries, seen, result>>

(****************************************************************************)
(* The environment                                                          *)
(****************************************************************************)
(* A record expires, is evicted or flushed.                                 *)
Vanish(k) ==
    /\ redis[k] # NoRecord
    /\ redis' = [redis EXCEPT ![k] = NoRecord]
    /\ UNCHANGED <<accounts, transfers, entries, req, known, answer,
                   late, step, ask, tries, seen, result>>

(* What Redis makes of write w.                                             *)
Applied(w) == [redis EXCEPT ![w.key] =
                 IF w.nx /\ @ # NoRecord THEN @ ELSE w.rec]

(* A write that nobody waits for any more reaches Redis.                    *)
Arrive(w) ==
    /\ w \in late
    /\ late' = late \ {w}
    /\ redis' = Applied(w)
    /\ UNCHANGED <<accounts, transfers, entries, req, known, answer,
                   step, ask, tries, seen, result>>

(* The process serving c dies; nobody is told anything, and what it was     *)
(* sending may still arrive.                                                *)
Crash(c) ==
    /\ step[c] \notin {"idle", "done", "gone"}
    /\ Goto(c, "gone")
    /\ IF step[c] = "posting" THEN L!Answer(c, "Failed") ELSE UNCHANGED ledger
    /\ Forget(c)
    /\ Stray(c)
    /\ UNCHANGED <<redis, ask, result>>

(* The steps a running call takes by itself.                                *)
Progress(c) ==
    \/ SetNXTakes(c) \/ SetNXLoses(c) \/ SetNXLosesToItself(c) \/ SetNXFails(c)
    \/ GetFinds(c) \/ GetUndecodable(c) \/ GetMisses(c) \/ GetFails(c)
    \/ Lookup(c) \/ Recover(c) \/ QueryFails(c)
    \/ PostSucceeds(c) \/ PostIsDuplicate(c)
    \/ \E e \in Rejections \cup {"Exhausted", "Failed"} : PostFails(c, e)
    \/ Complete(c) \/ Release(c)

Next ==
    \/ \E c \in Calls, k \in Keys \cup BadKeys, m \in Commands : Call(c, k, m)
    \/ \E c \in Calls : Progress(c)
    \/ \E c \in Calls : Commit(c)
    \/ \E k \in Keys : Vanish(k)
    \/ \E w \in late : Arrive(w)
    \/ \E c \in Calls : Crash(c)

Spec == Init /\ [][Next]_vars

(* A goroutine that has not died goes on: every round trip is bounded by    *)
(* the command timeout or the caller's context.                             *)
FairSpec == Spec /\ \A c \in Calls : WF_vars(Progress(c))
==============================================================================
