-------------------------- MODULE IdempotencyProofs --------------------------
(****************************************************************************)
(* PostIdempotent and its Redis store, proved for every number of requests, *)
(* keys and payments: the inductive invariant IdemInv, the safety           *)
(* properties that follow from it, and the refinement of AtMostOnce.        *)
(****************************************************************************)
EXTENDS IdempotencyProps, TLAPS

USE Zenon

(* The vocabulary of Books means the same inside Ledger.                    *)
LEMMA SameBooks ==
    /\ \A m : L!Validate(m) = Validate(m)
    /\ L!Pending = Pending
    /\ \A id, m, k, s : L!TransferRow(id, m, k, s) = TransferRow(id, m, k, s)
  BY DEF L!Validate, Validate, L!NilID, NilID, L!Pending, Pending,
         L!TransferRow, TransferRow

(* The first step of a transfer: postClaimed calls postWithRetry.           *)
Starts(c) ==
    /\ step[c] \in {"setnx", "get", "lookup"}
    /\ L!Invoke(c, Key(c), Cmd(c))
    /\ Goto(c, "posting")

(* A request comes in.                                                      *)
Asks(c, k, m) ==
    /\ step[c] = "idle"
    /\ ask' = [ask EXCEPT ![c] = [cmd |-> m, key |-> k, paid |-> Paid(k, m)]]
    /\ UNCHANGED <<transfers, req, answer>>

(* Every step does to the ledger and to the requests one of five things:    *)
(* nothing, a new request, a call of Post, its commit, or its answer.       *)
LEMMA LedgerEffects ==
    ASSUME Next
    PROVE  \/ UNCHANGED <<transfers, req, answer, ask>>
           \/ \E c \in Calls, k \in Keys \cup BadKeys, m \in Commands :
                  Asks(c, k, m)
           \/ UNCHANGED ask /\ \E c \in Calls : Starts(c)
           \/ UNCHANGED ask /\ \E c \in Calls : L!Commit(c)
           \/ UNCHANGED ask /\ \E c \in Calls, r \in Outcomes : L!Answer(c, r)
<1>1. CASE \E c \in Calls, k \in Keys \cup BadKeys, m \in Commands :
               Call(c, k, m)
  BY <1>1 DEF Call, Asks
<1>2. ASSUME NEW c \in Calls, Post(c), step[c] \in {"setnx", "get", "lookup"}
      PROVE  UNCHANGED ask /\ Starts(c)
  BY <1>2 DEF Post, Starts, Stamp
<1>3. ASSUME NEW c \in Calls, Progress(c)
      PROVE  \/ UNCHANGED <<transfers, req, answer, ask>>
             \/ UNCHANGED ask /\ Starts(c)
             \/ UNCHANGED ask /\ \E r \in Outcomes : L!Answer(c, r)
  <2>1. CASE SetNXTakes(c) \/ SetNXFails(c) \/ GetFails(c)
    BY <1>2, <2>1 DEF SetNXTakes, SetNXFails, GetFails
  <2>2. CASE SetNXLoses(c) \/ SetNXLosesToItself(c) \/ GetFinds(c)
               \/ GetUndecodable(c) \/ GetMisses(c)
    BY <2>2 DEF SetNXLoses, SetNXLosesToItself, GetFinds, GetUndecodable,
                GetMisses
  <2>3. CASE Lookup(c)
    BY <1>2, <2>3 DEF Lookup
  <2>4. CASE Recover(c) \/ QueryFails(c) \/ Complete(c) \/ Release(c)
    BY <2>4 DEF Recover, QueryFails, Complete, Release
  <2>5. CASE \/ PostSucceeds(c) \/ PostIsDuplicate(c)
             \/ \E e \in Rejections \cup {"Exhausted", "Failed"} : PostFails(c, e)
    BY <2>5 DEF PostSucceeds, PostIsDuplicate, PostFails, Outcomes
  <2> QED
    BY <1>3, <2>1, <2>2, <2>3, <2>4, <2>5 DEF Progress
<1>4. CASE \E c \in Calls : Commit(c)
  BY <1>4 DEF Commit
<1>5. CASE (\E k \in Keys : Vanish(k)) \/ \E w \in late : Arrive(w)
  BY <1>5 DEF Vanish, Arrive
<1>6. CASE \E c \in Calls : Crash(c)
  BY <1>6 DEF Crash, ledger, Outcomes
<1> QED
  BY <1>1, <1>3, <1>4, <1>5, <1>6 DEF Next

(* A new request leaves the ledger's view in order: if its payment had been *)
(* made before, the transfer is there.                                      *)
LEMMA NewRequest ==
    ASSUME IdemInv, NEW c \in Calls, NEW k \in Keys \cup BadKeys,
           NEW m \in Commands, Asks(c, k, m)
    PROVE  LedgerInv'
<1>1. /\ req[c] = NoReq
      /\ \A d \in Calls \ {c} : ask'[d] = ask[d]
      /\ ask'[c] = [cmd |-> m, key |-> k, paid |-> Paid(k, m)]
      /\ UNCHANGED <<transfers, req, answer>>
  BY DEF IdemInv, StepOK, Asks, IdemTypeOK
<1>2. LedgerInv
  BY DEF IdemInv
<1>3. \A d \in Calls : req'[d] # NoReq => d # c /\ ask'[d] = ask[d]
  BY <1>1
<1>4. \A d \in Calls : req'[d] # NoReq =>
          /\ ask'[d] \in Asking
          /\ req'[d] = [cmd |-> Cmd(d)', key |-> Key(d)']
          /\ Key(d)' \in Keys
          /\ Validate(Cmd(d)') = "ok"
  BY <1>1, <1>2, <1>3, ZenonT(30) DEF LedgerInv, Cmd, Key
<1>5. \A t \in transfers' : \E d \in Calls, n \in 1 .. MaxAttempts :
          /\ req'[d] # NoReq
          /\ t = TransferRow(<<d, n>>, Cmd(d)', Key(d)', "completed")
  BY <1>1, <1>2, <1>3, SMT DEF LedgerInv, Cmd, Key
<1>6. \A d \in Calls : ask'[d] # NoReq /\ ask'[d].paid =>
          \E t \in transfers' : t.key = Key(d)' /\ t.id[1] # d
  <2>1. ASSUME NEW d \in Calls \ {c}, ask'[d] # NoReq, ask'[d].paid
        PROVE  \E t \in transfers' : t.key = Key(d)' /\ t.id[1] # d
    BY <1>1, <1>2, <2>1, SMT DEF LedgerInv, Key
  <2>2. ASSUME ask'[c].paid
        PROVE  \E t \in transfers' : t.key = Key(c)' /\ t.id[1] # c
    <3>1. Paid(k, m)
      <4>1. ask'[c].paid = Paid(k, m)
        BY <1>1, SMT
      <4> QED
        BY <2>2, <4>1
    <3>2. PICK d \in Calls : L!CommittedBy(d) # {} /\ ask[d].key = k
      BY <3>1 DEF Paid
    <3>3. PICK t \in transfers : t.id[1] = d
      BY <3>2 DEF L!CommittedBy
    <3>4. PICK e \in Calls, n \in 1 .. MaxAttempts :
              /\ req[e] # NoReq
              /\ t = TransferRow(<<e, n>>, Cmd(e), Key(e), "completed")
      BY <1>2, <3>3 DEF LedgerInv
    <3>5. t.id = <<e, n>> /\ t.key = Key(e)
      BY <3>4, SMT DEF TransferRow
    <3>6. e = d
      BY <3>3, <3>5, SMT
    <3> QED
      BY <1>1, <3>2, <3>3, <3>4, <3>5, <3>6, SMT DEF Key
  <2> QED
    BY <2>1, <2>2
<1> QED
  BY <1>1, <1>2, <1>4, <1>5, <1>6 DEF LedgerInv, Closed, L!CommittedBy

(* postClaimed's call of postWithRetry stamps the transfer with the key.    *)
LEMMA NewTransfer ==
    ASSUME IdemInv, NEW c \in Calls, Starts(c), UNCHANGED ask
    PROVE  LedgerInv'
<1>1. LedgerInv /\ StepOK(c)
  BY DEF IdemInv
<1>2. /\ req[c] = NoReq
      /\ ask[c] \in Asking
      /\ Key(c) \in Keys
      /\ Cmd(c) \in Commands
      /\ Validate(Cmd(c)) = "ok"
  BY <1>1 DEF Starts, StepOK, Asking, Cmd
<1>3. /\ req' = [req EXCEPT ![c] = [cmd |-> Cmd(c), key |-> Key(c)]]
      /\ answer' = [answer EXCEPT ![c] = Pending]
      /\ UNCHANGED transfers
  <2>1. answer' = [answer EXCEPT ![c] = IF Validate(Cmd(c)) = "ok"
                                        THEN Pending ELSE Validate(Cmd(c))]
    BY SameBooks DEF Starts, L!Invoke
  <2>2. (IF Validate(Cmd(c)) = "ok" THEN Pending ELSE Validate(Cmd(c))) = Pending
    BY <1>2
  <2> QED
    BY <2>1, <2>2 DEF Starts, L!Invoke
<1>4. [cmd |-> Cmd(c), key |-> Key(c)] \in Request
  BY <1>2 DEF Request
<1>5. /\ req' \in [Calls -> Request \cup {NoReq}]
      /\ answer' \in [Calls -> Outcomes \cup {Pending}]
  BY <1>1, <1>3, <1>4 DEF LedgerInv
<1>6. /\ req'[c] = [cmd |-> Cmd(c), key |-> Key(c)]
      /\ req'[c] # NoReq
      /\ answer'[c] = Pending
      /\ \A d \in Calls \ {c} : req'[d] = req[d] /\ answer'[d] = answer[d]
  BY <1>1, <1>3, <1>4, NullsAssumption DEF LedgerInv
<1>7. \A d \in Calls : Closed(d)' => Closed(d)
  BY <1>6 DEF Closed
<1>8. \A d \in Calls : req[d] # NoReq => req'[d] = req[d]
  BY <1>2, <1>6
<1>9. \A d \in Calls : Closed(d)' => L!CommittedBy(d)' = {}
  BY <1>1, <1>3, <1>7 DEF LedgerInv, L!CommittedBy
<1>10. \A d \in Calls : req'[d] # NoReq =>
          /\ ask'[d] \in Asking
          /\ req'[d] = [cmd |-> Cmd(d)', key |-> Key(d)']
          /\ Key(d)' \in Keys
          /\ Validate(Cmd(d)') = "ok"
  BY <1>1, <1>2, <1>6 DEF LedgerInv, Cmd, Key
<1>11. \A t \in transfers' : \E d \in Calls, n \in 1 .. MaxAttempts :
          /\ req'[d] # NoReq
          /\ t = TransferRow(<<d, n>>, Cmd(d)', Key(d)', "completed")
  BY <1>1, <1>3, <1>8, SMT DEF LedgerInv, Cmd, Key
<1>12. \A d \in Calls : ask'[d] # NoReq /\ ask'[d].paid =>
          \E t \in transfers' : t.key = Key(d)' /\ t.id[1] # d
  BY <1>1, <1>3 DEF LedgerInv, Key
<1> QED
  BY <1>1, <1>3, <1>5, <1>9, <1>10, <1>11, <1>12 DEF LedgerInv

(* The commit of c's transfer: the only step that adds a row.               *)
LEMMA CommitFacts ==
    ASSUME IdemInv, NEW c \in Calls, L!Commit(c)
    PROVE  /\ req[c] # NoReq
           /\ answer[c] \in {Pending, "Failed"}
           /\ Key(c) \in Keys
           /\ \A t \in transfers : t.key # Key(c)
           /\ UNCHANGED <<req, answer>>
           /\ \E n \in 1 .. MaxAttempts :
                 transfers' = transfers \cup
                     {TransferRow(<<c, n>>, Cmd(c), Key(c), "completed")}
<1>1. req[c] # NoReq /\ answer[c] \in {Pending, "Failed"}
  BY SameBooks DEF L!Commit
<1>2. req[c] = [cmd |-> Cmd(c), key |-> Key(c)] /\ Key(c) \in Keys
  BY <1>1 DEF IdemInv, LedgerInv
<1>3. req[c].cmd = Cmd(c) /\ req[c].key = Key(c)
  BY <1>2, SMT
<1>4. \A t \in transfers : t.key # Key(c)
  BY <1>2, <1>3, NullsAssumption DEF L!Commit, L!KeyTaken
<1>5. \E n \in 1 .. MaxAttempts :
          transfers' = transfers \cup
              {TransferRow(<<c, n>>, req[c].cmd, req[c].key, "completed")}
  BY SameBooks DEF L!Commit
<1>6. UNCHANGED <<req, answer>>
  BY DEF L!Commit
<1> QED
  BY <1>1, <1>2, <1>3, <1>4, <1>5, <1>6

(* The commit keeps one transfer per key and none behind a closed call.     *)
LEMMA NewRow ==
    ASSUME IdemInv, NEW c \in Calls, L!Commit(c), UNCHANGED ask
    PROVE  LedgerInv'
<1>1. PICK n \in 1 .. MaxAttempts :
          transfers' = transfers \cup
              {TransferRow(<<c, n>>, Cmd(c), Key(c), "completed")}
  BY CommitFacts
<1> DEFINE T == TransferRow(<<c, n>>, Cmd(c), Key(c), "completed")
<1>2. T.key = Key(c) /\ T.id[1] = c
  BY SMT DEF TransferRow
<1>3. /\ LedgerInv
      /\ req[c] # NoReq
      /\ answer[c] \in {Pending, "Failed"}
      /\ \A t \in transfers : t.key # Key(c)
      /\ UNCHANGED <<req, answer, ask>>
      /\ transfers' = transfers \cup {T}
  BY <1>1, CommitFacts DEF IdemInv
<1> HIDE DEF T
<1>4. \A t, u \in transfers' : t.key = u.key => t = u
  <2>1. \A t, u \in transfers : t.key = u.key => t = u
    BY <1>3 DEF LedgerInv
  <2>2. \A t \in transfers : t.key # T.key
    BY <1>2, <1>3
  <2>3. \A t \in transfers' : t \in transfers \/ t = T
    BY <1>3
  <2> QED
    BY <2>1, <2>2, <2>3
<1>5. \A d \in Calls : Closed(d)' => L!CommittedBy(d)' = {}
  <2>1. SUFFICES ASSUME NEW d \in Calls, Closed(d)',
                        NEW t \in transfers', t.id[1] = d
                 PROVE  FALSE
    BY DEF L!CommittedBy
  <2>2. Closed(d) /\ d # c
    BY <1>3, <2>1 DEF Closed
  <2>3. t \in transfers
    BY <1>2, <1>3, <2>1, <2>2
  <2> QED
    BY <1>3, <2>1, <2>2, <2>3 DEF LedgerInv, L!CommittedBy
<1>6. \A t \in transfers' : \E d \in Calls, i \in 1 .. MaxAttempts :
          /\ req'[d] # NoReq
          /\ t = TransferRow(<<d, i>>, Cmd(d)', Key(d)', "completed")
  <2>1. Cmd(c)' = Cmd(c) /\ Key(c)' = Key(c)
    BY <1>3 DEF Cmd, Key
  <2>2. T = TransferRow(<<c, n>>, Cmd(c)', Key(c)', "completed")
    BY <2>1 DEF T
  <2>3. req'[c] # NoReq
    BY <1>3
  <2>4. \A t \in transfers : \E d \in Calls, i \in 1 .. MaxAttempts :
            /\ req'[d] # NoReq
            /\ t = TransferRow(<<d, i>>, Cmd(d)', Key(d)', "completed")
    BY <1>3, SMT DEF LedgerInv, Cmd, Key
  <2> QED
    BY <1>3, <2>2, <2>3, <2>4
<1>7. \A d \in Calls : ask'[d] # NoReq /\ ask'[d].paid =>
          \E t \in transfers' : t.key = Key(d)' /\ t.id[1] # d
  BY <1>3, SMT DEF LedgerInv, Key
<1>8. \A d \in Calls : req'[d] # NoReq =>
          /\ ask'[d] \in Asking
          /\ req'[d] = [cmd |-> Cmd(d)', key |-> Key(d)']
          /\ Key(d)' \in Keys
          /\ Validate(Cmd(d)') = "ok"
  BY <1>3, SMT DEF LedgerInv, Cmd, Key
<1>9. /\ req' \in [Calls -> Request \cup {NoReq}]
      /\ answer' \in [Calls -> Outcomes \cup {Pending}]
  BY <1>3 DEF LedgerInv
<1> QED
  BY <1>4, <1>5, <1>6, <1>7, <1>8, <1>9 DEF LedgerInv

(* As long as requests and transfers stay, so does what relates them.       *)
LEMMA LedgerStays ==
    ASSUME LedgerInv, UNCHANGED <<transfers, req, ask>>,
           answer' \in [Calls -> Outcomes \cup {Pending}],
           \A c \in Calls : Closed(c)' => L!CommittedBy(c)' = {}
    PROVE  LedgerInv'
<1>1. req' \in [Calls -> Request \cup {NoReq}]
  BY DEF LedgerInv
<1>2. \A c \in Calls : req'[c] # NoReq =>
          /\ ask'[c] \in Asking
          /\ req'[c] = [cmd |-> Cmd(c)', key |-> Key(c)']
          /\ Key(c)' \in Keys
          /\ Validate(Cmd(c)') = "ok"
  BY SMT DEF LedgerInv, Cmd, Key
<1>3. \A t \in transfers' : \E c \in Calls, n \in 1 .. MaxAttempts :
          /\ req'[c] # NoReq
          /\ t = TransferRow(<<c, n>>, Cmd(c)', Key(c)', "completed")
  BY SMT DEF LedgerInv, Cmd, Key
<1>4. \A t, u \in transfers' : t.key = u.key => t = u
  BY DEF LedgerInv
<1>5. \A c \in Calls : ask'[c] # NoReq /\ ask'[c].paid =>
          \E t \in transfers' : t.key = Key(c)' /\ t.id[1] # c
  BY SMT DEF LedgerInv, Key
<1> QED
  BY <1>1, <1>2, <1>3, <1>4, <1>5 DEF LedgerInv

(* An answer closes the call only when it has no transfer.                  *)
LEMMA NewAnswer ==
    ASSUME IdemInv, NEW c \in Calls, NEW r \in Outcomes, L!Answer(c, r),
           UNCHANGED ask
    PROVE  LedgerInv'
<1>1. /\ LedgerInv
      /\ req[c] # NoReq
      /\ answer' = [answer EXCEPT ![c] = r]
      /\ UNCHANGED <<transfers, req, ask>>
  BY DEF IdemInv, L!Answer
<1>2. r \notin {"Posted", "Failed"} => L!CommittedBy(c) = {}
  BY DEF L!Answer, L!Justified
<1>3. \A d \in Calls : Closed(d)' => L!CommittedBy(d)' = {}
  BY <1>1, <1>2, SMT DEF LedgerInv, Closed, L!CommittedBy
<1>4. answer' \in [Calls -> Outcomes \cup {Pending}]
  BY <1>1 DEF LedgerInv
<1> QED
  BY <1>1, <1>3, <1>4, LedgerStays

(* Every step keeps the ledger's view in order.                             *)
LEMMA LedgerKept ==
    ASSUME IdemInv, Next
    PROVE  LedgerInv'
<1>1. CASE UNCHANGED <<transfers, req, answer, ask>>
  <2>1. LedgerInv
    BY DEF IdemInv
  <2>2. answer' \in [Calls -> Outcomes \cup {Pending}]
    BY <1>1, <2>1 DEF LedgerInv
  <2>3. \A c \in Calls : Closed(c)' => L!CommittedBy(c)' = {}
    BY <1>1, <2>1 DEF LedgerInv, Closed, L!CommittedBy
  <2> QED
    BY <1>1, <2>1, <2>2, <2>3, LedgerStays
<1> QED
  BY <1>1, LedgerEffects, NewRequest, NewTransfer, NewRow, NewAnswer

(****************************************************************************)
(* Types                                                                    *)
(****************************************************************************)
Results == [kind : Kinds, transfer : Transfer \cup {NoTransfer}]

(* The rows of the transfers table are typed: only a valid command posts.   *)
LEMMA RowTypes ==
    ASSUME IdemInv
    PROVE  transfers \subseteq Transfer
<1>1. SUFFICES ASSUME NEW t \in transfers PROVE t \in Transfer
  OBVIOUS
<1>2. PICK c \in Calls, n \in 1 .. MaxAttempts :
          /\ req[c] # NoReq
          /\ t = TransferRow(<<c, n>>, Cmd(c), Key(c), "completed")
  BY DEF IdemInv, LedgerInv
<1>3. /\ Cmd(c) \in Commands
      /\ Key(c) \in Keys
      /\ Validate(Cmd(c)) = "ok"
  BY <1>2 DEF IdemInv, LedgerInv, Asking, Cmd
<1>4. \A m \in Commands : Validate(m) = "ok" =>
          /\ m.src \in Accounts
          /\ m.dst \in Accounts
          /\ m.amount \in Nat
          /\ m.currency \in Currencies
  BY CommandsAssumption, SMT DEF Validate, NilID
<1>5. <<c, n>> \in TransferIDs
  BY DEF TransferIDs
<1> QED
  BY <1>2, <1>3, <1>4, <1>5, SMT DEF Transfer, TransferRow

(* What a call returns is a result.                                         *)
LEMMA ErrorTypes ==
    /\ NoResult \in Results
    /\ \A e \in Kinds : Error(e) \in Results
    /\ \A t \in Transfer, k \in Kinds : [kind |-> k, transfer |-> t] \in Results
  BY DEF NoResult, Error, Results, Kinds

(* What a call writes to Redis is a record, under its own key.              *)
LEMMA WriteTypes ==
    ASSUME IdemInv, NEW c \in Calls
    PROVE  /\ step[c] = "setnx" => Claim(c) \in Record
           /\ step[c] = "complete" => Completion(c) \in Record
           /\ step[c] \in {"setnx", "get", "lookup", "release", "complete"} =>
                 Key(c) \in Keys
           /\ Sent(c) \subseteq Write
<1>1. StepOK(c) /\ IdemTypeOK /\ LedgerInv
  BY DEF IdemInv
<1>2. step[c] # "idle" => FP(c) \in { Fingerprint(m) : m \in Commands }
  BY <1>1 DEF StepOK, Asking, FP, Cmd
<1>3. step[c] = "setnx" => Claim(c) \in Record
  BY <1>2, SMT DEF Claim, Record
<1>4. step[c] = "complete" => result[c].transfer.id \in TransferIDs
  <2>1. step[c] = "complete" => result[c].transfer \in transfers
    BY <1>1 DEF StepOK, RowsOf
  <2> QED
    BY <2>1, RowTypes, SMT DEF Transfer
<1>5. step[c] = "complete" => Completion(c) \in Record
  BY <1>2, <1>4, SMT DEF Completion, Record
<1>6. step[c] \in {"setnx", "get", "lookup", "release", "complete"} =>
          Key(c) \in Keys
  BY <1>1 DEF StepOK, LedgerInv
<1>7. Sent(c) \subseteq Write
  <2>1. \A k \in Keys, r \in Record \cup {NoRecord} :
            /\ [key |-> k, rec |-> r, nx |-> TRUE] \in Write
            /\ [key |-> k, rec |-> r, nx |-> FALSE] \in Write
    BY DEF Write
  <2> QED
    BY <1>3, <1>5, <1>6, <2>1 DEF Sent
<1> QED
  BY <1>3, <1>5, <1>6, <1>7

(* Return keeps the types of what it sets.                                  *)
LEMMA ReturnTypes ==
    ASSUME IdemTypeOK, NEW c \in Calls, NEW r \in Results, Return(c, r)
    PROVE  /\ step' \in [Calls -> Steps]
           /\ tries' \in [Calls -> 0 .. MaxClaims - 1]
           /\ seen' \in [Calls -> Record \cup {NoRecord}]
           /\ result' \in [Calls -> Results]
<1>1. 0 \in 0 .. MaxClaims - 1
  BY SMT DEF MaxClaims
<1> QED
  BY <1>1 DEF IdemTypeOK, Return, Forget, Goto, Steps, Results

(* The start of postWithRetry keeps the types of what it sets.              *)
LEMMA PostTypes ==
    ASSUME IdemTypeOK, NEW c \in Calls, Post(c)
    PROVE  /\ step' \in [Calls -> Steps]
           /\ tries' \in [Calls -> 0 .. MaxClaims - 1]
           /\ seen' \in [Calls -> Record \cup {NoRecord}]
           /\ UNCHANGED <<ask, result>>
<1>1. 0 \in 0 .. MaxClaims - 1
  BY SMT DEF MaxClaims
<1> QED
  BY <1>1 DEF IdemTypeOK, Post, Forget, Goto, Steps

(* A stray write is one that its caller was sending.                        *)
LEMMA StrayTypes ==
    ASSUME IdemInv, NEW c \in Calls, Stray(c)
    PROVE  late' \subseteq Write /\ late' \subseteq late \cup Sent(c)
  BY WriteTypes DEF Stray, IdemInv, IdemTypeOK

(* Every step of a call keeps the types.                                    *)
LEMMA CallTypes ==
    ASSUME IdemInv, NEW c \in Calls, Progress(c)
    PROVE  IdemTypeOK'
<1> DEFINE Local == /\ step' \in [Calls -> Steps]
                    /\ tries' \in [Calls -> 0 .. MaxClaims - 1]
                    /\ seen' \in [Calls -> Record \cup {NoRecord}]
                    /\ result' \in [Calls -> Results]
           Remote == /\ redis' \in [Keys -> Record \cup {NoRecord, Corrupt}]
                     /\ late' \subseteq Write
<1>1. /\ IdemTypeOK
      /\ Steps = {"idle", "setnx", "get", "lookup", "posting", "recover",
                  "complete", "release", "done", "gone"}
      /\ result \in [Calls -> Results]
  BY DEF IdemInv, IdemTypeOK, Steps, Results
<1>2. SUFFICES Local /\ Remote /\ UNCHANGED ask
  BY <1>1 DEF IdemTypeOK, Results
<1>3. CASE SetNXTakes(c) \/ SetNXFails(c) \/ GetFails(c)
  <2>1. Local /\ UNCHANGED ask
    BY <1>1, <1>3, PostTypes DEF SetNXTakes, SetNXFails, GetFails
  <2>2. Remote
    BY <1>1, <1>3, StrayTypes, WriteTypes
    DEF SetNXTakes, SetNXFails, GetFails, IdemTypeOK
  <2> QED
    BY <2>1, <2>2
<1>4. CASE SetNXLoses(c) \/ SetNXLosesToItself(c)
  <2>1. Local /\ UNCHANGED ask
    BY <1>1, <1>4 DEF SetNXLoses, SetNXLosesToItself, IdemTypeOK, Goto
  <2>2. Remote
    BY <1>1, <1>4, StrayTypes, WriteTypes
    DEF SetNXLoses, SetNXLosesToItself, IdemTypeOK
  <2> QED
    BY <2>1, <2>2
<1>5. CASE GetFinds(c)
  <2>1. CASE redis[Key(c)].fp # FP(c)
    BY <1>1, <1>5, <2>1, ReturnTypes, ErrorTypes DEF GetFinds, IdemTypeOK, Kinds
  <2>2. CASE redis[Key(c)].fp = FP(c)
    <3>1. redis[Key(c)] \in Record
      BY <1>1, <1>5, WriteTypes DEF GetFinds, IdemTypeOK
    <3> QED
      BY <1>1, <1>5, <2>2, <3>1 DEF GetFinds, IdemTypeOK, Goto
  <2> QED
    BY <2>1, <2>2
<1>6. CASE GetUndecodable(c) \/ QueryFails(c)
  BY <1>1, <1>6, ReturnTypes, ErrorTypes
  DEF GetUndecodable, QueryFails, IdemTypeOK, Kinds, Outcomes
<1>7. CASE GetMisses(c)
  <2>1. CASE MoreRounds(c)
    <3>1. Counted(c) \in 0 .. MaxClaims - 1
      BY <1>1, <2>1, SMT DEF MoreRounds, Counted, MaxClaims, IdemTypeOK
    <3> QED
      BY <1>1, <1>7, <2>1, <3>1 DEF GetMisses, IdemTypeOK, Goto
  <2>2. CASE ~MoreRounds(c)
    BY <1>1, <1>7, <2>2, ReturnTypes, ErrorTypes DEF GetMisses, IdemTypeOK, Kinds
  <2> QED
    BY <2>1, <2>2
<1>8. \A t \in transfers : Replay(c, t) \in Results
  BY RowTypes, ErrorTypes DEF Replay, Kinds
<1>9. CASE Lookup(c)
  <2>1. Remote
    BY <1>1, <1>9 DEF Lookup, IdemTypeOK
  <2>2. CASE RowsOf(Key(c)) # {}
    BY <1>1, <1>8, <1>9, <2>1, <2>2, ReturnTypes DEF Lookup, RowsOf
  <2>3. CASE RowsOf(Key(c)) = {} /\ seen[c].state = "COMPLETED"
    BY <1>1, <1>9, <2>1, <2>3, PostTypes DEF Lookup
  <2>4. CASE RowsOf(Key(c)) = {} /\ seen[c].state # "COMPLETED"
    BY <1>1, <1>9, <2>1, <2>4, ReturnTypes, ErrorTypes DEF Lookup, Unfinished, Kinds
  <2> QED
    BY <2>2, <2>3, <2>4
<1>10. CASE Recover(c)
  <2>1. Remote /\ UNCHANGED ask
    BY <1>1, <1>10 DEF Recover, IdemTypeOK
  <2>2. CASE RowsOf(Key(c)) = {}
    BY <1>1, <1>10, <2>1, <2>2, ReturnTypes, ErrorTypes DEF Recover, Kinds
  <2>3. CASE RowsOf(Key(c)) # {}
    <3>1. PICK t \in transfers :
              IF Replay(c, t).kind = "Replayed"
              THEN /\ Goto(c, "complete")
                   /\ result' = [result EXCEPT ![c] = Replay(c, t)]
                   /\ UNCHANGED <<tries, seen>>
              ELSE Return(c, Replay(c, t))
      BY <1>10, <2>3 DEF Recover, RowsOf
    <3>2. CASE Replay(c, t).kind = "Replayed"
      BY <1>1, <1>8, <2>1, <3>1, <3>2 DEF IdemTypeOK, Goto
    <3>3. CASE Replay(c, t).kind # "Replayed"
      BY <1>1, <1>8, <2>1, <3>1, <3>3, ReturnTypes
    <3> QED
      BY <3>2, <3>3
  <2> QED
    BY <2>2, <2>3
<1>11. CASE PostSucceeds(c)
  <2>1. PICK t \in transfers :
            result' = [result EXCEPT ![c] = [kind |-> "Posted", transfer |-> t]]
    BY <1>11 DEF PostSucceeds, L!CommittedBy
  <2>2. [kind |-> "Posted", transfer |-> t] \in Results
    BY RowTypes, ErrorTypes DEF Kinds, Outcomes
  <2> QED
    BY <1>1, <1>11, <2>1, <2>2 DEF PostSucceeds, IdemTypeOK, Goto
<1>12. CASE PostIsDuplicate(c)
  BY <1>1, <1>12 DEF PostIsDuplicate, IdemTypeOK, Goto
<1>13. CASE \E e \in Rejections \cup {"Exhausted", "Failed"} : PostFails(c, e)
  <2>1. PICK e \in Rejections \cup {"Exhausted", "Failed"} : PostFails(c, e)
    BY <1>13
  <2>2. AsReturned(e) \in Results
    BY ErrorTypes DEF AsReturned, Kinds, Outcomes
  <2> QED
    BY <1>1, <2>1, <2>2 DEF PostFails, IdemTypeOK, Goto
<1>14. CASE Complete(c) \/ Release(c)
  <2>1. Local /\ UNCHANGED ask
    BY <1>1, <1>14 DEF Complete, Release, IdemTypeOK, Goto
  <2>2. Remote
    BY <1>1, <1>14, StrayTypes, WriteTypes DEF Complete, Release, IdemTypeOK
  <2> QED
    BY <2>1, <2>2
<1> QED
  BY <1>3, <1>4, <1>5, <1>6, <1>7, <1>9, <1>10, <1>11, <1>12, <1>13, <1>14
  DEF Progress

(* Every step keeps the types.                                              *)
LEMMA TypesKept ==
    ASSUME IdemInv, Next
    PROVE  IdemTypeOK'
<1>1. IdemTypeOK /\ result \in [Calls -> Results]
  BY DEF IdemInv, IdemTypeOK, Results
<1>2. ASSUME NEW c \in Calls, NEW k \in Keys \cup BadKeys, NEW m \in Commands,
             Call(c, k, m)
      PROVE  IdemTypeOK'
  <2>1. [cmd |-> m, key |-> k, paid |-> Paid(k, m)] \in Asking
    BY DEF Asking, Paid
  <2>2. ask' \in [Calls -> Asking \cup {NoReq}]
    BY <1>1, <1>2, <2>1 DEF Call, IdemTypeOK
  <2>3. UNCHANGED <<redis, late>>
    BY <1>2 DEF Call
  <2>4. /\ Error("InvalidKey") \in Results
        /\ Validate(m) # "ok" => Error(Validate(m)) \in Results
    <3>1. "InvalidKey" \in Kinds
      BY DEF Kinds
    <3>2. Validate(m) = "ok" \/ Validate(m) \in Kinds
      BY DEF Validate, Kinds, Outcomes, Malformed
    <3> QED
      BY <3>1, <3>2, ErrorTypes
  <2> QED
    BY <1>1, <1>2, <2>2, <2>3, <2>4, ReturnTypes
    DEF Call, IdemTypeOK, Goto, Steps, Results
<1>3. CASE \E c \in Calls : Commit(c)
  BY <1>1, <1>3 DEF Commit, IdemTypeOK
<1>4. CASE \E k \in Keys : Vanish(k)
  BY <1>1, <1>4 DEF Vanish, IdemTypeOK
<1>5. ASSUME NEW w \in late, Arrive(w)
      PROVE  IdemTypeOK'
  <2>1. w.key \in Keys /\ w.rec \in Record \cup {NoRecord}
    BY <1>1, SMT DEF IdemTypeOK, Write
  <2>2. Applied(w) \in [Keys -> Record \cup {NoRecord, Corrupt}]
    BY <1>1, <2>1, SMT DEF Applied, IdemTypeOK
  <2> QED
    BY <1>1, <1>5, <2>2 DEF Arrive, IdemTypeOK
<1>6. ASSUME NEW c \in Calls, Crash(c)
      PROVE  IdemTypeOK'
  <2>1. 0 \in 0 .. MaxClaims - 1
    BY SMT DEF MaxClaims
  <2> QED
    BY <1>1, <1>6, <2>1, StrayTypes DEF Crash, Goto, Forget, IdemTypeOK, Steps
<1> QED
  BY <1>2, <1>3, <1>4, <1>5, <1>6, CallTypes DEF Next

(****************************************************************************)
(* Where each call is                                                       *)
(****************************************************************************)
(* Nothing of call d changes.                                               *)
Still(d) ==
    /\ step'[d] = step[d] /\ ask'[d] = ask[d] /\ seen'[d] = seen[d]
    /\ result'[d] = result[d] /\ req'[d] = req[d] /\ answer'[d] = answer[d]

(* Transfers are never removed.                                             *)
LEMMA RowsStay ==
    ASSUME IdemInv, Next
    PROVE  transfers \subseteq transfers'
<1>1. \A c \in Calls : L!Commit(c) => transfers \subseteq transfers'
  BY CommitFacts
<1> QED
  BY <1>1, LedgerEffects DEF Asks, Starts, L!Invoke, L!Answer

(* What others do does not disturb a call.                                  *)
LEMMA StillOK ==
    ASSUME NEW d \in Calls, StepOK(d), Still(d), transfers \subseteq transfers'
    PROVE  StepOK(d)'
  BY SMT DEF StepOK, Still, Closed, RowsOf, Key, Cmd, FP

(* A step of c disturbs no other call.                                      *)
LEMMA OnlyOne ==
    ASSUME IdemInv, NEW c \in Calls, NEW d \in Calls \ {c},
           \/ Progress(c) \/ Commit(c) \/ Crash(c)
           \/ \E k \in Keys \cup BadKeys, m \in Commands : Call(c, k, m)
    PROVE  Still(d)
<1>1. IdemTypeOK /\ LedgerInv
  BY DEF IdemInv
<1> DEFINE Quiet == req'[d] = req[d] /\ answer'[d] = answer[d]
<1>2. \A k, m : L!Invoke(c, k, m) => Quiet
  BY <1>1 DEF L!Invoke, LedgerInv
<1>3. \A r : L!Answer(c, r) => Quiet
  BY <1>1 DEF L!Answer, LedgerInv
<1>4. Post(c) => Still(d)
  BY <1>1, <1>2 DEF Post, Goto, Forget, Still, IdemTypeOK
<1>5. \A r : Return(c, r) =>
          /\ step'[d] = step[d] /\ seen'[d] = seen[d] /\ result'[d] = result[d]
  BY <1>1 DEF Return, Goto, Forget, IdemTypeOK
<1> HIDE DEF Quiet
<1>6. CASE SetNXTakes(c) \/ SetNXFails(c) \/ GetFails(c)
  BY <1>4, <1>6 DEF SetNXTakes, SetNXFails, GetFails
<1>7. CASE \/ SetNXLoses(c) \/ SetNXLosesToItself(c) \/ Complete(c) \/ Release(c)
           \/ GetUndecodable(c) \/ QueryFails(c)
  BY <1>1, <1>5, <1>7
  DEF SetNXLoses, SetNXLosesToItself, Complete, Release, GetUndecodable,
      QueryFails, Still, Goto, IdemTypeOK
<1>8. CASE GetFinds(c) \/ GetMisses(c)
  BY <1>1, <1>5, <1>8 DEF GetFinds, GetMisses, Still, Goto, IdemTypeOK
<1>9. CASE Lookup(c)
  BY <1>4, <1>5, <1>9 DEF Lookup, Still
<1>10. CASE Recover(c)
  BY <1>1, <1>5, <1>10 DEF Recover, Still, Goto, IdemTypeOK
<1>11. CASE PostSucceeds(c) \/ PostIsDuplicate(c)
  BY <1>1, <1>3, <1>11
  DEF PostSucceeds, PostIsDuplicate, Still, Goto, IdemTypeOK, Quiet
<1>12. CASE \E e \in Rejections \cup {"Exhausted", "Failed"} : PostFails(c, e)
  BY <1>1, <1>3, <1>12 DEF PostFails, Still, Goto, IdemTypeOK, Quiet
<1>13. CASE Commit(c)
  BY <1>13 DEF Commit, L!Commit, Still
<1>14. CASE Crash(c)
  BY <1>1, <1>3, <1>14 DEF Crash, Still, Goto, Forget, IdemTypeOK, Quiet, ledger
<1>15. CASE \E k \in Keys \cup BadKeys, m \in Commands : Call(c, k, m)
  BY <1>1, <1>5, <1>15 DEF Call, Still, Goto, IdemTypeOK
<1> QED
  BY <1>6, <1>7, <1>8, <1>9, <1>10, <1>11, <1>12, <1>13, <1>14, <1>15
  DEF Progress

(* A call returns an error, or somebody else's transfer.                    *)
LEMMA ReturnOK ==
    ASSUME IdemInv, NEW c \in Calls, NEW r, Return(c, r),
           UNCHANGED <<transfers, req, answer>>,
           ask'[c] \in Asking,
           r.kind \notin {"Posted", "Failed"} => Closed(c),
           r.kind # "Posted",
           r.kind = "Replayed" =>
               /\ r.transfer \in RowsOf(Key(c)')
               /\ Fingerprint(r.transfer) = FP(c)'
    PROVE  StepOK(c)'
<1>1. step'[c] = "done" /\ result'[c] = r
  BY DEF Return, Goto, IdemInv, IdemTypeOK
<1>2. Closed(c)' = Closed(c) /\ \A k : RowsOf(k)' = RowsOf(k)
  BY DEF Closed, RowsOf
<1> QED
  BY <1>1, <1>2 DEF StepOK

(* What recoverFromDatabase finds is the transfer of the key.               *)
LEMMA ReplayFacts ==
    ASSUME IdemInv, NEW c \in Calls, NEW t \in RowsOf(Key(c))
    PROVE  /\ Replay(c, t).kind \in {"Replayed", "Conflict"}
           /\ Replay(c, t).kind = "Replayed" =>
                 /\ Replay(c, t).transfer \in RowsOf(Key(c))
                 /\ Fingerprint(Replay(c, t).transfer) = FP(c)
           /\ Replay(c, t).kind = "Conflict" => Fingerprint(t) # FP(c)
  BY SMT DEF Replay, Error

(* The transfer that c has committed is the one it asked for.               *)
LEMMA OwnRow ==
    ASSUME IdemInv, NEW c \in Calls, NEW t \in L!CommittedBy(c)
    PROVE  /\ t \in RowsOf(Key(c))
           /\ Fingerprint(t) = FP(c)
           /\ t.id[1] = c
           /\ req[c] # NoReq
<1>1. PICK d \in Calls, n \in 1 .. MaxAttempts :
          /\ req[d] # NoReq
          /\ t = TransferRow(<<d, n>>, Cmd(d), Key(d), "completed")
  BY DEF L!CommittedBy, IdemInv, LedgerInv
<1>2. t \in transfers /\ t.id[1] = c
  BY DEF L!CommittedBy
<1>3. d = c
  BY <1>1, <1>2, SMT DEF TransferRow
<1> QED
  BY <1>1, <1>2, <1>3, SMT DEF RowsOf, TransferRow, Fingerprint, FP

(* The acting call is where its step says.                                  *)
LEMMA ActorOK ==
    ASSUME IdemInv, NEW c \in Calls, Progress(c)
    PROVE  StepOK(c)'
<1>1. IdemTypeOK /\ LedgerInv /\ StepOK(c)
  BY DEF IdemInv
<1>2. transfers \subseteq transfers'
  BY RowsStay DEF Next
<1>3. ASSUME Post(c), step[c] \in {"setnx", "get", "lookup"}
      PROVE  StepOK(c)'
  <2>1. Starts(c) /\ UNCHANGED <<ask, result>>
    BY <1>3 DEF Post, Starts, Stamp
  <2>2. step'[c] = "posting"
    BY <1>1, <2>1 DEF Starts, Goto, IdemTypeOK
  <2>3. result[c] = NoResult /\ ask[c] \in Asking /\ Validate(Cmd(c)) = "ok"
    BY <1>1, <1>3 DEF StepOK
  <2>4. req'[c] = [cmd |-> Cmd(c), key |-> Key(c)] /\ req'[c] # NoReq
    <3>1. [cmd |-> Cmd(c), key |-> Key(c)] \in Request
      BY <1>1, <1>3, <2>3 DEF StepOK, Asking, Request, Cmd
    <3> QED
      BY <1>1, <2>1, <3>1, NullsAssumption DEF Starts, L!Invoke, LedgerInv
  <2>5. answer'[c] = Pending
    BY <1>1, <2>1, <2>3, SameBooks DEF Starts, L!Invoke, LedgerInv
  <2>6. result'[c] = NoResult /\ NoResult.kind = "none" /\ ask'[c] \in Asking
    BY <2>1, <2>3 DEF NoResult
  <2> QED
    BY <2>2, <2>4, <2>5, <2>6 DEF StepOK
<1>4. CASE SetNXTakes(c) \/ SetNXFails(c) \/ GetFails(c)
  BY <1>3, <1>4 DEF SetNXTakes, SetNXFails, GetFails
<1>5. CASE SetNXLoses(c) \/ SetNXLosesToItself(c)
  <2>1. step[c] = "setnx" /\ step'[c] = "get"
    BY <1>1, <1>5 DEF SetNXLoses, SetNXLosesToItself, Goto, IdemTypeOK
  <2>2. UNCHANGED <<transfers, req, answer, ask, result>>
    BY <1>5 DEF SetNXLoses, SetNXLosesToItself
  <2> QED
    BY <1>1, <2>1, <2>2, SMT DEF StepOK, Key, Cmd, NoResult
<1>6. step[c] \in {"setnx", "get", "lookup"} => Closed(c) /\ ask[c] \in Asking
  BY <1>1 DEF StepOK, Closed
<1>7. \A e : Error(e).kind = e
  BY DEF Error
<1>8. CASE GetFinds(c)
  <2>1. CASE redis[Key(c)].fp # FP(c)
    BY <1>6, <1>7, <1>8, <2>1, ReturnOK DEF GetFinds
  <2>2. CASE redis[Key(c)].fp = FP(c)
    <3>1. redis[Key(c)] \in Record
      BY <1>1, <1>8, WriteTypes DEF GetFinds, IdemTypeOK
    <3>2. /\ step[c] = "get" /\ step'[c] = "lookup"
          /\ seen'[c] = redis[Key(c)]
          /\ UNCHANGED <<transfers, req, answer, ask, result>>
      BY <1>1, <1>8, <2>2 DEF GetFinds, Goto, IdemTypeOK
    <3> QED
      BY <1>1, <3>1, <3>2, SMT DEF StepOK, Key, Cmd, NoResult
  <2> QED
    BY <2>1, <2>2
<1>9. CASE GetUndecodable(c)
  BY <1>6, <1>7, <1>9, ReturnOK DEF GetUndecodable
<1>10. CASE GetMisses(c)
  <2>1. CASE MoreRounds(c)
    <3>1. /\ step[c] = "get" /\ step'[c] = "setnx"
          /\ UNCHANGED <<transfers, req, answer, ask, result>>
      BY <1>1, <1>10, <2>1 DEF GetMisses, Goto, IdemTypeOK
    <3> QED
      BY <1>1, <3>1, SMT DEF StepOK, Key, Cmd, NoResult
  <2>2. CASE ~MoreRounds(c)
    BY <1>6, <1>7, <1>10, <2>2, ReturnOK DEF GetMisses
  <2> QED
    BY <2>1, <2>2
<1>11. CASE Lookup(c)
  <2>1. step[c] = "lookup"
    BY <1>11 DEF Lookup
  <2>2. CASE RowsOf(Key(c)) # {}
    <3>1. PICK t \in RowsOf(Key(c)) : Return(c, Replay(c, t))
      BY <1>11, <2>2 DEF Lookup
    <3>2. UNCHANGED <<transfers, req, answer, ask>>
      BY <1>11, <2>2 DEF Lookup
    <3>3. Key(c)' = Key(c) /\ FP(c)' = FP(c)
      BY <3>2 DEF Key, FP, Cmd
    <3> QED
      BY <1>6, <2>1, <3>1, <3>2, <3>3, ReplayFacts, ReturnOK
  <2>3. CASE RowsOf(Key(c)) = {} /\ seen[c].state = "COMPLETED"
    BY <1>3, <1>11, <2>1, <2>3 DEF Lookup
  <2>4. CASE RowsOf(Key(c)) = {} /\ seen[c].state # "COMPLETED"
    BY <1>6, <1>7, <1>11, <2>1, <2>4, ReturnOK DEF Lookup, Unfinished
  <2> QED
    BY <2>2, <2>3, <2>4
<1>12. CASE Recover(c)
  <2>1. /\ step[c] = "recover" /\ Closed(c) /\ ask[c] \in Asking
        /\ req[c] # NoReq
        /\ UNCHANGED <<transfers, req, answer, ask>>
    BY <1>1, <1>12 DEF Recover, StepOK, Closed, Pending
  <2>2. Key(c)' = Key(c) /\ FP(c)' = FP(c)
    BY <2>1 DEF Key, FP, Cmd
  <2>3. CASE RowsOf(Key(c)) = {}
    BY <1>7, <1>12, <2>1, <2>3, ReturnOK DEF Recover
  <2>4. CASE RowsOf(Key(c)) # {}
    <3>1. PICK t \in RowsOf(Key(c)) :
              IF Replay(c, t).kind = "Replayed"
              THEN /\ Goto(c, "complete")
                   /\ result' = [result EXCEPT ![c] = Replay(c, t)]
                   /\ UNCHANGED <<tries, seen>>
              ELSE Return(c, Replay(c, t))
      BY <1>12, <2>4 DEF Recover
    <3>2. CASE Replay(c, t).kind = "Replayed"
      <4>1. step'[c] = "complete" /\ result'[c] = Replay(c, t)
        BY <1>1, <3>1, <3>2 DEF Goto, IdemTypeOK
      <4>2. Closed(c)' /\ RowsOf(Key(c)') = RowsOf(Key(c))
        BY <2>1, <2>2 DEF Closed
      <4>3. \A k : RowsOf(k)' = RowsOf(k)
        BY <2>1 DEF RowsOf
      <4> QED
        BY <2>1, <2>2, <3>2, <4>1, <4>2, <4>3, ReplayFacts DEF StepOK
    <3>3. CASE Replay(c, t).kind # "Replayed"
      BY <2>1, <2>2, <3>1, <3>3, ReplayFacts, ReturnOK
    <3> QED
      BY <3>2, <3>3
  <2> QED
    BY <2>3, <2>4
<1>13. CASE QueryFails(c)
  <2>1. ask[c] \in Asking
    BY <1>1, <1>13 DEF QueryFails, StepOK
  <2> QED
    BY <1>7, <1>13, <2>1, ReturnOK DEF QueryFails
<1>14. ASSUME NEW r \in Outcomes, L!Answer(c, r), step[c] = "posting",
              UNCHANGED ask
       PROVE  /\ req[c] # NoReq /\ req'[c] # NoReq
              /\ answer'[c] = r
              /\ ask'[c] \in Asking
              /\ UNCHANGED transfers
              /\ r \notin {Pending, "Posted", "Failed"} => Closed(c)'
              /\ result[c] = NoResult
  BY <1>1, <1>14 DEF L!Answer, StepOK, LedgerInv, Closed
<1>15. CASE PostSucceeds(c)
  <2>1. PICK t \in L!CommittedBy(c) :
            result' = [result EXCEPT ![c] = [kind |-> "Posted", transfer |-> t]]
    BY <1>15 DEF PostSucceeds
  <2>2. /\ L!Answer(c, "Posted") /\ step[c] = "posting" /\ UNCHANGED ask
        /\ step'[c] = "complete"
        /\ result'[c] = [kind |-> "Posted", transfer |-> t]
    BY <1>1, <1>15, <2>1 DEF PostSucceeds, Goto, IdemTypeOK
  <2>3. result'[c].kind = "Posted" /\ result'[c].transfer = t
    BY <2>2, SMT
  <2>4. Key(c)' = Key(c) /\ FP(c)' = FP(c)
    BY <2>2 DEF Key, FP, Cmd
  <2>5. req'[c] # NoReq /\ ask'[c] \in Asking /\ UNCHANGED transfers
    BY <1>14, <2>2 DEF Outcomes
  <2>6. \A k : RowsOf(k)' = RowsOf(k)
    BY <2>5 DEF RowsOf
  <2> QED
    BY <2>2, <2>3, <2>4, <2>5, <2>6, OwnRow DEF StepOK
<1>16. CASE PostIsDuplicate(c)
  <2>1. /\ L!Answer(c, "Duplicate") /\ step[c] = "posting"
        /\ UNCHANGED <<ask, result>>
        /\ step'[c] = "recover"
    BY <1>1, <1>16 DEF PostIsDuplicate, Goto, IdemTypeOK
  <2>2. req'[c] # NoReq /\ ask'[c] \in Asking /\ answer'[c] = "Duplicate"
    BY <1>14, <2>1 DEF Outcomes
  <2>3. result'[c] = NoResult /\ NoResult.kind = "none"
    BY <1>14, <2>1 DEF Outcomes, NoResult
  <2> QED
    BY <2>1, <2>2, <2>3 DEF StepOK
<1>17. CASE \E e \in Rejections \cup {"Exhausted", "Failed"} : PostFails(c, e)
  <2>1. PICK e \in Rejections \cup {"Exhausted", "Failed"} : PostFails(c, e)
    BY <1>17
  <2>2. /\ L!Answer(c, e) /\ step[c] = "posting" /\ UNCHANGED ask
        /\ step'[c] = "release"
        /\ result'[c] = Error(e)
    BY <1>1, <2>1 DEF PostFails, Goto, IdemTypeOK, AsReturned
  <2>3. result'[c].kind = e
    BY <1>7, <2>2
  <2>4. e \in Outcomes /\ e \notin {Pending, "Posted", "Replayed"}
    BY <2>1 DEF Outcomes, Rejections, Pending
  <2>5. req'[c] # NoReq /\ ask'[c] \in Asking /\ answer'[c] = e
    BY <1>14, <2>2, <2>4
  <2>6. e # "Failed" => Closed(c)'
    BY <1>14, <2>2, <2>4
  <2> QED
    BY <2>2, <2>3, <2>4, <2>5, <2>6 DEF StepOK
<1>18. CASE Complete(c) \/ Release(c)
  <2>1. /\ step[c] \in {"complete", "release"} /\ step'[c] = "done"
        /\ UNCHANGED <<transfers, req, answer, ask, result>>
    BY <1>1, <1>18 DEF Complete, Release, Goto, IdemTypeOK
  <2> QED
    BY <1>1, <2>1, SMT DEF StepOK, Key, Cmd, FP, Closed, RowsOf, NoResult
<1> QED
  BY <1>4, <1>5, <1>8, <1>9, <1>10, <1>11, <1>12, <1>13, <1>15, <1>16, <1>17,
     <1>18
  DEF Progress

(* Every call stays where its step says, whoever moves.                     *)
LEMMA StepsKept ==
    ASSUME IdemInv, Next
    PROVE  \A d \in Calls : StepOK(d)'
<1>1. /\ IdemTypeOK /\ LedgerInv
      /\ transfers \subseteq transfers'
      /\ \A d \in Calls : StepOK(d)
      /\ \A d \in Calls : Still(d) => StepOK(d)'
  BY RowsStay, StillOK DEF IdemInv
<1>2. ASSUME NEW c \in Calls, Progress(c)
      PROVE  \A d \in Calls : StepOK(d)'
  BY <1>1, <1>2, OnlyOne, ActorOK
<1>3. ASSUME NEW c \in Calls, NEW k \in Keys \cup BadKeys, NEW m \in Commands,
             Call(c, k, m)
      PROVE  \A d \in Calls : StepOK(d)'
  <2>1. /\ step[c] = "idle" /\ req[c] = NoReq /\ result[c] = NoResult
        /\ UNCHANGED <<transfers, req, answer>>
        /\ ask'[c] = [cmd |-> m, key |-> k, paid |-> Paid(k, m)]
    BY <1>1, <1>3 DEF Call, StepOK, IdemTypeOK
  <2>2. ask'[c] \in Asking
    <3>1. [cmd |-> m, key |-> k, paid |-> Paid(k, m)] \in Asking
      BY DEF Asking, Paid
    <3> QED
      BY <2>1, <3>1
  <2>3. Key(c)' = k /\ Cmd(c)' = m
    BY <2>1, SMT DEF Key, Cmd
  <2>4. Closed(c)
    BY <2>1 DEF Closed
  <2>5. \A e : Error(e).kind = e
    BY DEF Error
  <2>6. ASSUME k \notin Keys PROVE StepOK(c)'
    BY <1>3, <2>1, <2>2, <2>4, <2>5, <2>6, ReturnOK DEF Call
  <2>7. ASSUME k \in Keys, Validate(m) # "ok" PROVE StepOK(c)'
    <3>1. Validate(m) \notin {"Posted", "Replayed"}
      BY DEF Validate
    <3> QED
      BY <1>3, <2>1, <2>2, <2>4, <2>5, <2>7, <3>1, ReturnOK DEF Call
  <2>8. ASSUME k \in Keys, Validate(m) = "ok" PROVE StepOK(c)'
    <3>1. step'[c] = "setnx" /\ UNCHANGED result
      BY <1>1, <1>3, <2>8 DEF Call, Goto, IdemTypeOK
    <3>2. result'[c] = NoResult /\ NoResult.kind = "none" /\ req'[c] = NoReq
      BY <2>1, <3>1 DEF NoResult
    <3> QED
      BY <2>2, <2>3, <2>8, <3>1, <3>2 DEF StepOK
  <2>9. StepOK(c)'
    BY <2>6, <2>7, <2>8
  <2> QED
    BY <1>1, <1>3, <2>9, OnlyOne
<1>4. ASSUME NEW c \in Calls, Commit(c)
      PROVE  \A d \in Calls : StepOK(d)'
  <2>1. Still(c)
    BY <1>4 DEF Commit, L!Commit, Still
  <2> QED
    BY <1>1, <1>4, <2>1, OnlyOne
<1>5. CASE (\E k \in Keys : Vanish(k)) \/ \E w \in late : Arrive(w)
  BY <1>1, <1>5 DEF Vanish, Arrive, Still
<1>6. ASSUME NEW c \in Calls, Crash(c)
      PROVE  \A d \in Calls : StepOK(d)'
  <2>1. /\ step[c] # "idle" /\ step'[c] = "gone"
        /\ UNCHANGED <<ask, result, req, transfers>>
    BY <1>1, <1>6 DEF Crash, Goto, IdemTypeOK, ledger, L!Answer
  <2>2. ask'[c] \in Asking /\ result'[c] = result[c]
    BY <1>1, <2>1 DEF StepOK
  <2>3. Key(c)' = Key(c) /\ FP(c)' = FP(c) /\ \A k : RowsOf(k)' = RowsOf(k)
    BY <2>1 DEF Key, FP, Cmd, RowsOf
  <2>4. result[c].kind = "Replayed" => Closed(c)'
    <3>1. step[c] = "posting" => result[c].kind # "Replayed"
      <4>1. step[c] = "posting" => result[c] = NoResult
        BY <1>1 DEF StepOK
      <4>2. NoResult.kind = "none"
        BY DEF NoResult
      <4> QED
        BY <4>1, <4>2
    <3>2. step[c] # "posting" => UNCHANGED <<req, answer>>
      BY <1>6 DEF Crash, ledger
    <3>3. result[c].kind = "Replayed" => Closed(c)
      BY <1>1 DEF StepOK
    <3> QED
      BY <3>1, <3>2, <3>3 DEF Closed
  <2>5. StepOK(c)'
    BY <1>1, <2>1, <2>2, <2>3, <2>4 DEF StepOK
  <2> QED
    BY <1>1, <1>6, <2>5, OnlyOne
<1> QED
  BY <1>2, <1>3, <1>4, <1>5, <1>6 DEF Next

(****************************************************************************)
(* What is in Redis                                                         *)
(****************************************************************************)
(* Requests are never forgotten.                                            *)
LEMMA AsksStay ==
    ASSUME IdemInv, Next
    PROVE  \A d \in Calls : ask[d] # NoReq => ask'[d] = ask[d]
<1>1. \A d \in Calls : step[d] = "idle" => ask[d] = NoReq
  BY DEF IdemInv, StepOK
<1> QED
  BY <1>1, LedgerEffects DEF Asks, IdemInv, IdemTypeOK

(* RecordOK of the table T of transfers and the requests A.                 *)
Genuine(k, r, T, A) ==
    r \in Record \ Leftovers =>
        /\ r.state = "COMPLETED" =>
              \E t \in T : t.key = k /\ t.id = r.transfer /\ Fingerprint(t) = r.fp
        /\ \E d \in Calls : /\ A[d] # NoReq
                            /\ A[d].key = k
                            /\ Fingerprint(A[d].cmd) = r.fp

(* Genuine is RecordOK, now and in the next state.                          *)
LEMMA GenuineIsOK ==
    /\ \A k, r : RecordOK(k, r) <=> Genuine(k, r, transfers, ask)
    /\ (\A k \in Keys : Genuine(k, redis'[k], transfers', ask')) =>
          \A k \in Keys : RecordOK(k, redis[k])'
    /\ (\A w \in late' : Genuine(w.key, w.rec, transfers', ask')) =>
          (\A w \in late : RecordOK(w.key, w.rec))'
  BY SMT DEF RecordOK, Genuine, RowsOf, Key, FP, Cmd

(* What is true of a record stays true.                                     *)
LEMMA RecordsStay ==
    ASSUME IdemInv, Next
    PROVE  \A k, r : Genuine(k, r, transfers, ask) =>
                        Genuine(k, r, transfers', ask')
<1>1. /\ transfers \subseteq transfers'
      /\ \A d \in Calls : ask[d] # NoReq => ask'[d] = ask[d]
  BY RowsStay, AsksStay
<1> QED
  BY <1>1, SMT DEF Genuine

(* What a call writes to Redis is true.                                     *)
LEMMA WritesAreTrue ==
    ASSUME IdemInv, NEW c \in Calls
    PROVE  /\ step[c] = "setnx" => RecordOK(Key(c), Claim(c))
           /\ step[c] = "complete" => RecordOK(Key(c), Completion(c))
           /\ \A k : RecordOK(k, NoRecord)
           /\ \A w \in Sent(c) : RecordOK(w.key, w.rec)
<1>1. StepOK(c)
  BY DEF IdemInv
<1>2. step[c] # "idle" => ask[c] # NoReq
  BY <1>1, RecordAssumption DEF StepOK
<1>3. Claim(c).state = "PROCESSING" /\ Claim(c).fp = FP(c)
  BY DEF Claim
<1>4. step[c] = "setnx" => RecordOK(Key(c), Claim(c))
  BY <1>2, <1>3 DEF RecordOK
<1>5. Completion(c).fp = FP(c) /\ Completion(c).transfer = result[c].transfer.id
  BY DEF Completion
<1>6. step[c] = "complete" => RecordOK(Key(c), Completion(c))
  BY <1>1, <1>2, <1>5 DEF RecordOK, StepOK
<1>7. \A k : RecordOK(k, NoRecord)
  BY RecordAssumption DEF RecordOK
<1>8. ASSUME NEW w \in Sent(c) PROVE RecordOK(w.key, w.rec)
  <2>1. CASE step[c] = "setnx"
    <3>1. w.key = Key(c) /\ w.rec = Claim(c)
      BY <1>8, <2>1, SMT DEF Sent
    <3> QED
      BY <1>4, <2>1, <3>1
  <2>2. CASE step[c] = "complete"
    <3>1. w.key = Key(c) /\ w.rec = Completion(c)
      BY <1>8, <2>2, SMT DEF Sent
    <3> QED
      BY <1>6, <2>2, <3>1
  <2>3. CASE step[c] = "release"
    <3>1. w.rec = NoRecord
      BY <1>8, <2>3, SMT DEF Sent
    <3> QED
      BY <1>7, <3>1
  <2> QED
    BY <1>8, <2>1, <2>2, <2>3 DEF Sent
<1> QED
  BY <1>4, <1>6, <1>7, <1>8

(* What a step leaves under a key was there, is nothing, or was written by  *)
(* a call that was at the write or by a write that was on its way.          *)
LEMMA RedisEffects ==
    ASSUME IdemInv, Next
    PROVE  /\ \A k \in Keys :
                 \/ redis'[k] = redis[k] \/ redis'[k] = NoRecord
                 \/ \E c \in Calls : /\ step[c] = "setnx" /\ k = Key(c)
                                     /\ redis'[k] = Claim(c)
                 \/ \E c \in Calls : /\ step[c] = "complete" /\ k = Key(c)
                                     /\ redis'[k] = Completion(c)
                 \/ \E w \in late : k = w.key /\ redis'[k] = w.rec
           /\ \A w \in late' : w \in late \/ \E c \in Calls : w \in Sent(c)
<1>1. redis \in [Keys -> Record \cup {NoRecord, Corrupt}]
  BY DEF IdemInv, IdemTypeOK
<1>2. \A c \in Calls : Stray(c) => \A w \in late' : w \in late \/ w \in Sent(c)
  BY DEF Stray
<1>3. ASSUME NEW c \in Calls, Progress(c), ~UNCHANGED <<redis, late>>
      PROVE  /\ Stray(c)
             /\ \/ UNCHANGED redis
                \/ /\ step[c] = "setnx"
                   /\ redis' = [redis EXCEPT ![Key(c)] = Claim(c)]
                \/ /\ step[c] = "complete"
                   /\ redis' = [redis EXCEPT ![Key(c)] = Completion(c)]
                \/ redis' = [redis EXCEPT ![Key(c)] = NoRecord]
  <2>1. CASE SetNXTakes(c) \/ SetNXLosesToItself(c) \/ SetNXLoses(c)
               \/ SetNXFails(c)
    BY <2>1 DEF SetNXTakes, SetNXLosesToItself, SetNXLoses, SetNXFails
  <2>2. CASE Complete(c) \/ Release(c)
    BY <2>2 DEF Complete, Release
  <2>3. CASE \/ GetFinds(c) \/ GetUndecodable(c) \/ GetMisses(c) \/ GetFails(c)
             \/ Lookup(c) \/ Recover(c) \/ QueryFails(c)
    BY <1>3, <2>3
    DEF GetFinds, GetUndecodable, GetMisses, GetFails, Lookup, Recover,
        QueryFails
  <2>4. CASE \/ PostSucceeds(c) \/ PostIsDuplicate(c)
             \/ \E e \in Rejections \cup {"Exhausted", "Failed"} : PostFails(c, e)
    BY <1>3, <2>4 DEF PostSucceeds, PostIsDuplicate, PostFails
  <2> QED
    BY <1>3, <2>1, <2>2, <2>3, <2>4 DEF Progress
<1>4. CASE UNCHANGED <<redis, late>>
  BY <1>4
<1>5. CASE ~UNCHANGED <<redis, late>> /\ \E c \in Calls : Progress(c)
  <2>1. PICK c \in Calls : Progress(c)
    BY <1>5
  <2>2. \A r : redis' = [redis EXCEPT ![Key(c)] = r] =>
                 \A k \in Keys \ {Key(c)} : redis'[k] = redis[k]
    BY <1>1
  <2>3. \A r : Key(c) \in Keys /\ redis' = [redis EXCEPT ![Key(c)] = r] =>
                  redis'[Key(c)] = r
    BY <1>1
  <2> QED
    BY <1>2, <1>3, <1>5, <2>1, <2>2, <2>3
<1>6. CASE \/ \E c \in Calls, k \in Keys \cup BadKeys, m \in Commands :
                  Call(c, k, m)
           \/ \E c \in Calls : Commit(c)
  BY <1>4, <1>6 DEF Call, Commit
<1>7. CASE \E k \in Keys : Vanish(k)
  BY <1>1, <1>7 DEF Vanish
<1>8. CASE \E w \in late : Arrive(w)
  <2>1. PICK w \in late : Arrive(w)
    BY <1>8
  <2>2. \A k \in Keys : \/ redis'[k] = redis[k]
                        \/ k = w.key /\ redis'[k] = w.rec
    BY <1>1, <2>1 DEF Arrive, Applied
  <2> QED
    BY <2>1, <2>2 DEF Arrive
<1>9. CASE \E c \in Calls : Crash(c)
  BY <1>2, <1>9 DEF Crash
<1> QED
  BY <1>4, <1>5, <1>6, <1>7, <1>8, <1>9 DEF Next

(* Whatever a step does to Redis, the records in it and on their way to it  *)
(* stay true.                                                               *)
LEMMA RecordsKept ==
    ASSUME IdemInv, Next
    PROVE  /\ \A k \in Keys : RecordOK(k, redis[k])'
           /\ (\A w \in late : RecordOK(w.key, w.rec))'
<1> DEFINE Good(k, r) == Genuine(k, r, transfers, ask)
<1>1. /\ \A k \in Keys : Good(k, redis[k])
      /\ \A w \in late : Good(w.key, w.rec)
      /\ \A k : Good(k, NoRecord)
  <2>1. \A k : Genuine(k, NoRecord, transfers, ask)
    BY RecordAssumption DEF Genuine
  <2> QED
    BY <2>1, GenuineIsOK DEF IdemInv
<1>2. \A c \in Calls :
          /\ step[c] = "setnx" => Good(Key(c), Claim(c))
          /\ step[c] = "complete" => Good(Key(c), Completion(c))
          /\ \A w \in Sent(c) : Good(w.key, w.rec)
  BY GenuineIsOK, WritesAreTrue
<1> HIDE DEF Good
<1>3. /\ \A k \in Keys : Good(k, redis'[k])
      /\ \A w \in late' : Good(w.key, w.rec)
  BY <1>1, <1>2, RedisEffects
<1> QED
  BY <1>3, RecordsStay, GenuineIsOK DEF Good

(****************************************************************************)
(* Conflicts                                                                *)
(****************************************************************************)
(* A record with another fingerprint was written for another payment.       *)
LEMMA ConflictKept ==
    ASSUME IdemInv, Next
    PROVE  ConflictMeansMisuse'
<1> DEFINE Misused(c, A) ==
             \/ \E d \in Calls : /\ A[d] # NoReq
                                 /\ A[d].key = A[c].key
                                 /\ Fingerprint(A[d].cmd) # Fingerprint(A[c].cmd)
             \/ \E l \in Leftovers \cap Record :
                    l.fp # Fingerprint(A[c].cmd)
<1>1. /\ ConflictMeansMisuse => \A c \in Calls :
            result[c].kind = "Conflict" => Misused(c, ask)
      /\ (\A c \in Calls : result'[c].kind = "Conflict" => Misused(c, ask')) =>
            ConflictMeansMisuse'
  BY SMT DEF ConflictMeansMisuse, Key, FP, Cmd
<1>2. \A c \in Calls : ask[c] # NoReq /\ Misused(c, ask) => Misused(c, ask')
  BY AsksStay, SMT
<1>3. ASSUME NEW c \in Calls, NEW t \in RowsOf(Key(c)), Fingerprint(t) # FP(c)
      PROVE  Misused(c, ask)
  <2>1. PICK d \in Calls, n \in 1 .. MaxAttempts :
            /\ req[d] # NoReq
            /\ t = TransferRow(<<d, n>>, Cmd(d), Key(d), "completed")
    BY DEF RowsOf, IdemInv, LedgerInv
  <2>2. ask[d] # NoReq
    BY <2>1, RecordAssumption DEF IdemInv, LedgerInv
  <2>3. Key(d) = Key(c) /\ Fingerprint(Cmd(d)) # FP(c)
    BY <1>3, <2>1, SMT DEF RowsOf, TransferRow, Fingerprint
  <2> QED
    BY <2>2, <2>3 DEF Key, FP, Cmd
<1>4. ASSUME NEW c \in Calls, Key(c) \in Keys,
             redis[Key(c)] \notin {NoRecord, Corrupt}, redis[Key(c)].fp # FP(c)
      PROVE  Misused(c, ask)
  <2>1. redis[Key(c)] \in Record /\ RecordOK(Key(c), redis[Key(c)])
    BY <1>4 DEF IdemInv, IdemTypeOK
  <2> QED
    BY <1>4, <2>1 DEF RecordOK, Key, FP, Cmd
<1> HIDE DEF Misused
<1>5. ConflictMeansMisuse /\ IdemTypeOK /\ \A c \in Calls : StepOK(c)
  BY DEF IdemInv
<1>6. \A e : Error(e).kind = e
  BY DEF Error
<1>7. ASSUME NEW c \in Calls, result'[c] = result[c],
             result'[c].kind = "Conflict"
      PROVE  Misused(c, ask')
  <2>1. NoResult.kind = "none"
    BY DEF NoResult
  <2>2. step[c] # "idle"
    BY <1>5, <1>7, <2>1 DEF StepOK
  <2>3. ask[c] # NoReq
    BY <1>5, <2>2, RecordAssumption DEF StepOK
  <2> QED
    BY <1>1, <1>2, <1>5, <1>7, <2>3
<1>8. ASSUME NEW c \in Calls, Progress(c), result'[c].kind = "Conflict"
      PROVE  Misused(c, ask')
  <2>1. CASE \/ SetNXTakes(c) \/ SetNXLoses(c) \/ SetNXLosesToItself(c)
             \/ SetNXFails(c) \/ GetFails(c) \/ PostIsDuplicate(c)
             \/ Complete(c) \/ Release(c)
    BY <1>7, <1>8, <2>1
    DEF SetNXTakes, SetNXLoses, SetNXLosesToItself, SetNXFails, GetFails,
        PostIsDuplicate, Complete, Release, Post
  <2>2. \A r : Return(c, r) => result'[c] = r
    BY <1>5 DEF Return, IdemTypeOK
  <2>3. CASE GetFinds(c)
    <3>1. CASE redis[Key(c)].fp # FP(c)
      BY <1>4, <2>3, <3>1, WriteTypes DEF GetFinds
    <3>2. CASE redis[Key(c)].fp = FP(c)
      BY <1>7, <1>8, <2>3, <3>2 DEF GetFinds
    <3> QED
      BY <3>1, <3>2
  <2>4. CASE GetUndecodable(c) \/ QueryFails(c)
    BY <1>6, <1>8, <2>2, <2>4 DEF GetUndecodable, QueryFails
  <2>5. CASE GetMisses(c)
    BY <1>6, <1>7, <1>8, <2>2, <2>5 DEF GetMisses
  <2>6. CASE Lookup(c)
    BY <1>3, <1>6, <1>7, <1>8, <2>2, <2>6, ReplayFacts
    DEF Lookup, Post, Unfinished
  <2>7. CASE Recover(c)
    <3>1. CASE RowsOf(Key(c)) = {}
      BY <1>6, <1>8, <2>2, <2>7, <3>1 DEF Recover
    <3>2. CASE RowsOf(Key(c)) # {}
      <4>1. PICK t \in RowsOf(Key(c)) : result'[c] = Replay(c, t)
        BY <1>5, <2>2, <2>7, <3>2 DEF Recover, IdemTypeOK
      <4> QED
        BY <1>3, <1>8, <2>7, <4>1, ReplayFacts DEF Recover
    <3> QED
      BY <3>1, <3>2
  <2>8. CASE PostSucceeds(c)
    <3>1. PICK t : result'[c] = [kind |-> "Posted", transfer |-> t]
      BY <1>5, <2>8 DEF PostSucceeds, IdemTypeOK
    <3> QED
      BY <1>8, <3>1, SMT
  <2>9. CASE \E e \in Rejections \cup {"Exhausted", "Failed"} : PostFails(c, e)
    <3>1. PICK e \in Rejections \cup {"Exhausted", "Failed"} :
              result'[c] = Error(e)
      BY <1>5, <2>9 DEF PostFails, AsReturned, IdemTypeOK
    <3> QED
      BY <1>6, <1>8, <3>1 DEF Rejections
  <2> QED
    BY <1>8, <2>1, <2>3, <2>4, <2>5, <2>6, <2>7, <2>8, <2>9 DEF Progress
<1>9. ASSUME NEW c \in Calls, NEW k \in Keys \cup BadKeys, NEW m \in Commands,
             Call(c, k, m), result'[c].kind = "Conflict"
      PROVE  Misused(c, ask')
  <2>1. \A r : Return(c, r) => result'[c] = r
    BY <1>5 DEF Return, IdemTypeOK
  <2>2. Validate(m) # "Conflict"
    BY DEF Validate
  <2> QED
    BY <1>6, <1>7, <1>9, <2>1, <2>2 DEF Call
<1>10. SUFFICES ASSUME NEW d \in Calls, result'[d].kind = "Conflict"
                PROVE  Misused(d, ask')
  BY <1>1
<1>11. CASE UNCHANGED result
  BY <1>7, <1>10, <1>11
<1>12. ASSUME NEW c \in Calls,
              \/ Progress(c)
              \/ \E k \in Keys \cup BadKeys, m \in Commands : Call(c, k, m)
       PROVE  Misused(d, ask')
  <2>1. CASE c = d
    BY <1>8, <1>9, <1>10, <1>12, <2>1
  <2>2. CASE c # d
    BY <1>7, <1>10, <1>12, <2>2, OnlyOne DEF Still
  <2> QED
    BY <2>1, <2>2
<1> QED
  BY <1>11, <1>12 DEF Next, Commit, Vanish, Arrive, Crash

(****************************************************************************)
(* The invariant                                                            *)
(****************************************************************************)
(* The invariant holds before the first request.                            *)
LEMMA InitOK == Init => IdemInv
<1> SUFFICES ASSUME Init PROVE IdemInv
  OBVIOUS
<1>1. /\ \A c \in Calls : step[c] = "idle" /\ ask[c] = NoReq /\ req[c] = NoReq
                            /\ result[c] = NoResult
      /\ transfers = {} /\ late = {}
      /\ NoResult.kind = "none"
  BY DEF Init, L!Init, NoResult
<1>2. IdemTypeOK
  <2>1. 0 \in 0 .. MaxClaims - 1
    BY SMT DEF MaxClaims
  <2>2. /\ redis \in [Keys -> Record \cup {NoRecord, Corrupt}]
        /\ late \subseteq Write
    BY RecordAssumption DEF Init
  <2>3. result \in [Calls -> Results]
    BY ErrorTypes DEF Init
  <2> QED
    BY <2>1, <2>2, <2>3 DEF Init, IdemTypeOK, Steps, Results
<1>3. LedgerInv
  <2>1. /\ req \in [Calls -> Request \cup {NoReq}]
        /\ answer \in [Calls -> Outcomes \cup {Pending}]
    BY SameBooks DEF Init, L!Init
  <2> QED
    BY <1>1, <2>1 DEF LedgerInv, L!CommittedBy
<1>4. \A c \in Calls : StepOK(c)
  BY <1>1 DEF StepOK
<1>5. \A k \in Keys : RecordOK(k, redis[k])
  <2>1. \A k \in Keys : redis[k] \in Leftovers
    BY DEF Init
  <2> QED
    BY <2>1 DEF RecordOK
<1>6. ConflictMeansMisuse
  BY <1>1 DEF ConflictMeansMisuse
<1> QED
  BY <1>1, <1>2, <1>3, <1>4, <1>5, <1>6 DEF IdemInv

(* The invariant says nothing of the accounts and the entries.              *)
LEMMA NothingNew ==
    ASSUME IdemInv, UNCHANGED <<transfers, req, answer, redis, late, step, ask,
                                tries, seen, result>>
    PROVE  IdemInv'
<1>1. IdemTypeOK'
  BY DEF IdemInv, IdemTypeOK
<1>2. LedgerInv'
  <2>1. LedgerInv
    BY DEF IdemInv
  <2>2. answer' \in [Calls -> Outcomes \cup {Pending}]
    BY <2>1 DEF LedgerInv
  <2>3. \A c \in Calls : Closed(c)' => L!CommittedBy(c)' = {}
    BY <2>1 DEF LedgerInv, Closed, L!CommittedBy
  <2> QED
    BY <2>1, <2>2, <2>3, LedgerStays
<1>3. \A c \in Calls : StepOK(c)'
  BY StillOK DEF IdemInv, Still
<1>4. /\ \A k \in Keys : RecordOK(k, redis[k])'
      /\ (\A w \in late : RecordOK(w.key, w.rec))'
  BY GenuineIsOK DEF IdemInv
<1>5. ConflictMeansMisuse'
  BY SMT DEF IdemInv, ConflictMeansMisuse, Key, FP, Cmd
<1> QED
  BY <1>1, <1>2, <1>3, <1>4, <1>5 DEF IdemInv

(* Every step of the service, Redis or the system keeps the invariant.      *)
LEMMA NextOK == IdemInv /\ [Next]_vars => IdemInv'
<1> SUFFICES ASSUME IdemInv, [Next]_vars PROVE IdemInv'
  OBVIOUS
<1>1. CASE Next
  BY <1>1, TypesKept, LedgerKept, StepsKept, RecordsKept, ConflictKept
  DEF IdemInv
<1>2. CASE UNCHANGED vars
  BY <1>2, NothingNew DEF vars
<1> QED
  BY <1>1, <1>2

(* The inductive invariant of PostIdempotent and its store holds for any    *)
(* number of requests, keys and payments, whatever Redis loses, delays or   *)
(* had in it.                                                               *)
THEOREM Inductive == Spec => []IdemInv
  BY InitOK, NextOK, PTL DEF Spec

(* A successful PostIdempotent returns the committed transfer of its own    *)
(* key and payment.                                                         *)
THEOREM SuccessProved == Spec => []SuccessIsThePayment
<1>1. IdemInv => SuccessIsThePayment
  <2> SUFFICES ASSUME IdemInv, NEW c \in Calls,
                      result[c].kind \in {"Posted", "Replayed"}
               PROVE  LET t == result[c].transfer
                      IN  /\ t \in transfers
                          /\ t.key = Key(c)
                          /\ Fingerprint(t) = FP(c)
                          /\ (result[c].kind = "Posted") <=> (t.id[1] = c)
    BY DEF SuccessIsThePayment
  <2>1. StepOK(c)
    BY DEF IdemInv
  <2>2. /\ result[c].transfer \in RowsOf(Key(c))
        /\ Fingerprint(result[c].transfer) = FP(c)
        /\ result[c].kind = "Posted" => result[c].transfer.id[1] = c
    BY <2>1 DEF StepOK
  <2>3. ASSUME result[c].kind = "Replayed" PROVE result[c].transfer.id[1] # c
    <3>1. L!CommittedBy(c) = {}
      BY <2>1, <2>3 DEF StepOK, IdemInv, LedgerInv
    <3> QED
      BY <2>2, <3>1 DEF L!CommittedBy, RowsOf
  <2> QED
    BY <2>2, <2>3 DEF RowsOf
<1> QED
  BY <1>1, Inductive, PTL

(* A call that returned anything but a new transfer or an unclassified      *)
(* failure has no transfer, then or later.                                  *)
THEOREM RefusalProved == Spec => []NoMoneyBehindRefusal
<1>1. IdemInv => NoMoneyBehindRefusal
  BY DEF IdemInv, LedgerInv, StepOK, NoMoneyBehindRefusal
<1> QED
  BY <1>1, Inductive, PTL

(* A COMPLETED record that this deployment wrote names the transfer of its  *)
(* key, however late it arrived.                                            *)
THEOREM CompletedProved == Spec => []CompletedIsTrue
<1>1. IdemInv => CompletedIsTrue
  BY RecordAssumption DEF IdemInv, RecordOK, CompletedIsTrue
<1> QED
  BY <1>1, Inductive, PTL

(* A request whose payment had been made before it came in pays nothing.    *)
THEOREM RetryProved == Spec => []RetryNeverPaysAgain
<1>1. IdemInv => RetryNeverPaysAgain
  <2> SUFFICES ASSUME IdemInv, NEW c \in Calls, ask[c] # NoReq, ask[c].paid,
                      NEW u \in L!CommittedBy(c)
               PROVE  FALSE
    BY DEF RetryNeverPaysAgain
  <2>1. PICK t \in transfers : t.key = Key(c) /\ t.id[1] # c
    BY DEF IdemInv, LedgerInv
  <2>2. u \in transfers /\ u.key = Key(c) /\ u.id[1] = c
    BY OwnRow DEF RowsOf
  <2>3. t.key = u.key => t = u
    BY <2>1, <2>2 DEF IdemInv, LedgerInv
  <2> QED
    BY <2>1, <2>2, <2>3
<1> QED
  BY <1>1, Inductive, PTL

(* A conflict is reported only of a key used for two different payments.    *)
THEOREM ConflictProved == Spec => []ConflictMeansMisuse
<1>1. IdemInv => ConflictMeansMisuse
  BY DEF IdemInv
<1> QED
  BY <1>1, Inductive, PTL

(****************************************************************************)
(* The refinement                                                           *)
(****************************************************************************)
(* A payment of AtMostOnce.                                                 *)
Payment(t) == [key |-> t.key, payment |-> Fingerprint(t), by |-> t.id[1]]

(* A request of AtMostOnce is not the absence of one.                       *)
LEMMA AskedFacts ==
    ASSUME IdemInv, NEW c \in Calls, ask[c] # NoReq
    PROVE  /\ Asked(c) = [key |-> Key(c), payment |-> FP(c)]
           /\ Asked(c) # NoReq
<1>1. ask[c] \in Asking
  BY DEF IdemInv, IdemTypeOK
<1>2. Key(c) \in Keys \cup BadKeys /\ FP(c) \in { Fingerprint(m) : m \in Commands }
  BY <1>1 DEF Asking, Key, FP, Cmd
<1>3. Asked(c) = [key |-> Key(c), payment |-> FP(c)]
  BY DEF Asked
<1>4. [key |-> Key(c), payment |-> FP(c)] \in
          [key : Keys \cup BadKeys, payment : { Fingerprint(m) : m \in Commands }]
  BY <1>2
<1> QED
  BY <1>3, <1>4, RecordAssumption

(* The commit of a transfer is the payment: its caller has not been told of *)
(* a refusal.                                                               *)
LEMMA CommitPays ==
    ASSUME IdemInv, NEW c \in Calls, Commit(c)
    PROVE  Promise!Pay(c)
<1>1. /\ req[c] # NoReq
      /\ answer[c] \in {Pending, "Failed"}
      /\ \A t \in transfers : t.key # Key(c)
      /\ StepOK(c) /\ LedgerInv
  BY CommitFacts DEF Commit, IdemInv
<1>2. PICK n \in 1 .. MaxAttempts :
          transfers' = transfers \cup
              {TransferRow(<<c, n>>, Cmd(c), Key(c), "completed")}
  BY CommitFacts DEF Commit
<1> DEFINE T == TransferRow(<<c, n>>, Cmd(c), Key(c), "completed")
<1>3. /\ ask[c] # NoReq
      /\ UNCHANGED <<ask, step, result>>
  BY <1>1, RecordAssumption, ZenonT(30) DEF LedgerInv, Commit
<1>4. ~Closed(c) /\ L!CommittedBy(c) = {}
  BY <1>1, SameBooks DEF Closed, Commit, L!Commit
<1>5. step[c] = "done" => result[c].kind = "Failed"
  BY <1>1, <1>4 DEF StepOK, L!CommittedBy, RowsOf
<1>6. Verdict(c) \in {[verdict |-> "nothing", by |-> NoCall],
                     [verdict |-> "unknown", by |-> NoCall]}
  BY <1>5 DEF Verdict
<1>7. Payment(T) = [key |-> Asked(c).key, payment |-> Asked(c).payment, by |-> c]
  BY <1>3, AskedFacts, SMT DEF Payment, TransferRow, Fingerprint, FP
<1>8. { Payment(t) : t \in transfers' } = { Payment(t) : t \in transfers } \cup
          {[key |-> Asked(c).key, payment |-> Asked(c).payment, by |-> c]}
  BY <1>2, <1>7
<1>9. \A p \in { Payment(t) : t \in transfers } : p.key # Asked(c).key
  BY <1>1, <1>3, AskedFacts, SMT DEF Payment
<1>10. \A d \in Calls : Asked(d)' = Asked(d) /\ Verdict(d)' = Verdict(d)
  BY <1>3 DEF Asked, Verdict, Key, FP, Cmd
<1> QED
  BY <1>3, <1>6, <1>8, <1>9, <1>10, AskedFacts
  DEF Promise!Pay, Promise!Nothing, Promise!Unknown, Payment

(* What a call has returned is true.                                        *)
LEMMA ReturnedIsTrue ==
    ASSUME IdemInv', IdemInv, NEW c \in Calls, step'[c] = "done",
           UNCHANGED <<transfers, ask>>, ask[c] # NoReq
    PROVE  /\ Promise!IsTrue(c, Verdict(c)')
           /\ Verdict(c)' \in {Promise!Unknown, Promise!Refused}
                                \cup { Promise!Success(d) : d \in Calls }
<1>1. StepOK(c)' /\ LedgerInv'
  BY DEF IdemInv
<1>2. Asked(c) = [key |-> Key(c), payment |-> FP(c)]
  BY AskedFacts
<1>3. Key(c)' = Key(c) /\ FP(c)' = FP(c) /\ RowsOf(Key(c))' = RowsOf(Key(c))
  BY DEF Key, FP, Cmd, RowsOf
<1>4. CASE result'[c].kind \in {"Posted", "Replayed"}
  <2>1. PICK t \in transfers : /\ t = result'[c].transfer
                              /\ t.key = Key(c)
                              /\ Fingerprint(t) = FP(c)
    BY <1>1, <1>3, <1>4 DEF StepOK, RowsOf
  <2>2. Verdict(c)' = [verdict |-> "success", by |-> t.id[1]]
    BY <1>4, <2>1 DEF Verdict
  <2>3. t.id[1] \in Calls
    BY RowTypes, SMT DEF Transfer, TransferIDs
  <2>4. Payment(t) \in { Payment(u) : u \in transfers }
    BY <2>1
  <2>5. /\ Payment(t).key = Asked(c).key
        /\ Payment(t).payment = Asked(c).payment
        /\ Payment(t).by = t.id[1]
    BY <1>2, <2>1, SMT DEF Payment
  <2> QED
    BY <2>2, <2>3, <2>4, <2>5 DEF Promise!IsTrue, Promise!Success, Payment
<1>5. CASE result'[c].kind = "Failed"
  BY <1>5 DEF Verdict, Promise!IsTrue, Promise!Unknown
<1>6. CASE result'[c].kind \notin {"Posted", "Replayed", "Failed"}
  <2>1. Verdict(c)' = Promise!Refused
    BY <1>6 DEF Verdict, Promise!Refused
  <2>2. L!CommittedBy(c)' = {}
    BY <1>1, <1>6 DEF StepOK, LedgerInv
  <2>3. \A t \in transfers : t.id[1] # c
    BY <2>2 DEF L!CommittedBy
  <2>4. \A p \in { Payment(t) : t \in transfers } : p.by # c
    BY <2>3, SMT DEF Payment
  <2> QED
    BY <2>1, <2>4 DEF Promise!IsTrue, Payment
<1> QED
  BY <1>4, <1>5, <1>6

(* A new request is asked, and refused at once if it is malformed.          *)
LEMMA CallAsks ==
    ASSUME IdemInv, IdemInv', NEW c \in Calls, NEW k \in Keys \cup BadKeys,
           NEW m \in Commands, Call(c, k, m)
    PROVE  Promise!Ask(c, k, Fingerprint(m))
<1>1. /\ step[c] = "idle" /\ ask[c] = NoReq
      /\ ask'[c] = [cmd |-> m, key |-> k, paid |-> Paid(k, m)]
      /\ \A d \in Calls \ {c} : Still(d)
      /\ UNCHANGED transfers
  BY OnlyOne DEF IdemInv, StepOK, IdemTypeOK, Call
<1>2. ask'[c].key = k /\ ask'[c].cmd = m
  BY <1>1, SMT
<1>3. ask'[c] # NoReq
  <2>1. step'[c] # "idle"
    BY DEF Call, Return, Goto, IdemInv, IdemTypeOK
  <2>2. StepOK(c)'
    BY DEF IdemInv
  <2>3. ask'[c] \in Asking
    BY <2>1, <2>2 DEF StepOK
  <2> QED
    BY <2>3, RecordAssumption
<1>4. Asked(c) = NoReq /\ Asked(c)' = [key |-> k, payment |-> Fingerprint(m)]
  BY <1>1, <1>2, <1>3 DEF Asked, Key, FP, Cmd
<1>5. \A d \in Calls \ {c} : Asked(d)' = Asked(d) /\ Verdict(d)' = Verdict(d)
  BY <1>1 DEF Still, Asked, Verdict, Key, FP, Cmd
<1>6. Verdict(c) = Promise!Nothing
  BY <1>1 DEF Verdict, Promise!Nothing
<1>7. \A e : Error(e).kind = e
  BY DEF Error
<1>8. \A r : Return(c, r) => step'[c] = "done" /\ result'[c] = r
  BY DEF Return, Goto, IdemInv, IdemTypeOK
<1>9. \/ Verdict(c)' = Promise!Refused
      \/ k \notin BadKeys /\ Verdict(c)' = Promise!Nothing
  <2>1. CASE k \notin Keys
    BY <1>7, <1>8, <2>1 DEF Call, Verdict, Promise!Refused
  <2>2. CASE k \in Keys /\ Validate(m) # "ok"
    <3>1. Validate(m) \notin {"Posted", "Replayed", "Failed"}
      BY DEF Validate
    <3> QED
      BY <1>7, <1>8, <2>2, <3>1 DEF Call, Verdict, Promise!Refused
  <2>3. CASE k \in Keys /\ Validate(m) = "ok"
    <3>1. step'[c] = "setnx"
      BY <2>3 DEF Call, Goto, IdemInv, IdemTypeOK
    <3> QED
      BY <2>3, <3>1, RecordAssumption DEF Verdict, Promise!Nothing
  <2> QED
    BY <2>1, <2>2, <2>3
<1>10. [d \in Calls |-> Asked(d)]' =
         [[d \in Calls |-> Asked(d)] EXCEPT
             ![c] = [key |-> k, payment |-> Fingerprint(m)]]
  BY <1>4, <1>5
<1>11. \/ [d \in Calls |-> Verdict(d)]' =
            [[d \in Calls |-> Verdict(d)] EXCEPT ![c] = Promise!Refused]
       \/ k \notin BadKeys /\ UNCHANGED [d \in Calls |-> Verdict(d)]
  BY <1>5, <1>6, <1>9
<1> QED
  BY <1>1, <1>4, <1>10, <1>11 DEF Promise!Ask

(* The steps of a running call make no payment.                             *)
LEMMA RunningKeeps ==
    ASSUME NEW c \in Calls, Progress(c) \/ Crash(c)
    PROVE  UNCHANGED <<transfers, ask>> /\ step[c] \notin {"idle", "done"}
<1>1. Post(c) => UNCHANGED <<transfers, ask>>
  BY DEF Post, L!Invoke
<1>2. CASE SetNXTakes(c) \/ SetNXFails(c) \/ GetFails(c) \/ Lookup(c)
  BY <1>1, <1>2 DEF SetNXTakes, SetNXFails, GetFails, Lookup
<1>3. CASE SetNXLoses(c) \/ SetNXLosesToItself(c) \/ GetFinds(c)
             \/ GetUndecodable(c) \/ GetMisses(c)
  BY <1>3 DEF SetNXLoses, SetNXLosesToItself, GetFinds, GetUndecodable,
              GetMisses
<1>4. CASE Recover(c) \/ QueryFails(c) \/ Complete(c) \/ Release(c)
  BY <1>4 DEF Recover, QueryFails, Complete, Release
<1>5. CASE \/ PostSucceeds(c) \/ PostIsDuplicate(c)
           \/ \E e \in Rejections \cup {"Exhausted", "Failed"} : PostFails(c, e)
  BY <1>5 DEF PostSucceeds, PostIsDuplicate, PostFails, L!Answer
<1>6. CASE Crash(c)
  BY <1>6 DEF Crash, ledger, L!Answer
<1> QED
  BY <1>2, <1>3, <1>4, <1>5, <1>6 DEF Progress

(* A running call tells its client the truth, or nothing.                   *)
LEMMA RunningTells ==
    ASSUME IdemInv, IdemInv', NEW c \in Calls, Progress(c) \/ Crash(c)
    PROVE  Promise!Next \/ UNCHANGED Promise!vars
<1>1. /\ UNCHANGED <<transfers, ask>>
      /\ step[c] \notin {"idle", "done"}
      /\ \A d \in Calls \ {c} : Still(d)
      /\ StepOK(c)
  BY RunningKeeps, OnlyOne DEF IdemInv
<1>2. ask[c] # NoReq
  BY <1>1, RecordAssumption DEF StepOK
<1>3. /\ \A d \in Calls : Asked(d)' = Asked(d)
      /\ \A d \in Calls \ {c} : Verdict(d)' = Verdict(d)
      /\ Verdict(c) = Promise!Nothing
  BY <1>1 DEF Still, Asked, Verdict, Key, FP, Cmd, Promise!Nothing
<1>4. CASE step'[c] = "done"
  <2>1. /\ Promise!IsTrue(c, Verdict(c)')
        /\ Verdict(c)' \in {Promise!Unknown, Promise!Refused}
                             \cup { Promise!Success(d) : d \in Calls }
    BY <1>1, <1>2, <1>4, ReturnedIsTrue
  <2>2. [d \in Calls |-> Verdict(d)]' =
            [[d \in Calls |-> Verdict(d)] EXCEPT ![c] = Verdict(c)']
    BY <1>3
  <2>3. UNCHANGED [d \in Calls |-> Asked(d)]
    BY <1>3
  <2>4. Promise!Tell(c, Verdict(c)')
    BY <1>1, <1>2, <1>3, <2>1, <2>2, <2>3, AskedFacts DEF Promise!Tell
  <2> QED
    BY <2>1, <2>4 DEF Promise!Next
<1>5. CASE step'[c] # "done"
  <2>1. Verdict(c)' = Verdict(c)
    BY <1>3, <1>5 DEF Verdict, Promise!Nothing
  <2> QED
    BY <1>1, <1>3, <2>1 DEF Promise!vars
<1> QED
  BY <1>4, <1>5

(* PostIdempotent with its Redis store implements AtMostOnce: at most one   *)
(* payment per key, success only with the payment asked for, and no payment *)
(* behind a definite refusal, under lost, expired, corrupt and delayed      *)
(* Redis records, lost database answers and crashes.                        *)
THEOREM Refinement == Spec => ImplementsAtMostOnce
<1>1. Init => Promise!Init
  <2> SUFFICES ASSUME Init PROVE Promise!Init
    OBVIOUS
  <2>1. /\ \A c \in Calls : step[c] = "idle" /\ ask[c] = NoReq
        /\ transfers = {}
    BY DEF Init, L!Init
  <2>2. \A c \in Calls : Asked(c) = NoReq /\ Verdict(c) = Promise!Nothing
    BY <2>1 DEF Asked, Verdict, Promise!Nothing
  <2> QED
    BY <2>1, <2>2 DEF Promise!Init
<1>2. IdemInv /\ IdemInv' /\ [Next]_vars => [Promise!Next]_(Promise!vars)
  <2> SUFFICES ASSUME IdemInv, IdemInv', [Next]_vars
               PROVE  Promise!Next \/ UNCHANGED Promise!vars
    OBVIOUS
  <2>1. CASE \E c \in Calls, k \in Keys \cup BadKeys, m \in Commands :
                 Call(c, k, m)
    BY <2>1, CallAsks DEF Promise!Next
  <2>2. CASE \E c \in Calls : Commit(c)
    BY <2>2, CommitPays DEF Promise!Next
  <2>3. CASE \E c \in Calls : Progress(c) \/ Crash(c)
    BY <2>3, RunningTells
  <2>4. CASE UNCHANGED <<transfers, ask, step, result>>
    BY <2>4 DEF Promise!vars, Asked, Verdict, Key, FP, Cmd
  <2> QED
    BY <2>1, <2>2, <2>3, <2>4 DEF Next, Vanish, Arrive, vars
<1> QED
  BY <1>1, <1>2, Inductive, PTL DEF Spec, ImplementsAtMostOnce, Promise!Spec
==============================================================================
