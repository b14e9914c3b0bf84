------------------------------- MODULE APIProofs -----------------------------
(****************************************************************************)
(* The payments API, proved for every number of requests and readers and    *)
(* every set of accounts, keys, commands and headers.                       *)
(*                                                                          *)
(* Every step of the API is a step of PostIdempotent, a new account, or one *)
(* that leaves the tables and Redis alone, so that the invariant of         *)
(* IdempotencyProofs carries over; to it come the books (BooksProofs), what *)
(* the answers given so far were based on, and who was let in.              *)
(****************************************************************************)
EXTENDS APIProps, IdempotencyProofs, BooksProofs

USE Zenon

(****************************************************************************)
(* The inductive invariant                                                  *)
(****************************************************************************)
(* What every account was funded with before the first transfer.            *)
Funding == [a \in Accounts |-> IF Opening[a] = NoRow THEN 0
                               ELSE Opening[a].balance]

(* The books: every transfer has its two legs, no entry is without its      *)
(* transfer, and the balances reconcile.                                    *)
TablesOK ==
    /\ accounts \in Rows
    /\ \A t \in transfers : { e \in entries : e.transfer = t.id } = Legs(t.id, t)
    /\ \A e \in entries : \E t \in transfers : t.id = e.transfer
    /\ Reconciled(accounts, entries, Funding)

(* The answer to CreateTransfer c is what the interceptors, the validation  *)
(* or PostIdempotent said.                                                  *)
ReplyOK(c) ==
    reply[c] # NoReply =>
        \/ /\ step[c] = "idle"
           /\ \E s \in {"Unauthenticated", "PermissionDenied",
                        "InvalidArgument"} : reply[c] = Status(s)
        \/ /\ step[c] = "done"
           /\ result[c].kind \in {"Posted", "Replayed"}
           /\ reply[c] = [code |-> "OK", transfer |-> result[c].transfer,
                          replay |-> result[c].kind = "Replayed"]
        \/ /\ step[c] = "done"
           /\ result[c].kind \notin {"Posted", "Replayed"}
           /\ \E s \in toStatus(result[c].kind) : reply[c] = Status(s)

(* Who got past the interceptors was to be let in.                          *)
EntryOK(c) == step[c] # "idle" => Admitted(header[c]) = "handler"

(* A record of c was written by c, and so after c was let in.               *)
Traced(r) == r \in Record /\ r.by \in Calls => step[r.by] # "idle"

(* The entries that reader r asked for are whole ...                        *)
Whole(v) ==
    /\ v.code = "NotFound" => \A t \in v.told : t.id # v.id
    /\ v.code = "OK" /\ v.rpc = "GetTransfer" =>
          \A t \in v.got : t.status = "completed"
    /\ v.code = "OK" /\ v.rpc # "GetTransfer" =>
          Cardinality(v.got) = 2 /\ SumOf(v.got) = 0

(* ... and the balance that it was shown has every payment it was told of.  *)
Explained(v, E) ==
    v.code = "OK" =>
        \E S \in SUBSET { e \in E : e.account = v.id } :
            /\ { e \in E : /\ e.account = v.id
                           /\ \E t \in v.told : t.id = e.transfer } \subseteq S
            /\ \A row \in v.got : row.balance = Funding[v.id] + SumOf(S)

(* The request v of a reader, while it reads and when it has been answered, *)
(* where T are the transfers and E the entries.                             *)
Lists == "ListLedgerEntriesForTransfer"

Fair(v, T, E) ==
    \/ v = NoLook
    \/ /\ v.at = "entries" /\ v.rpc = Lists
       /\ \E t \in T : t.id = v.id
    \/ v.at = "done" /\ v.rpc \in {"any", "CreateAccount"}
    \/ /\ v.at = "done" /\ v.rpc \in {"GetTransfer", Lists}
       /\ Whole(v)
    \/ /\ v.at = "done" /\ v.rpc = "GetAccount"
       /\ v.id \in Accounts
       /\ v.told \subseteq T
       /\ Explained(v, E)

APIInv ==
    /\ IdemInv
    /\ TablesOK
    /\ DOMAIN header = Calls /\ DOMAIN reply = Calls /\ DOMAIN look = Readers
    /\ \A c \in Calls : ReplyOK(c) /\ EntryOK(c)
    /\ \A k \in Keys : Traced(redis[k])
    /\ \A w \in late : Traced(w.rec)
    /\ \A r \in Readers : Fair(look[r], transfers, entries)

(****************************************************************************)
(* The tables                                                               *)
(****************************************************************************)
(* Every account has an opening balance.                                    *)
LEMMA FundingType == Funding \in [Accounts -> Int]
  <1>1. \A a \in Accounts :
          (IF Opening[a] = NoRow THEN 0 ELSE Opening[a].balance) \in Int
    BY OpeningAssumption, SMT DEF Row
  <1> QED BY <1>1 DEF Funding

(* Before the first transfer every balance is what it was opened with.      *)
LEMMA TablesStart == Init => TablesOK
  <1> SUFFICES ASSUME Init PROVE TablesOK
    OBVIOUS
  <1>1. accounts = Opening /\ transfers = {} /\ entries = {}
    BY DEF Init, L!Init
  <1>2. Summable({}) /\ \A a : LedgerMinor({}, a) = 0
    <2>1. \A a : { e \in {} : e.account = a } = {}
      OBVIOUS
    <2> QED BY <2>1, FS_EmptySet, SumOfEmpty DEF Summable, LedgerMinor
  <1>3. \A a \in Accounts : Funding[a] = IF Opening[a] = NoRow THEN 0
                                         ELSE Opening[a].balance
    BY DEF Funding
  <1>4. \A a \in Present(Opening) : Opening[a].balance \in Int
    BY OpeningAssumption, SMT DEF Present, Row
  <1>5. findBalanceMismatches(Opening, {}, Funding) = {}
    BY <1>2, <1>3, <1>4, SMT DEF findBalanceMismatches, Present
  <1>6. Reconciled(Opening, {}, Funding)
    BY <1>2, <1>3, <1>5 DEF Reconciled, Present
  <1> QED BY <1>1, <1>6, OpeningAssumption DEF TablesOK, Rows

(* The ledger's own vocabulary is that of Books.                            *)
LEMMA SameRows ==
  /\ \A row, n : L!Moved(row, n) = Moved(row, n)
  /\ \A id, m : L!Legs(id, m) = Legs(id, m)
  BY DEF L!Moved, Moved, L!Legs, Legs

(* The tables change when a transfer is committed and at no other step of   *)
(* PostIdempotent.                                                          *)
LEMMA RowSteps ==
  ASSUME Next
  PROVE  \/ \E c \in Calls : L!Commit(c)
         \/ UNCHANGED <<accounts, transfers, entries>>
  <1>1. ASSUME NEW c \in Calls, Progress(c)
        PROVE  UNCHANGED <<accounts, transfers, entries>>
    <2>1. CASE SetNXTakes(c) \/ SetNXFails(c) \/ GetFails(c) \/ Lookup(c)
      BY <2>1 DEF SetNXTakes, SetNXFails, GetFails, Lookup, Post, L!Invoke
    <2>2. CASE SetNXLoses(c) \/ SetNXLosesToItself(c) \/ GetFinds(c)
                 \/ GetUndecodable(c) \/ GetMisses(c) \/ Recover(c)
                 \/ QueryFails(c) \/ Complete(c) \/ Release(c)
      BY <2>2 DEF SetNXLoses, SetNXLosesToItself, GetFinds,
         GetUndecodable, GetMisses, Recover, QueryFails, Complete, Release
    <2>3. CASE \/ PostSucceeds(c) \/ PostIsDuplicate(c)
               \/ \E e \in Rejections \cup {"Exhausted", "Failed"} :
                     PostFails(c, e)
      BY <2>3 DEF PostSucceeds, PostIsDuplicate, PostFails, L!Answer
    <2> QED BY <1>1, <2>1, <2>2, <2>3 DEF Progress
  <1>2. ASSUME NEW c \in Calls, Crash(c)
        PROVE  UNCHANGED <<accounts, transfers, entries>>
    BY <1>2 DEF Crash, L!Answer, ledger
  <1>3. CASE \/ \E c \in Calls, k \in Keys \cup BadKeys, m \in Commands :
                   Call(c, k, m)
             \/ \E k \in Keys : Vanish(k)
             \/ \E w \in late : Arrive(w)
    BY <1>3 DEF Call, Vanish, Arrive
  <1>4. CASE \E c \in Calls : Commit(c)
    BY <1>4 DEF Commit
  <1> QED BY <1>1, <1>2, <1>3, <1>4 DEF Next

(* What the commit of c adds to the tables.                                 *)
LEMMA CommitRows ==
  ASSUME IdemInv, TablesOK, NEW c \in Calls, L!Commit(c)
  PROVE  \E id \in TransferIDs :
           /\ Possible(accounts, Cmd(c))
           /\ NewID(id, entries) /\ \A t \in transfers : t.id # id
           /\ accounts' = AfterMove(accounts, Cmd(c))
           /\ transfers' = transfers \cup
                             {TransferRow(id, Cmd(c), Key(c), "completed")}
           /\ entries' = entries \cup Legs(id, Cmd(c))
  <1> DEFINE m == Cmd(c)
  <1>1. /\ req[c] # NoReq /\ L!CommittedBy(c) = {} /\ L!CanPost(req[c].cmd)
    BY DEF L!Commit
  <1>2. /\ req[c] = [cmd |-> Cmd(c), key |-> Key(c)] /\ ask[c] \in Asking
        /\ Validate(m) = "ok"
    BY <1>1 DEF IdemInv, LedgerInv
  <1>3. req[c].cmd = m /\ req[c].key = Key(c) /\ m \in Commands
    BY <1>2, SMT DEF Asking, Cmd
  <1>4. PICK n \in 1 .. MaxAttempts :
          /\ accounts' = [accounts EXCEPT ![m.src] = L!Moved(@, -m.amount),
                                          ![m.dst] = L!Moved(@, m.amount)]
          /\ transfers' = transfers \cup
                 {L!TransferRow(<<c, n>>, m, Key(c), "completed")}
          /\ entries' = entries \cup L!Legs(<<c, n>>, m)
    BY <1>3 DEF L!Commit
  <1>5. m.src \in Accounts /\ m.dst \in Accounts
        /\ m.src # m.dst /\ m.amount \in Int /\ m.amount > 0
    BY <1>2, <1>3, CommandsAssumption, SMT DEF Validate
  <1>6. Possible(accounts, m)
    BY <1>1, <1>3, <1>5 DEF L!CanPost, Possible, Present
  <1>7. \A t \in transfers : t.id # <<c, n>>
    BY <1>1, SMT DEF L!CommittedBy
  <1>8. NewID(<<c, n>>, entries)
    BY <1>7 DEF TablesOK, NewID
  <1>9. accounts' = AfterMove(accounts, m)
    BY <1>4, SameRows DEF AfterMove
  <1>10. /\ transfers' = transfers \cup
                   {TransferRow(<<c, n>>, m, Key(c), "completed")}
         /\ entries' = entries \cup Legs(<<c, n>>, m)
    BY <1>4, SameRows, SameBooks
  <1>11. <<c, n>> \in TransferIDs
    BY DEF TransferIDs
  <1> QED BY <1>6, <1>7, <1>8, <1>9, <1>10, <1>11

(* A commit keeps the books in order.                                       *)
LEMMA CommitKeepsTables ==
  ASSUME IdemInv, TablesOK, NEW c \in Calls, L!Commit(c)
  PROVE  TablesOK'
  <1> DEFINE m == Cmd(c)
  <1>1. PICK id \in TransferIDs :
           /\ Possible(accounts, m)
           /\ NewID(id, entries) /\ \A t \in transfers : t.id # id
           /\ accounts' = AfterMove(accounts, m)
           /\ transfers' = transfers \cup
                             {TransferRow(id, m, Key(c), "completed")}
           /\ entries' = entries \cup Legs(id, m)
    BY CommitRows
  <1> DEFINE T == TransferRow(id, m, Key(c), "completed")
  <1>2. T.id = id /\ T.src = m.src /\ T.dst = m.dst /\ T.amount = m.amount
           /\ T.currency = m.currency
    BY DEF TransferRow
  <1>3. Legs(id, m) = Legs(T.id, T) /\ \A e \in Legs(id, m) : e.transfer = id
    BY <1>2, SMT DEF Legs
  <1> HIDE DEF T, m
  <1>4. accounts' \in Rows
    BY <1>1, MoveFacts DEF TablesOK
  <1>5. \A t \in transfers' :
          { e \in entries' : e.transfer = t.id } = Legs(t.id, t)
    <2>1. { e \in entries' : e.transfer = T.id } = Legs(T.id, T)
      BY <1>1, <1>2, <1>3 DEF NewID
    <2>2. ASSUME NEW t \in transfers
          PROVE  { e \in entries' : e.transfer = t.id } = Legs(t.id, t)
      <3>1. { e \in entries' : e.transfer = t.id } =
              { e \in entries : e.transfer = t.id }
        BY <1>1, <1>3
      <3> QED BY <3>1 DEF TablesOK
    <2> QED BY <1>1, <2>1, <2>2 DEF T
  <1>6. \A e \in entries' : \E t \in transfers' : t.id = e.transfer
    BY <1>1, <1>2, <1>3 DEF TablesOK, T
  <1>7. Reconciled(AfterMove(accounts, m), entries \cup Legs(id, m), Funding)
    BY <1>1, TransferReconciles, FundingType DEF TablesOK
  <1>8. Reconciled(accounts', entries', Funding)
    BY <1>1, <1>7
  <1> QED BY <1>4, <1>5, <1>6, <1>8 DEF TablesOK, Funding

(****************************************************************************)
(* What a step of the API is to PostIdempotent and to the tables            *)
(****************************************************************************)
(* A new account; PostIdempotent does not notice.                           *)
Opens ==
    /\ \E a \in Accounts, cur \in Currencies : L!CreateAccount(a, cur)
    /\ UNCHANGED <<redis, late, step, ask, tries, seen, result>>

(* Every step of the API is one of PostIdempotent, of an account being      *)
(* opened, or changes nothing below the API.                                *)
LEMMA APIKinds ==
  ASSUME APINext
  PROVE  Next \/ UNCHANGED vars \/ Opens
  <1>1. ASSUME NEW c \in Calls, NEW h \in Headers, NEW k \in Keys \cup BadKeys,
               NEW m \in Commands, CreateTransfer(c, h, k, m)
        PROVE  Next \/ UNCHANGED vars
    BY <1>1 DEF CreateTransfer, Next
  <1>2. CASE Below
    BY <1>2 DEF Below, Next
  <1>3. CASE \E c \in Calls : Respond(c)
    BY <1>3 DEF Respond
  <1>4. CASE \E r \in Readers, rpc \in Payments \ {"CreateTransfer"},
                h \in Headers : Turned(r, rpc, h)
    BY <1>4 DEF Turned
  <1>5. CASE \E r \in Readers, h \in Headers, a \in Accounts,
                cur \in Currencies : CreateAccount(r, h, a, cur)
    BY <1>5 DEF CreateAccount, Opens
  <1>6. CASE \E r \in Readers, h \in Headers, a \in Accounts :
                GetAccount(r, h, a)
    BY <1>6 DEF GetAccount
  <1>7. CASE \E r \in Readers, h \in Headers, id \in TransferIDs :
                GetTransfer(r, h, id) \/ ListEntries(r, h, id)
    BY <1>7 DEF GetTransfer, ListEntries
  <1>8. CASE \E r \in Readers : EntriesForTransfer(r) \/ EntriesFail(r)
    BY <1>8 DEF EntriesForTransfer, EntriesFail
  <1> QED
    BY <1>1, <1>2, <1>3, <1>4, <1>5, <1>6, <1>7, <1>8 DEF APINext

(* The invariant of PostIdempotent is one of the API.                       *)
LEMMA IdemKept ==
  ASSUME IdemInv, Next \/ UNCHANGED vars \/ Opens
  PROVE  IdemInv'
  <1>1. CASE Next \/ UNCHANGED vars
    BY <1>1, NextOK
  <1>2. CASE Opens
    BY <1>2, NothingNew DEF Opens, L!CreateAccount
  <1> QED BY <1>1, <1>2

(* No row is lost, and no entry is added to a transfer that is there.       *)
Grown ==
    /\ transfers \subseteq transfers' /\ entries \subseteq entries'
    /\ \A e \in entries' \ entries : \A t \in transfers : t.id # e.transfer

(* The books stay in order, and they only grow.                             *)
LEMMA TablesKept ==
  ASSUME IdemInv, TablesOK, Next \/ UNCHANGED vars \/ Opens
  PROVE  TablesOK' /\ Grown
  <1>1. CASE UNCHANGED <<accounts, transfers, entries>>
    <2>1. TablesOK'
      BY <1>1 DEF TablesOK, Reconciled, Funding
    <2> QED BY <1>1, <2>1 DEF Grown
  <1>2. ASSUME NEW c \in Calls, L!Commit(c) PROVE TablesOK' /\ Grown
    <2>1. PICK id : /\ \A t \in transfers : t.id # id
                    /\ transfers \subseteq transfers'
                    /\ entries' = entries \cup Legs(id, Cmd(c))
      BY <1>2, CommitRows
    <2>2. \A e \in Legs(id, Cmd(c)) : e.transfer = id
      BY SMT DEF Legs
    <2>3. Grown
      BY <2>1, <2>2 DEF Grown
    <2> QED BY <1>2, <2>3, CommitKeepsTables
  <1>3. CASE Opens
    <2>1. PICK a \in Accounts, cur \in Currencies :
            /\ accounts[a] = NoRow /\ UNCHANGED <<transfers, entries>>
            /\ accounts' = [accounts EXCEPT ![a] =
                               [currency |-> cur, balance |-> 0]]
      BY <1>3 DEF Opens, L!CreateAccount
    <2>2. accounts' \in Rows
      <3>1. [currency |-> cur, balance |-> 0] \in Row
        BY BoundsAssumption, SMT DEF Row
      <3> QED BY <2>1, <3>1 DEF TablesOK, Rows
    <2>3. Reconciled(accounts', entries', Funding)
      BY <2>1, AccountReconciles, FundingType DEF TablesOK
    <2>4. TablesOK'
      BY <2>1, <2>2, <2>3 DEF TablesOK, Funding
    <2> QED BY <2>1, <2>4 DEF Grown
  <1>4. UNCHANGED vars => UNCHANGED <<accounts, transfers, entries>>
    BY DEF vars
  <1> QED BY <1>1, <1>2, <1>3, <1>4, RowSteps

(****************************************************************************)
(* Who was let in, and what was answered                                    *)
(****************************************************************************)
(* Nobody's call is undone.                                                 *)
LEMMA StartedStays ==
  ASSUME IdemInv, Next \/ UNCHANGED vars \/ Opens
  PROVE  \A d \in Calls : step[d] # "idle" => step'[d] # "idle"
  <1>1. CASE Next
    <2>1. \A d \in Calls : step[d] # "idle" => ask[d] # NoReq
      BY RecordAssumption DEF IdemInv, StepOK
    <2>2. \A d \in Calls : ask[d] # NoReq => ask'[d] # NoReq
      BY <1>1, AsksStay
    <2>3. \A d \in Calls : step'[d] = "idle" => ask'[d] = NoReq
      BY <1>1, IdemKept DEF IdemInv, StepOK
    <2> QED BY <2>1, <2>2, <2>3
  <1>2. CASE UNCHANGED vars \/ Opens
    BY <1>2 DEF vars, Opens
  <1> QED BY <1>1, <1>2

(* A call that has not come in, and one that has returned, is left alone by *)
(* everything below the API.                                                *)
LEMMA SettledStays ==
  ASSUME IdemInv, Below, NEW d \in Calls, step[d] \in {"idle", "done"}
  PROVE  step'[d] = step[d] /\ result'[d] = result[d]
  <1>1. ASSUME NEW c \in Calls, Progress(c) \/ Crash(c) PROVE c # d
    <2>1. \A e : PostFails(c, e) => step[c] = "posting"
      BY DEF PostFails
    <2>2. Progress(c) => step[c] \in {"setnx", "get", "lookup", "posting",
                                      "recover", "complete", "release"}
      BY <2>1 DEF Progress, SetNXTakes, SetNXLoses, SetNXLosesToItself,
         SetNXFails, GetFinds, GetUndecodable, GetMisses, GetFails, Lookup,
         Recover, QueryFails, PostSucceeds, PostIsDuplicate, Complete, Release
    <2>3. Crash(c) => step[c] \notin {"idle", "done"}
      BY DEF Crash
    <2> QED BY <1>1, <2>2, <2>3
  <1>2. CASE \E c \in Calls : Progress(c) \/ Crash(c)
    BY <1>1, <1>2, OnlyOne DEF Still
  <1>3. CASE \/ \E c \in Calls : Commit(c)
             \/ \E k \in Keys : Vanish(k)
             \/ \E w \in late : Arrive(w)
    BY <1>3 DEF Commit, Vanish, Arrive
  <1> QED BY <1>2, <1>3 DEF Below

(* Records in Redis, and on their way to it, are of calls that came in.     *)
Past(r, s) == r \in Record /\ r.by \in Calls => s[r.by] # "idle"

(* No step leaves a record of a call that has not come in.                  *)
LEMMA TracesKept ==
  ASSUME APIInv, Next \/ UNCHANGED vars \/ Opens
  PROVE  (\A k \in Keys : Traced(redis[k]))' /\ (\A w \in late : Traced(w.rec))'
  <1>1. /\ \A k \in Keys : Past(redis[k], step)
        /\ \A w \in late : Past(w.rec, step)
    BY DEF APIInv, Traced, Past
  <1>2. Past(NoRecord, step)
    BY RecordAssumption DEF Past
  <1>3. \A c \in Calls : step[c] # "idle" =>
            Past(Claim(c), step) /\ Past(Completion(c), step)
    BY DEF Past, Claim, Completion
  <1>4. ASSUME NEW c \in Calls, NEW w \in Sent(c) PROVE Past(w.rec, step)
    <2>1. CASE step[c] = "setnx"
      BY <1>3, <1>4, <2>1, SMT DEF Sent
    <2>2. CASE step[c] = "complete"
      BY <1>3, <1>4, <2>2, SMT DEF Sent
    <2>3. CASE step[c] = "release"
      BY <1>2, <1>4, <2>3, SMT DEF Sent
    <2> QED BY <1>4, <2>1, <2>2, <2>3 DEF Sent
  <1>5. /\ \A k \in Keys : Past(redis'[k], step)
        /\ \A w \in late' : Past(w.rec, step)
    <2>1. CASE Next
      BY <1>1, <1>2, <1>3, <1>4, <2>1, RedisEffects DEF APIInv
    <2>2. CASE UNCHANGED vars \/ Opens
      BY <1>1, <2>2 DEF vars, Opens
    <2> QED BY <2>1, <2>2
  <1>6. \A r : Past(r, step) => Past(r, step')
    BY StartedStays DEF APIInv, Past
  <1> QED BY <1>5, <1>6 DEF Traced, Past

(* The interceptors have two ways to turn a request away.                   *)
LEMMA AdmittedIs ==
  \A h : Admitted(h) \in {"handler", "Unauthenticated", "PermissionDenied"}
  BY DEF Admitted, Intercept

(* An error is never reported as success.                                   *)
LEMMA CodesOfErrors ==
  /\ \A e : "OK" \notin toStatus(e)
  /\ toStatus("Failed") \subseteq Open
  /\ \A s : Status(s).code = s
  BY DEF toStatus, Open, Status

(* The reply v of a call that is at step st with result res.                *)
Faithful(v, st, res) ==
    v # NoReply =>
        \/ /\ st = "idle"
           /\ \E s \in {"Unauthenticated", "PermissionDenied",
                        "InvalidArgument"} : v = Status(s)
        \/ /\ st = "done"
           /\ res.kind \in {"Posted", "Replayed"}
           /\ v = [code |-> "OK", transfer |-> res.transfer,
                   replay |-> res.kind = "Replayed"]
        \/ /\ st = "done"
           /\ res.kind \notin {"Posted", "Replayed"}
           /\ \E s \in toStatus(res.kind) : v = Status(s)

(* Faithful is ReplyOK, now and in the next state.                          *)
LEMMA ReplyIsFaithful ==
  /\ \A c : ReplyOK(c) <=> Faithful(reply[c], step[c], result[c])
  /\ \A c : ReplyOK(c)' <=> Faithful(reply'[c], step'[c], result'[c])
  BY DEF ReplyOK, Faithful

(* A step that is not about CreateTransfer leaves its answers alone.        *)
LEMMA RepliesStay ==
  ASSUME APIInv, UNCHANGED <<header, reply>>,
         Below \/ UNCHANGED vars \/ Opens
  PROVE  \A c \in Calls : ReplyOK(c)' /\ EntryOK(c)'
  <1> SUFFICES ASSUME NEW c \in Calls PROVE ReplyOK(c)' /\ EntryOK(c)'
    OBVIOUS
  <1>1. IdemInv /\ ReplyOK(c) /\ EntryOK(c)
    BY DEF APIInv
  <1>2. step[c] \in {"idle", "done"} => step'[c] = step[c] /\ result'[c] = result[c]
    BY <1>1, SettledStays DEF vars, Opens
  <1>3. ReplyOK(c)'
    <2>1. Faithful(reply[c], step[c], result[c])
      BY <1>1, ReplyIsFaithful
    <2>2. Faithful(reply'[c], step'[c], result'[c])
      BY <1>2, <2>1 DEF Faithful
    <2> QED BY <2>2, ReplyIsFaithful
  <1>4. EntryOK(c)'
    BY <1>1, <1>2 DEF EntryOK, Admitted
  <1> QED BY <1>3, <1>4

(* CreateTransfer answers for itself or hands over to PostIdempotent.       *)
LEMMA CreateTransferOK ==
  ASSUME APIInv, NEW c \in Calls, NEW h \in Headers,
         NEW k \in Keys \cup BadKeys, NEW m \in Commands,
         CreateTransfer(c, h, k, m)
  PROVE  \A d \in Calls : ReplyOK(d)' /\ EntryOK(d)'
  <1>1. IdemInv /\ \A d \in Calls : ReplyOK(d) /\ EntryOK(d)
    BY DEF APIInv
  <1>2. /\ step[c] = "idle" /\ reply[c] = NoReply
        /\ header'[c] = h /\ \A d \in Calls \ {c} : header'[d] = header[d]
    BY DEF CreateTransfer, APIInv
  <1>3. ASSUME NEW d \in Calls \ {c}
        PROVE  /\ reply'[d] = reply[d]
               /\ step'[d] = step[d] /\ result'[d] = result[d]
    <2>1. reply'[d] = reply[d]
      BY DEF CreateTransfer, APIInv
    <2>2. UNCHANGED vars \/ Call(c, k, m)
      BY DEF CreateTransfer
    <2>3. Call(c, k, m) => Still(d)
      BY <1>1, OnlyOne
    <2> QED BY <2>1, <2>2, <2>3 DEF Still, vars
  <1>4. ASSUME NEW d \in Calls \ {c} PROVE ReplyOK(d)' /\ EntryOK(d)'
    <2>1. ReplyOK(d)'
      BY <1>1, <1>3, ReplyIsFaithful
    <2>2. EntryOK(d)'
      BY <1>1, <1>2, <1>3 DEF EntryOK, Admitted
    <2> QED BY <2>1, <2>2
  <1>5. CASE Call(c, k, m) /\ UNCHANGED reply /\ Admitted(h) = "handler"
    <2>1. ReplyOK(c)'
      BY <1>2, <1>5, ReplyIsFaithful DEF Faithful
    <2>2. EntryOK(c)'
      BY <1>2, <1>5 DEF EntryOK, Admitted
    <2> QED BY <1>4, <2>1, <2>2
  <1>6. ASSUME NEW s \in {"Unauthenticated", "PermissionDenied",
                          "InvalidArgument"},
               reply' = [reply EXCEPT ![c] = Status(s)], UNCHANGED vars
        PROVE  ReplyOK(c)' /\ EntryOK(c)'
    <2>1. reply'[c] = Status(s) /\ step'[c] = "idle"
      BY <1>2, <1>6 DEF APIInv, vars
    <2>2. ReplyOK(c)'
      BY <2>1, ReplyIsFaithful DEF Faithful
    <2> QED BY <2>1, <2>2 DEF EntryOK
  <1> QED BY <1>4, <1>5, <1>6, AdmittedIs DEF CreateTransfer

(* The answer is what PostIdempotent returned.                              *)
LEMMA RespondOK ==
  ASSUME APIInv, NEW c \in Calls, Respond(c)
  PROVE  \A d \in Calls : ReplyOK(d)' /\ EntryOK(d)'
  <1>1. /\ \A d \in Calls : ReplyOK(d) /\ EntryOK(d)
        /\ step[c] = "done" /\ UNCHANGED <<step, result, header>>
    BY DEF APIInv, Respond, vars
  <1>2. ASSUME NEW d \in Calls PROVE EntryOK(d)'
    BY <1>1 DEF EntryOK, Admitted
  <1>3. ASSUME NEW d \in Calls \ {c} PROVE ReplyOK(d)'
    <2>1. reply'[d] = reply[d]
      BY DEF Respond, APIInv
    <2> QED BY <1>1, <2>1, ReplyIsFaithful
  <1>4. ReplyOK(c)'
    <2>1. \A v : reply' = [reply EXCEPT ![c] = v] => reply'[c] = v
      BY DEF APIInv
    <2>2. Faithful(reply'[c], step[c], result[c])
      BY <1>1, <2>1 DEF Respond, Faithful, IsReplay, StatusOf
    <2> QED BY <1>1, <2>2, ReplyIsFaithful
  <1> QED BY <1>2, <1>3, <1>4

(****************************************************************************)
(* The readers                                                              *)
(****************************************************************************)
(* Who is told OK is told of a transfer that is in the table.               *)
LEMMA OKReplies ==
  ASSUME APIInv, NEW c \in Calls, reply[c] # NoReply, reply[c].code = "OK"
  PROVE  /\ result[c].kind \in {"Posted", "Replayed"}
         /\ reply[c].transfer = result[c].transfer
         /\ reply[c].replay = (result[c].kind = "Replayed")
         /\ result[c].transfer \in RowsOf(Key(c))
         /\ result[c].kind = "Posted" => result[c].transfer.id[1] = c
  <1>1. IdemInv /\ ReplyOK(c) /\ StepOK(c)
    BY DEF APIInv, IdemInv
  <1>2. \A s : reply[c] = Status(s) => s = "OK"
    BY CodesOfErrors
  <1>3. /\ result[c].kind \in {"Posted", "Replayed"}
        /\ reply[c] = [code |-> "OK", transfer |-> result[c].transfer,
                       replay |-> result[c].kind = "Replayed"]
    BY <1>1, <1>2, CodesOfErrors DEF ReplyOK
  <1> QED BY <1>1, <1>3, SMT DEF StepOK

(* Every transfer that a client was told of is in the table.                *)
LEMMA ToldIsThere == APIInv => Told \subseteq transfers
  <1> SUFFICES ASSUME APIInv, NEW c \in Calls, reply[c] # NoReply,
                      reply[c].code = "OK"
               PROVE  reply[c].transfer \in transfers
    BY DEF Told
  <1>1. reply[c].transfer \in RowsOf(Key(c))
    BY OKReplies
  <1> QED BY <1>1 DEF RowsOf

(* What was true of an answer stays true while the tables grow.             *)
LEMMA FairStays ==
  ASSUME Grown, NEW v, Fair(v, transfers, entries)
  PROVE  Fair(v, transfers', entries')
  <1>1. transfers \subseteq transfers' /\ entries \subseteq entries'
    BY DEF Grown
  <1>2. CASE v.told \subseteq transfers /\ Explained(v, entries)
    <2> DEFINE Sure(E) == { e \in E : /\ e.account = v.id
                                      /\ \E t \in v.told : t.id = e.transfer }
               Mine(E) == { e \in E : e.account = v.id }
    <2>1. Sure(entries') = Sure(entries)
      BY <1>1, <1>2 DEF Grown
    <2>2. Mine(entries) \subseteq Mine(entries')
      BY <1>1
    <2>3. ASSUME v.code = "OK"
          PROVE  \E S \in SUBSET Mine(entries') :
                    /\ Sure(entries') \subseteq S
                    /\ \A row \in v.got : row.balance = Funding[v.id] + SumOf(S)
      <3>1. PICK S \in SUBSET Mine(entries) :
                    /\ Sure(entries) \subseteq S
                    /\ \A row \in v.got : row.balance = Funding[v.id] + SumOf(S)
        BY <1>2, <2>3 DEF Explained
      <3>2. S \in SUBSET Mine(entries') /\ Sure(entries') \subseteq S
        BY <2>1, <2>2, <3>1
      <3> QED BY <3>1, <3>2
    <2>4. Explained(v, entries')
      BY <2>3 DEF Explained
    <2> QED BY <1>1, <1>2, <2>4 DEF Fair
  <1> QED BY <1>1, <1>2 DEF Fair

(* Of a transfer in the table, both entries are there.                      *)
LEMMA BothEntries ==
  ASSUME IdemInv, TablesOK, NEW t \in transfers
  PROVE  /\ Cardinality({ e \in entries : e.transfer = t.id }) = 2
         /\ SumOf({ e \in entries : e.transfer = t.id }) = 0
         /\ t.status = "completed"
  <1>1. PICK c \in Calls, n \in 1 .. MaxAttempts :
          /\ req[c] # NoReq
          /\ t = TransferRow(<<c, n>>, Cmd(c), Key(c), "completed")
    BY DEF IdemInv, LedgerInv
  <1>2. /\ Cmd(c) \in Commands /\ Validate(Cmd(c)) = "ok"
    <2>1. ask[c] \in Asking /\ Validate(Cmd(c)) = "ok"
      BY <1>1 DEF IdemInv, LedgerInv
    <2> QED BY <2>1 DEF Asking, Cmd
  <1>3. Cmd(c).src # Cmd(c).dst /\ Cmd(c).amount \in Int
    BY <1>2, CommandsAssumption DEF Validate
  <1>4. t.src # t.dst /\ t.amount \in Int /\ t.status = "completed"
    BY <1>1, <1>3 DEF TransferRow
  <1>5. Cardinality(Legs(t.id, t)) = 2 /\ SumOf(Legs(t.id, t)) = 0
    BY <1>4, LegsFacts
  <1>6. { e \in entries : e.transfer = t.id } = Legs(t.id, t)
    BY DEF TablesOK
  <1> QED BY <1>4, <1>5, <1>6

(* The answers that readers are given, in the state they are given in.      *)
Shown(rpc, id, code, got) ==
    [rpc |-> rpc, at |-> "done", id |-> id, told |-> Told, code |-> code,
     got |-> got]

Good(rpc, id, code, got) == Fair(Shown(rpc, id, code, got), transfers, entries)

(* What a reader is answered is true when it is answered.                   *)
LEMMA AnswersAreFair ==
  ASSUME APIInv, NEW id, NEW code, NEW got
  PROVE  /\ code = "NotFound" /\ RowOf(id) = {} =>
              Good("GetTransfer", id, code, got) /\ Good(Lists, id, code, got)
         /\ code = "OK" /\ got = RowOf(id) => Good("GetTransfer", id, code, got)
         /\ Good("CreateAccount", id, code, got)
         /\ code = "NotFound" /\ id \in Accounts =>
               Good("GetAccount", id, code, got)
         /\ code = "OK" /\ id \in Accounts /\ accounts[id] # NoRow
               /\ got = {accounts[id]} => Good("GetAccount", id, code, got)
  <1> DEFINE v(rpc) == Shown(rpc, id, code, got)
  <1>1. \A rpc : /\ v(rpc).rpc = rpc /\ v(rpc).at = "done" /\ v(rpc).id = id
                 /\ v(rpc).told = Told /\ v(rpc).code = code
                 /\ v(rpc).got = got
    BY DEF Shown
  <1> HIDE DEF v
  <1>2. IdemInv /\ TablesOK /\ Told \subseteq transfers
    BY ToldIsThere DEF APIInv
  <1>3. ASSUME code = "NotFound", RowOf(id) = {}
        PROVE  \A rpc : Whole(v(rpc))
    BY <1>1, <1>2, <1>3 DEF Whole, RowOf
  <1>4. ASSUME code = "OK", got = RowOf(id) PROVE Whole(v("GetTransfer"))
    <2>1. \A t \in got : t.status = "completed"
      BY <1>2, <1>4, BothEntries DEF RowOf
    <2> QED BY <1>1, <1>4, <2>1 DEF Whole
  <1>5. ASSUME code = "OK", id \in Accounts, accounts[id] # NoRow,
               got = {accounts[id]}
        PROVE  Explained(v("GetAccount"), entries)
    <2> DEFINE S == { e \in entries : e.account = id }
    <2>1. accounts[id].balance = Funding[id] + SumOf(S)
      BY <1>2, <1>5
      DEF TablesOK, Reconciled, findBalanceMismatches, Present, LedgerMinor
    <2> DEFINE w == v("GetAccount")
    <2>2. /\ S \in SUBSET S
          /\ { e \in entries : /\ e.account = id
                               /\ \E t \in Told : t.id = e.transfer } \subseteq S
      OBVIOUS
    <2>3. w.id = id /\ w.told = Told /\ w.code = code /\ w.got = {accounts[id]}
      BY <1>1, <1>5
    <2>4. \A row \in w.got : row.balance = Funding[w.id] + SumOf(S)
      BY <2>1, <2>3
    <2> HIDE DEF w
    <2> QED BY <2>2, <2>3, <2>4 DEF Explained, w
  <1>6. code = "NotFound" => Explained(v("GetAccount"), entries)
    BY <1>1 DEF Explained
  <1>7. /\ code = "NotFound" /\ RowOf(id) = {} =>
              /\ Fair(v("GetTransfer"), transfers, entries)
              /\ Fair(v(Lists), transfers, entries)
        /\ code = "OK" /\ got = RowOf(id) =>
              Fair(v("GetTransfer"), transfers, entries)
        /\ Fair(v("CreateAccount"), transfers, entries)
        /\ code = "NotFound" /\ id \in Accounts =>
              Fair(v("GetAccount"), transfers, entries)
        /\ code = "OK" /\ id \in Accounts /\ accounts[id] # NoRow
              /\ got = {accounts[id]} => Fair(v("GetAccount"), transfers, entries)
    BY <1>1, <1>2, <1>3, <1>4, <1>5, <1>6 DEF Fair
  <1> QED BY <1>7 DEF v, Good

(* What a reader knows while a step is taken that is not its own.           *)
LEMMA LooksStay ==
  ASSUME APIInv, Grown, UNCHANGED look
  PROVE  \A r \in Readers : Fair(look'[r], transfers', entries')
  BY FairStays DEF APIInv

(* A reader goes on, or is answered.                                        *)
LEMMA LooksChange ==
  ASSUME APIInv, Grown, NEW r \in Readers, NEW v, Fair(v, transfers, entries),
         look' = [look EXCEPT ![r] = v]
  PROVE  /\ DOMAIN look' = Readers
         /\ \A s \in Readers : Fair(look'[s], transfers', entries')
  <1>1. DOMAIN look = Readers
    BY DEF APIInv
  <1>2. DOMAIN look' = Readers /\ look'[r] = v
        /\ \A s \in Readers \ {r} : look'[s] = look[s]
    BY <1>1
  <1>3. \A s \in Readers : Fair(look'[s], transfers, entries)
    BY <1>2 DEF APIInv
  <1> QED BY <1>2, <1>3, FairStays

(* Every step of the API leaves the readers with true answers.              *)
LEMMA ReadersKept ==
  ASSUME APIInv, APINext, Grown
  PROVE  /\ DOMAIN look' = Readers
         /\ \A r \in Readers : Fair(look'[r], transfers', entries')
  <1> DEFINE Goal == /\ DOMAIN look' = Readers
                     /\ \A r \in Readers : Fair(look'[r], transfers', entries')
  <1>0. UNCHANGED look => Goal
    BY LooksStay DEF APIInv
  <1>1. ASSUME NEW r \in Readers, NEW v, Fair(v, transfers, entries),
               look' = [look EXCEPT ![r] = v]
        PROVE  Goal
    BY <1>1, LooksChange
  <1>2. ASSUME NEW r \in Readers, NEW rpc, NEW id, NEW code, NEW got,
               Answered(r, rpc, id, code, got), Good(rpc, id, code, got)
        PROVE  Goal
    BY <1>1, <1>2 DEF Answered, Good, Shown
  <1>3. ASSUME NEW r \in Readers, NEW s,
               look' = [look EXCEPT ![r] =
                          [rpc |-> "any", at |-> "done", code |-> s]]
        PROVE  Goal
    <2>1. Fair([rpc |-> "any", at |-> "done", code |-> s], transfers, entries)
      BY DEF Fair
    <2> QED BY <1>1, <1>3, <2>1
  <1> SUFFICES Goal
    OBVIOUS
  <1> HIDE DEF Goal
  <1>4. CASE \/ \E c \in Calls, h \in Headers, k \in Keys \cup BadKeys,
                   m \in Commands : CreateTransfer(c, h, k, m)
             \/ Below
             \/ \E c \in Calls : Respond(c)
    BY <1>0, <1>4 DEF CreateTransfer, Below, Respond
  <1>5. CASE \E r \in Readers, rpc \in Payments \ {"CreateTransfer"},
                h \in Headers : Turned(r, rpc, h)
    BY <1>3, <1>5 DEF Turned
  <1>6. CASE \E r \in Readers, h \in Headers, a \in Accounts,
                cur \in Currencies : CreateAccount(r, h, a, cur)
    BY <1>2, <1>6, AnswersAreFair DEF CreateAccount
  <1>7. ASSUME NEW r \in Readers, NEW h \in Headers, NEW a \in Accounts,
               GetAccount(r, h, a)
        PROVE  Goal
    <2>1. CASE accounts[a] = NoRow
      <3>1. Answered(r, "GetAccount", a, "NotFound", {})
        BY <1>7, <2>1 DEF GetAccount, CurrentRow
      <3>2. Good("GetAccount", a, "NotFound", {})
        BY AnswersAreFair
      <3> QED BY <1>2, <3>1, <3>2
    <2>2. CASE accounts[a] # NoRow
      <3>1. Answered(r, "GetAccount", a, "OK", {accounts[a]})
        BY <1>7, <2>2 DEF GetAccount, CurrentRow
      <3>2. Good("GetAccount", a, "OK", {accounts[a]})
        BY <2>2, AnswersAreFair
      <3> QED BY <1>2, <3>1, <3>2
    <2> QED BY <2>1, <2>2
  <1>8. ASSUME NEW r \in Readers, NEW h \in Headers, NEW id \in TransferIDs,
               GetTransfer(r, h, id)
        PROVE  Goal
    <2>1. CASE RowOf(id) = {}
      <3>1. Answered(r, "GetTransfer", id, "NotFound", {})
        BY <1>8, <2>1 DEF GetTransfer
      <3>2. Good("GetTransfer", id, "NotFound", {})
        BY <2>1, AnswersAreFair
      <3> QED BY <1>2, <3>1, <3>2
    <2>2. CASE RowOf(id) # {}
      <3>1. Answered(r, "GetTransfer", id, "OK", RowOf(id))
        BY <1>8, <2>2 DEF GetTransfer
      <3>2. Good("GetTransfer", id, "OK", RowOf(id))
        BY AnswersAreFair
      <3> QED BY <1>2, <3>1, <3>2
    <2> QED BY <2>1, <2>2
  <1>9. ASSUME NEW r \in Readers, NEW h \in Headers, NEW id \in TransferIDs,
               ListEntries(r, h, id)
        PROVE  Goal
    <2>1. CASE ~Exists(id)
      <3>1. Answered(r, Lists, id, "NotFound", {})
        BY <1>9, <2>1 DEF ListEntries, Lists
      <3>2. Good(Lists, id, "NotFound", {})
        BY <2>1, AnswersAreFair DEF Exists
      <3> QED BY <1>2, <3>1, <3>2
    <2>2. CASE Exists(id)
      <3> DEFINE v == [rpc |-> "ListLedgerEntriesForTransfer",
                       at |-> "entries", id |-> id, told |-> Told]
      <3>1. \E t \in transfers : t.id = id
        BY <2>2 DEF Exists, RowOf
      <3>2. Fair(v, transfers, entries)
        BY <3>1 DEF Fair, Lists
      <3>3. look' = [look EXCEPT ![r] = v]
        BY <1>9, <2>2 DEF ListEntries
      <3> QED BY <1>1, <3>2, <3>3
    <2> QED BY <2>1, <2>2
  <1>10. ASSUME NEW r \in Readers, EntriesForTransfer(r)
         PROVE  Goal
    <2> DEFINE u == look[r]
               v == [rpc |-> u.rpc, at |-> "done", id |-> u.id,
                     told |-> u.told, code |-> "OK",
                     got |-> { e \in entries : e.transfer = u.id }]
    <2>1. u.at = "entries" /\ Fair(u, transfers, entries) /\ DOMAIN look = Readers
      BY <1>10 DEF EntriesForTransfer, APIInv
    <2>2. NoLook.at = "idle"
      BY DEF NoLook
    <2>3. u.rpc = Lists /\ \E t \in transfers : t.id = u.id
      BY <2>1, <2>2 DEF Fair
    <2>4. Cardinality({ e \in entries : e.transfer = u.id }) = 2
          /\ SumOf({ e \in entries : e.transfer = u.id }) = 0
      BY <2>3, BothEntries DEF APIInv
    <2>5. v.rpc = Lists /\ v.at = "done" /\ v.code = "OK"
          /\ v.got = { e \in entries : e.transfer = u.id }
      BY <2>3
    <2>6. look' = [look EXCEPT ![r] = v]
      BY <1>10, <2>1 DEF EntriesForTransfer
    <2> HIDE DEF v, u
    <2>7. Fair(v, transfers, entries)
      BY <2>4, <2>5 DEF Fair, Whole, Lists
    <2> QED BY <1>1, <2>6, <2>7
  <1>11. CASE \E r \in Readers : EntriesFail(r)
    BY <1>3, <1>11 DEF EntriesFail
  <1> QED
    BY <1>4, <1>5, <1>6, <1>7, <1>8, <1>9, <1>10, <1>11 DEF APINext

(****************************************************************************)
(* The invariant                                                            *)
(****************************************************************************)
(* The invariant holds when the process starts.                             *)
LEMMA APIStart == APIInit => APIInv
  <1> SUFFICES ASSUME APIInit PROVE APIInv
    OBVIOUS
  <1>1. Init /\ IdemInv /\ TablesOK
    BY InitOK, TablesStart DEF APIInit
  <1>2. /\ DOMAIN header = Calls /\ DOMAIN reply = Calls /\ DOMAIN look = Readers
        /\ \A r \in Readers : look[r] = NoLook
        /\ \A c \in Calls : reply[c] = NoReply /\ step[c] = "idle"
    BY <1>1 DEF APIInit, Init
  <1>3. \A c \in Calls : ReplyOK(c) /\ EntryOK(c)
    BY <1>2 DEF ReplyOK, EntryOK
  <1>4. \A r \in Readers : Fair(look[r], transfers, entries)
    BY <1>2 DEF Fair
  <1>5. \A k \in Keys : Traced(redis[k])
    <2>1. \A k \in Keys : redis[k] \in Leftovers
      BY <1>1 DEF Init
    <2>2. NoCall \notin Calls
      BY NullsAssumption
    <2> QED BY <2>1, <2>2, RecordAssumption DEF Traced
  <1>6. late = {}
    BY <1>1 DEF Init
  <1> QED BY <1>1, <1>2, <1>3, <1>4, <1>5, <1>6 DEF APIInv

(* Every step keeps it.                                                     *)
LEMMA APIStep == APIInv /\ [APINext]_apiVars => APIInv'
  <1> SUFFICES ASSUME APIInv, [APINext]_apiVars PROVE APIInv'
    OBVIOUS
  <1>1. CASE UNCHANGED apiVars
    <2>1. UNCHANGED vars /\ UNCHANGED <<header, reply, look>>
      BY <1>1 DEF apiVars
    <2>2. IdemInv' /\ TablesOK' /\ Grown
      BY <2>1, IdemKept, TablesKept DEF APIInv
    <2>3. \A c \in Calls : ReplyOK(c)' /\ EntryOK(c)'
      BY <2>1, RepliesStay
    <2>4. (\A k \in Keys : Traced(redis[k]))' /\ (\A w \in late : Traced(w.rec))'
      BY <2>1, TracesKept
    <2>5. \A r \in Readers : Fair(look'[r], transfers', entries')
      BY <2>1, <2>2, LooksStay
    <2> QED BY <2>1, <2>2, <2>3, <2>4, <2>5 DEF APIInv
  <1>2. CASE APINext
    <2>1. Next \/ UNCHANGED vars \/ Opens
      BY <1>2, APIKinds
    <2>2. IdemInv' /\ TablesOK' /\ Grown
      BY <2>1, IdemKept, TablesKept DEF APIInv
    <2>3. (\A k \in Keys : Traced(redis[k]))' /\ (\A w \in late : Traced(w.rec))'
      BY <2>1, TracesKept
    <2>4. /\ DOMAIN look' = Readers
          /\ \A r \in Readers : Fair(look'[r], transfers', entries')
      BY <1>2, <2>2, ReadersKept
    <2>5. \/ \E c \in Calls, h \in Headers, k \in Keys \cup BadKeys,
                m \in Commands : CreateTransfer(c, h, k, m)
          \/ \E c \in Calls : Respond(c)
          \/ UNCHANGED <<header, reply>> /\ (Below \/ UNCHANGED vars \/ Opens)
      <3>1. CASE \E r \in Readers, h \in Headers, a \in Accounts,
                    cur \in Currencies : CreateAccount(r, h, a, cur)
        BY <3>1 DEF CreateAccount, Opens
      <3>2. CASE Below
        BY <3>2 DEF Below
      <3> QED BY <1>2, <3>1, <3>2 DEF APINext, Turned, GetAccount,
                 GetTransfer, ListEntries, EntriesForTransfer, EntriesFail
    <2>6. \A c \in Calls : ReplyOK(c)' /\ EntryOK(c)'
      BY <2>5, CreateTransferOK, RespondOK, RepliesStay
    <2>7. DOMAIN header' = Calls /\ DOMAIN reply' = Calls
      <3>1. DOMAIN header = Calls /\ DOMAIN reply = Calls
        BY DEF APIInv
      <3>2. ASSUME NEW c \in Calls, NEW h \in Headers,
                   NEW k \in Keys \cup BadKeys, NEW m \in Commands,
                   CreateTransfer(c, h, k, m)
            PROVE  DOMAIN header' = Calls /\ DOMAIN reply' = Calls
        BY <3>1, <3>2 DEF CreateTransfer
      <3>3. ASSUME NEW c \in Calls, Respond(c)
            PROVE  DOMAIN header' = Calls /\ DOMAIN reply' = Calls
        BY <3>1, <3>3 DEF Respond
      <3> QED BY <2>5, <3>1, <3>2, <3>3
    <2> QED BY <2>2, <2>3, <2>4, <2>6, <2>7 DEF APIInv
  <1> QED BY <1>1, <1>2

(****************************************************************************)
(* The theorems                                                             *)
(****************************************************************************)
(* The invariant of the API over PostIdempotent and the tables holds at     *)
(* every step of CreateTransfer, of the other RPCs and of what is below     *)
(* them.                                                                    *)
THEOREM APIInductive == APISpec => []APIInv
  BY APIStart, APIStep, PTL DEF APISpec

(* Only OK, CANCELED, DEADLINE_EXCEEDED and INTERNAL leave room for a       *)
(* payment: after any other answer of CreateTransfer there is none.         *)
THEOREM CodesProved == APISpec => []CodesAreTrue
  <1>1. APIInv => CodesAreTrue
    <2> SUFFICES ASSUME APIInv, NEW c \in Calls, Replied(c),
                        reply[c].code \notin Open
                 PROVE  L!CommittedBy(c) = {}
      BY DEF CodesAreTrue
    <2>1. IdemInv /\ StepOK(c) /\ ReplyOK(c)
      BY DEF APIInv, IdemInv
    <2>2. Closed(c) => L!CommittedBy(c) = {}
      BY <2>1 DEF IdemInv, LedgerInv
    <2>3. reply[c] # [code |-> "OK", transfer |-> result[c].transfer,
                      replay |-> result[c].kind = "Replayed"]
      BY SMT DEF Open
    <2>4. CASE step[c] = "idle"
      BY <2>1, <2>2, <2>4 DEF StepOK, Closed
    <2>5. CASE /\ step[c] = "done" /\ result[c].kind \notin {"Posted", "Replayed"}
               /\ \E s \in toStatus(result[c].kind) : reply[c] = Status(s)
      <3>1. result[c].kind # "Failed"
        BY <2>5, CodesOfErrors
      <3> QED BY <2>1, <2>2, <2>5, <3>1 DEF StepOK
    <2> QED BY <2>1, <2>3, <2>4, <2>5 DEF ReplyOK, Replied
  <1> QED BY <1>1, APIInductive, PTL

(* What the interceptors let through to CreateTransfer.                     *)
LEMMA AdmittedFacts ==
  ASSUME NEW h, Admitted(h) = "handler"
  PROVE  /\ h \notin {Unset, Empty, Blank, Junk}
         /\ "transfers:write" \in h.bearer.scope \cup h.bearer.scp
         /\ h.bearer.key = Verifier.key
         /\ Now < h.bearer.exp + Verifier.leeway
  <1> DEFINE p == authenticate(Verifier, h, Now)
  <1>1. requiredScopes["CreateTransfer"] = "transfers:write"
    BY DEF requiredScopes
  <1>2. p.error = "" /\ HasScope("CreateTransfer", p)
    BY DEF Admitted, Intercept, isUnauthenticated
  <1>3. HasToken(h) /\ p = Verify(Verifier, h.bearer, Now)
    BY <1>2 DEF authenticate
  <1>4. /\ Parses(Verifier, h.bearer, Now)
        /\ p.scopes = h.bearer.scope \cup h.bearer.scp
    <2>1. CASE Parses(Verifier, h.bearer, Now)
                 /\ h.bearer.sub \notin {Empty, Blank}
      <3>1. p = [error |-> "", scopes |-> h.bearer.scope \cup h.bearer.scp]
        BY <1>3, <2>1 DEF Verify
      <3>2. \A x : [error |-> "", scopes |-> x].scopes = x
        OBVIOUS
      <3> QED BY <2>1, <3>1, <3>2
    <2>2. CASE ~(Parses(Verifier, h.bearer, Now)
                   /\ h.bearer.sub \notin {Empty, Blank})
      <3>1. p = [error |-> "ErrInvalidToken", scopes |-> {}]
        BY <1>3, <2>2 DEF Verify
      <3> QED BY <1>2, <3>1, SMT
    <2> QED BY <2>1, <2>2
  <1>5. "transfers:write" \in p.scopes
    BY <1>1, <1>2 DEF HasScope
  <1> QED BY <1>3, <1>4, <1>5 DEF HasToken, Parses

(* Whoever left a transfer, a record in Redis or a write on its way to it   *)
(* came with a token signed with the service's key, in time and with the    *)
(* scope that CreateTransfer requires.                                      *)
THEOREM AdmissionProved == APISpec => []OnlyAdmittedLeaveTraces
  <1>1. APIInv => OnlyAdmittedLeaveTraces
    <2> SUFFICES ASSUME APIInv, NEW c \in Calls,
                        \/ L!CommittedBy(c) # {}
                        \/ \E k \in Keys : redis[k] \in Record /\ redis[k].by = c
                        \/ \E w \in late : w.rec \in Record /\ w.rec.by = c
                 PROVE  Admitted(header[c]) = "handler"
      BY AdmittedFacts DEF OnlyAdmittedLeaveTraces
    <2>1. L!CommittedBy(c) # {} => step[c] # "idle"
      BY DEF APIInv, IdemInv, LedgerInv, StepOK, Closed
    <2>2. step[c] # "idle"
      BY <2>1 DEF APIInv, Traced
    <2> QED BY <2>2 DEF APIInv, EntryOK
  <1> QED BY <1>1, APIInductive, PTL

(* All clients told OK under one idempotency key hold the same transfer,    *)
(* and at most one of them is not told that it is a replay.                 *)
THEOREM FreshReplyProved == APISpec => []OneFreshReply
  <1>1. APIInv => OneFreshReply
    <2> SUFFICES ASSUME APIInv, NEW c \in Calls, NEW d \in Calls,
                        OK(c), OK(d), Key(c) = Key(d)
                 PROVE  /\ reply[c].transfer = reply[d].transfer
                        /\ c # d => reply[c].replay \/ reply[d].replay
      BY DEF OneFreshReply
    <2>1. \A b \in {c, d} :
            /\ result[b].kind \in {"Posted", "Replayed"}
            /\ reply[b].transfer = result[b].transfer
            /\ reply[b].replay = (result[b].kind = "Replayed")
            /\ result[b].transfer \in RowsOf(Key(b))
            /\ result[b].kind = "Posted" => result[b].transfer.id[1] = b
      BY OKReplies DEF OK, Replied
    <2>2. result[c].transfer = result[d].transfer
      <3>1. \A t, u \in transfers : t.key = u.key => t = u
        BY DEF APIInv, IdemInv, LedgerInv
      <3> QED BY <2>1, <3>1, SMT DEF RowsOf
    <2>3. c # d => "Replayed" \in {result[c].kind, result[d].kind}
      BY <2>1, <2>2
    <2> QED BY <2>1, <2>2, <2>3
  <1> QED BY <1>1, APIInductive, PTL

(* A transfer that was told of is found, and a list of entries has both     *)
(* legs although it is read in a query of its own.                          *)
THEOREM WholeReadsProved == APISpec => []ReadsAreWhole
  <1>1. APIInv => ReadsAreWhole
    <2> SUFFICES ASSUME APIInv, NEW r \in Readers, look[r].at = "done",
                        look[r].rpc \in {"GetTransfer", Lists}
                 PROVE  Whole(look[r])
      BY DEF ReadsAreWhole, Whole, Lists
    <2>1. NoLook.at = "idle"
      BY DEF NoLook
    <2> QED BY <2>1 DEF APIInv, Fair, Lists
  <1> QED BY <1>1, APIInductive, PTL

(* The balance that GetAccount returns is what the account was opened with  *)
(* and entries that are in the ledger, among them those of every payment    *)
(* that a client had been told of.                                          *)
THEOREM BalanceReadsProved == APISpec => []BalancesIncludeThePayment
  <1>1. APIInv => BalancesIncludeThePayment
    <2> SUFFICES ASSUME APIInv, NEW r \in Readers,
                        look[r].rpc = "GetAccount", look[r].code = "OK"
                 PROVE  LET a    == look[r].id
                            mine == { e \in entries : e.account = a }
                            sure == { e \in mine :
                                        \E t \in look[r].told : t.id = e.transfer }
                            open == IF Opening[a] = NoRow THEN 0
                                    ELSE Opening[a].balance
                        IN  \E S \in SUBSET mine :
                               /\ sure \subseteq S
                               /\ \A row \in look[r].got :
                                     row.balance = open + SumOf(S)
      BY DEF BalancesIncludeThePayment
    <2>1. look[r] # NoLook
      BY SMT DEF NoLook
    <2>2. look[r].id \in Accounts /\ Explained(look[r], entries)
      BY <2>1 DEF APIInv, Fair, Lists
    <2>3. Funding[look[r].id] = IF Opening[look[r].id] = NoRow THEN 0
                                ELSE Opening[look[r].id].balance
      BY <2>2 DEF Funding
    <2>4. { e \in { f \in entries : f.account = look[r].id } :
               \E t \in look[r].told : t.id = e.transfer }
          = { e \in entries : /\ e.account = look[r].id
                              /\ \E t \in look[r].told : t.id = e.transfer }
      OBVIOUS
    <2> QED BY <2>2, <2>3, <2>4 DEF Explained
  <1> QED BY <1>1, APIInductive, PTL
==============================================================================
