--------------------------- MODULE ReconcileProofs ---------------------------
(****************************************************************************)
(* Reconciliation, proved in both directions: nothing escapes               *)
(* findUnbalancedTransfers, whatever rows the constraints of ledger_entries *)
(* let into the table; and the stress tool, which runs all the queries      *)
(* while transfers commit between them, neither reports books that are in   *)
(* order nor passes over money that no entry explains.                      *)
(****************************************************************************)
EXTENDS Audit, Stress, BooksProofs

USE Zenon

(****************************************************************************)
(* The audit query                                                          *)
(****************************************************************************)
(* A COUNT of one names the row.                                            *)
LEMMA OneRow ==
    ASSUME NEW S, IsFiniteSet(S), Cardinality(S) = 1
    PROVE  \E x \in S : S = {x}
  BY FS_Singleton

(* Whatever rows are inserted, the constraints of the table hold of them.   *)
LEMMA AuditInvHolds == AuditSpec => []AuditInv
  <1>1. AuditInit => AuditInv
    <2> SUFFICES ASSUME AuditInit PROVE AuditInv
      OBVIOUS
    <2>1. PICK id \in TransferIDs, m \in Commands :
             /\ Validate(m) = "ok"
             /\ subject = TransferRow(id, m, NoKey, "completed")
      BY DEF AuditInit
    <2>2. subject.amount = m.amount /\ m.amount \in Int
      BY <2>1, CommandsAssumption DEF TransferRow
    <2>3. Validate(subject) = Validate(m)
      BY <2>1 DEF TransferRow, Validate
    <2> QED BY <2>1, <2>2, <2>3 DEF AuditInit, AuditInv, TransferRow
  <1>2. AuditInv /\ [AuditNext]_auditVars => AuditInv'
    BY SMT DEF AuditInv, AuditNext, InsertEntry, Amounts, auditVars, Validate
  <1> QED BY <1>1, <1>2, PTL DEF AuditSpec

(* A reported COUNT is defined only of a finite set of rows.                *)
LEMMA RowsFinite == AuditSpec => []IsFiniteSet(rows)
  <1>1. AuditInit => IsFiniteSet(rows)
    BY FS_EmptySet DEF AuditInit
  <1>2. IsFiniteSet(rows) /\ [AuditNext]_auditVars => IsFiniteSet(rows)'
    BY FS_AddElement, Zenon DEF AuditNext, InsertEntry, auditVars
  <1> QED BY <1>1, <1>2, PTL DEF AuditSpec

(* Nothing escapes the audit, for every set of accounts, currencies and     *)
(* amounts: a completed transfer findUnbalancedTransfers does not report    *)
(* has its debit on the source, its credit on the destination, and no other *)
(* entry.                                                                   *)
THEOREM AuditComplete == AuditSpec => []NothingEscapes
  <1>1. AuditInv /\ IsFiniteSet(rows) => NothingEscapes
    <2> SUFFICES ASSUME AuditInv, IsFiniteSet(rows),
                        findUnbalancedTransfers({subject}, rows) = {}
                 PROVE  rows = Legs(subject.id, subject)
      BY DEF NothingEscapes
    <2> DEFINE own == { e \in rows : e.transfer = subject.id }
               debits == { e \in rows : e.amount < 0 }
               credits == { e \in rows : e.amount > 0 }
    <2>1. own = rows
      BY DEF AuditInv
    <2>2. ~Offends(subject, rows)
      BY <2>1 DEF findUnbalancedTransfers, AuditInv
    <2>3. /\ IsFiniteSet(debits) /\ Cardinality(debits) = 1
          /\ IsFiniteSet(credits) /\ Cardinality(credits) = 1
      BY <2>2, FS_Subset DEF Offends
    <2>4. PICK d \in debits : debits = {d}
      BY <2>3, OneRow
    <2>5. PICK c \in credits : credits = {c}
      BY <2>3, OneRow
    <2>6. rows = {d, c}
      BY <2>4, <2>5, SMT DEF AuditInv
    <2>7. subject.amount \in Int /\ subject.amount > 0
      BY SMT DEF AuditInv, Validate
    <2>8. /\ d.account = subject.src /\ d.amount = -subject.amount
          /\ c.account = subject.dst /\ c.amount = subject.amount
      BY <2>2, <2>6, <2>7, SMT DEF Offends, AuditInv
    <2>9. d.currency = subject.currency /\ c.currency = subject.currency
      BY <2>2, <2>6 DEF Offends
    <2>10. d = [transfer |-> subject.id, account |-> subject.src,
                amount |-> -subject.amount, currency |-> subject.currency]
      BY <2>6, <2>8, <2>9 DEF AuditInv
    <2>11. c = [transfer |-> subject.id, account |-> subject.dst,
                amount |-> subject.amount, currency |-> subject.currency]
      BY <2>6, <2>8, <2>9 DEF AuditInv
    <2> QED BY <2>6, <2>10, <2>11 DEF Legs
  <1> QED BY <1>1, AuditInvHolds, RowsFinite, PTL

(****************************************************************************)
(* The queries                                                              *)
(****************************************************************************)
(* A transfer creates and destroys no money.                                *)
LEMMA MoveConserves ==
  ASSUME NEW A \in Rows, NEW m, Possible(A, m)
  PROVE  TotalBalance(AfterMove(A, m)) = TotalBalance(A)
  <1>1. Present(AfterMove(A, m)) = Present(A)
    BY MoveFacts
  <1>2. m.src \in Present(A) /\ m.dst \in Present(A)
    BY DEF Possible
  <1>3. Held(AfterMove(A, m), Present(A)) = Held(A, Present(A))
    BY <1>2, MoveKeeps
  <1> QED BY <1>1, <1>3 DEF TotalBalance, Held

(* The audit has nothing against a transfer with its two legs.              *)
LEMMA LegsDoNotOffend ==
  ASSUME NEW t, t.amount \in Int, t.amount > 0, t.src # t.dst
  PROVE  ~Offends(t, Legs(t.id, t))
  <1> DEFINE S == Legs(t.id, t)
             d == DebitLeg(t.id, t)
             c == CreditLeg(t.id, t)
  <1>1. S = {d, c} /\ Cardinality(S) = 2 /\ SumOf(S) = 0
    BY LegsFacts
  <1>2. /\ d.amount = -t.amount /\ d.account = t.src
        /\ d.currency = t.currency
        /\ c.amount = t.amount /\ c.account = t.dst
        /\ c.currency = t.currency
    BY DEF DebitLeg, CreditLeg
  <1> HIDE DEF S, d, c
  <1>3. { e \in S : e.amount < 0 } = {d} /\ { e \in S : e.amount > 0 } = {c}
    BY <1>1, <1>2, SMT
  <1>4. Cardinality({d}) = 1 /\ Cardinality({c}) = 1
    BY FS_Singleton
  <1>5. ~Offends(t, S)
    BY <1>1, <1>2, <1>3, <1>4 DEF Offends
  <1> QED BY <1>5 DEF S

(* The entries of an account can be summed.                                 *)
LEMMA LedgerInt ==
  ASSUME NEW E, Summable(E)
  PROVE  \A a : LedgerMinor(E, a) \in Int
  <1> TAKE a
  <1> DEFINE Of == { e \in E : e.account = a }
  <1>1. Of \in SUBSET E
    OBVIOUS
  <1> HIDE DEF Of
  <1>2. Summable(Of)
    BY <1>1, FS_Subset DEF Summable
  <1>3. SumOf(Of) \in Int
    BY <1>2, SumOfInt
  <1> QED BY <1>3 DEF Of, LedgerMinor

(* With the baseline that SnapshotBaseline takes, the books reconcile.      *)
LEMMA SnapshotReconciles ==
  ASSUME NEW A \in Rows, NEW E, Summable(E),
         \A e \in E : e.account \in Present(A)
  PROVE  /\ SnapshotBaseline(A, E) \in [Accounts -> Int]
         /\ Reconciled(A, E, SnapshotBaseline(A, E))
  <1> DEFINE B == SnapshotBaseline(A, E)
  <1>1. \A a \in Present(A) : A[a].balance \in Int
    BY SMT DEF Rows, Present, Row
  <1>2. \A a : LedgerMinor(E, a) \in Int
    BY LedgerInt
  <1>3. /\ \A a \in Accounts \ Present(A) : B[a] = 0
        /\ \A a \in Present(A) : B[a] = A[a].balance - LedgerMinor(E, a)
    BY DEF SnapshotBaseline, Present
  <1>4. B = [a \in Accounts |-> B[a]]
    BY DEF SnapshotBaseline
  <1> HIDE DEF B
  <1>5. \A a \in Accounts : B[a] \in Int
    BY <1>1, <1>2, <1>3, SMT
  <1>6. B \in [Accounts -> Int]
    BY <1>4, <1>5
  <1>7. findBalanceMismatches(A, E, B) = {}
    BY <1>1, <1>2, <1>3, SMT DEF findBalanceMismatches
  <1> QED BY <1>3, <1>6, <1>7 DEF Reconciled, B

(* Funds that no entry explains raise the baseline that would reconcile.    *)
LEMMA FundsReconcile ==
  ASSUME NEW A \in Rows, NEW E, NEW B \in [Accounts -> Int],
         Reconciled(A, E, B), NEW x \in Present(A), NEW n \in Nat,
         A[x].balance + n <= MaxBalance
  PROVE  LET N == [A EXCEPT ![x] = Moved(@, n)]
         IN  /\ N \in Rows /\ Present(N) = Present(A)
             /\ Reconciled(N, E, [B EXCEPT ![x] = @ + n])
  <1> DEFINE N == [A EXCEPT ![x] = Moved(@, n)]
             C == [B EXCEPT ![x] = @ + n]
  <1>1. \A a \in Present(A) : A[a] \in Row /\ A[a].balance \in Int
    BY SMT DEF Rows, Present, Row
  <1>2. x \in Accounts
    BY DEF Present
  <1>3. /\ N[x] = Moved(A[x], n) /\ N[x].balance = A[x].balance + n
        /\ \A a \in Accounts \ {x} : N[a] = A[a]
        /\ C[x] = B[x] + n
        /\ \A a \in Accounts \ {x} : C[a] = B[a]
    BY <1>2 DEF Rows, Moved
  <1>4. N[x] \in Row
    BY <1>1, <1>3, BoundsAssumption, SMT DEF Moved, Row
  <1>5. N \in Rows
    BY <1>4 DEF Rows
  <1> HIDE DEF N, C
  <1>6. Present(N) = Present(A)
    BY <1>2, <1>3, <1>4, NullsAssumption DEF Present
  <1>7. \A a \in Present(A) : /\ A[a].balance = B[a] + LedgerMinor(E, a)
                               /\ B[a] \in Int /\ a \in Accounts
    BY DEF Reconciled, findBalanceMismatches, Present
  <1>8. \A a : LedgerMinor(E, a) \in Int
    BY LedgerInt DEF Reconciled
  <1>9. \A a \in Present(N) : N[a].balance = C[a] + LedgerMinor(E, a)
    BY <1>1, <1>3, <1>6, <1>7, <1>8, SMT
  <1>10. Reconciled(N, E, C)
    BY <1>3, <1>6, <1>9 DEF Reconciled, findBalanceMismatches
  <1> QED BY <1>5, <1>6, <1>10 DEF N, C

(****************************************************************************)
(* The inductive invariant of the stress tool                               *)
(****************************************************************************)
(* A command that reaches the database.                                     *)
Sendable(m) ==
    /\ Validate(m) = "ok"
    /\ m.amount \in Int
    /\ m.src \in Accounts /\ m.dst \in Accounts

(* The calls: whichever may still commit is for a transfer that Validate    *)
(* let through.                                                             *)
CallsOK ==
    /\ DOMAIN req = Calls /\ DOMAIN answer = Calls
    /\ \A c \in Calls : req[c] # NoReq /\ answer[c] \in {Pending, "Failed"} =>
                            Sendable(req[c].cmd)

(* The participants: two at least once the setup is over.                   *)
SetupOK ==
    /\ participants \in Seq(Accounts)
    /\ phase \notin {"setup", "fund", "aborted"} => Len(participants) >= 2
    /\ phase = "fund" => Len(participants) \in 1 .. Count
    /\ scenario \in {"oneway", "opposing", "ring"}

(* The tables: every transfer is completed and has its two legs, and no     *)
(* entry is without its transfer.                                           *)
TablesOK ==
    /\ accounts \in Rows
    /\ Summable(entries) /\ SumOf(entries) = 0
    /\ \A e \in entries : /\ e.account \in Present(accounts)
                          /\ \E t \in transfers : t.id = e.transfer
    /\ \A t \in transfers :
          /\ t.amount \in Int /\ t.amount > 0 /\ t.src # t.dst
          /\ { e \in entries : e.transfer = t.id } = Legs(t.id, t)

(* run has taken its baseline.                                              *)
Based == {"before", "execute", "after", "totals", "negative", "unbalanced",
          "mismatches", "emit", "passed", "failed"}

(* The baseline that another funding of account x would have needed.        *)
Raised(x) == [baseline EXCEPT ![x] = @ + Funding]

(* Since the baseline the books reconcile with it, but for what one account *)
(* was funded with.                                                         *)
BaselineOK ==
    /\ baseline \in [Accounts -> Int]
    /\ phase \in Based /\ ~funded => Reconciled(accounts, entries, baseline)
    /\ phase \in Based /\ funded =>
          \E x \in Present(accounts) :
              Funding > 0 /\ Reconciled(accounts, entries, Raised(x))
    /\ phase \in {"setup", "fund", "baseline"} => ~funded

(* The total that ReadBefore saw is still there when ReadAfter looks.       *)
TotalsOK ==
    ~funded =>
        /\ phase \in {"execute", "after"} => totalBefore = Total
        /\ phase \in {"totals", "negative", "unbalanced", "mismatches",
                      "emit", "passed", "failed"} => totalBefore = totalAfter

(* What the queries found, at the time of each.                             *)
ReportOK ==
    /\ report = [totals |-> report.totals, negative |-> {}, unbalanced |-> {},
                 mismatches |-> report.mismatches]
    /\ report.totals.ledger = 0
    /\ phase = "emit" => (report.mismatches # {} <=> funded)

(* The verdict.                                                             *)
VerdictOK ==
    /\ phase = "failed" => \/ funded
                           \/ \E w \in Workload :
                                 /\ answer[w] # Pending
                                 /\ Outcome(answer[w]) = "Unexpected"
    /\ phase = "passed" => ~funded
    /\ phase = "failed" /\ funded => "balance mismatch" \in problems

StressInv ==
    CallsOK /\ SetupOK /\ TablesOK /\ BaselineOK /\ TotalsOK /\ ReportOK
        /\ VerdictOK

(****************************************************************************)
(* The invariant holds at the start                                         *)
(****************************************************************************)
(* The tool starts on books without transfers.                              *)
LEMMA StressStart == Init => StressInv
  <1> SUFFICES ASSUME Init PROVE StressInv
    OBVIOUS
  <1>1. /\ accounts = Opening /\ transfers = {} /\ entries = {}
        /\ req = [c \in Calls |-> NoReq] /\ answer = [c \in Calls |-> Pending]
    BY DEF Init, L!Init, Pending, L!Pending
  <1>2. CallsOK
    BY <1>1 DEF CallsOK
  <1>3. SetupOK
    BY SMT DEF Init, SetupOK
  <1>4. Summable({}) /\ SumOf({}) = 0
    BY FS_EmptySet, SumOfEmpty DEF Summable
  <1>5. TablesOK
    BY <1>1, <1>4, OpeningAssumption DEF TablesOK, Rows
  <1>6. BaselineOK
    BY SMT DEF Init, BaselineOK, Based
  <1>7. TotalsOK /\ VerdictOK
    BY DEF Init, TotalsOK, VerdictOK
  <1>8. ReportOK
    BY DEF Init, ReportOK, NoReport
  <1> QED BY <1>2, <1>3, <1>5, <1>6, <1>7, <1>8 DEF StressInv

(****************************************************************************)
(* The calls and the participants                                           *)
(****************************************************************************)
(* What buildCommands makes of the participants can be sent if Validate     *)
(* lets it through.                                                         *)
LEMMA CommandsBuilt ==
  ASSUME SetupOK, phase = "execute", NEW w \in Workload,
         Validate(buildCommand(w - 1)) = "ok"
  PROVE  Sendable(buildCommand(w - 1))
  <1> DEFINE i == w - 1
             n == Len(participants)
  <1>1. i \in Nat /\ n \in Nat /\ n >= 2 /\ Amount \in Int
    BY WorkloadAssumption, SMT DEF SetupOK, Workload
  <1>2. \A j \in 0 .. n - 1 : participants[j + 1] \in Accounts
    BY <1>1, SMT DEF SetupOK
  <1>3. /\ i % 2 \in 0 .. n - 1 /\ (i + 1) % 2 \in 0 .. n - 1
        /\ i % n \in 0 .. n - 1 /\ (i + 1) % n \in 0 .. n - 1
        /\ 0 \in 0 .. n - 1 /\ 1 \in 0 .. n - 1
    <2> HIDE DEF i, n
    <2>1. \A p \in Nat, q \in Nat \ {0} : p % q \in 0 .. q - 1
      BY SMT
    <2> QED BY <1>1, <2>1, SMT
  <1>4. \A f, t \in 0 .. n - 1 :
          /\ newCmd(f, t).amount \in Int
          /\ newCmd(f, t).src \in Accounts /\ newCmd(f, t).dst \in Accounts
    BY <1>1, <1>2 DEF newCmd
  <1>5. \E f, t \in 0 .. n - 1 : buildCommand(i) = newCmd(f, t)
    BY <1>3 DEF buildCommand, SetupOK
  <1> QED BY <1>4, <1>5 DEF Sendable

(* What clients send can reach the database if Validate lets it through.    *)
LEMMA CommandsSendable ==
  ASSUME NEW m \in Commands, Validate(m) = "ok"
  PROVE  Sendable(m)
  BY CommandsAssumption DEF Validate, Sendable

(* A call is made.                                                          *)
LEMMA InvokeKeepsCalls ==
  ASSUME CallsOK, NEW c \in Calls, NEW k, NEW m,
         Validate(m) = "ok" => Sendable(m), L!Invoke(c, k, m)
  PROVE  CallsOK'
  <1>1. L!Validate(m) = Validate(m) /\ L!Pending = Pending
    BY DEF L!Validate, Validate, L!NilID, NilID, L!Pending, Pending
  <1>2. /\ DOMAIN req' = Calls /\ DOMAIN answer' = Calls
        /\ \A d \in Calls \ {c} : req'[d] = req[d] /\ answer'[d] = answer[d]
        /\ req'[c].cmd = m
        /\ answer'[c] = IF Validate(m) = "ok" THEN Pending ELSE Validate(m)
    BY <1>1 DEF CallsOK, L!Invoke
  <1>3. Validate(m) # "ok" => Validate(m) \notin {Pending, "Failed"}
    BY DEF Validate, Pending
  <1>4. answer'[c] \in {Pending, "Failed"} => Sendable(req'[c].cmd)
    BY <1>2, <1>3
  <1> QED BY <1>2, <1>4 DEF CallsOK, Sendable

(* A call returns.                                                          *)
LEMMA AnswerKeepsCalls ==
  ASSUME CallsOK, NEW c \in Calls, NEW r, L!Answer(c, r)
  PROVE  CallsOK'
  <1>1. /\ req' = req /\ req[c] # NoReq /\ answer[c] = Pending
        /\ answer' = [answer EXCEPT ![c] = r]
    BY DEF L!Answer, L!Pending, Pending
  <1> QED BY <1>1 DEF CallsOK, Sendable

(* No step sends what Validate refused.                                     *)
LEMMA CallsKept ==
  ASSUME StressInv, [Next]_vars
  PROVE  CallsOK'
  <1>0. CallsOK /\ SetupOK
    BY DEF StressInv
  <1>1. ASSUME UNCHANGED <<req, answer>> PROVE CallsOK'
    BY <1>0, <1>1 DEF CallsOK, Sendable
  <1>2. ASSUME NEW w \in Workload, Start(w) PROVE CallsOK'
    <2>1. w \in Calls /\ phase = "execute"
            /\ L!Invoke(w, NoKey, buildCommand(w - 1))
      BY <1>2, WorkloadAssumption DEF Start, Workload
    <2> QED BY <1>0, <2>1, CommandsBuilt, InvokeKeepsCalls
  <1>3. ASSUME NEW w \in Workload, NEW r \in Outcomes, Record(w, r)
        PROVE  CallsOK'
    <2>1. w \in Calls /\ L!Answer(w, r)
      BY <1>3, WorkloadAssumption DEF Record, Workload
    <2> QED BY <1>0, <2>1, AnswerKeepsCalls
  <1>4. ASSUME NEW c \in Calls \ Workload, Elsewhere(c) PROVE CallsOK'
    <2>1. CASE \E m \in Commands, k \in Keys \cup {NoKey} : L!Invoke(c, k, m)
      BY <1>0, <2>1, CommandsSendable, InvokeKeepsCalls
    <2>2. CASE \E r \in Outcomes : L!Answer(c, r)
      BY <1>0, <2>2, AnswerKeepsCalls
    <2> QED BY <1>4, <2>1, <2>2 DEF Elsewhere
  <1>5. CASE \/ UseSupplied \/ TakeBaseline \/ ReadBefore \/ Wait
             \/ ReadAfter \/ Check \/ Emit \/ Abort \/ UNCHANGED vars
    BY <1>1, <1>5 DEF UseSupplied, TakeBaseline, ReadBefore, Wait, ReadAfter,
       Check, Query, Emit, Abort, vars, ledger
  <1>6. CASE FundParticipant \/ \E a \in Accounts : OtherFunds(a)
    BY <1>1, <1>6 DEF FundParticipant, OtherFunds, AddFunds, ledger
  <1>7. CASE \E a \in Accounts : CreateParticipant(a)
    BY <1>1, <1>7 DEF CreateParticipant, L!CreateAccount
  <1>8. CASE \E c \in Calls : Commit(c)
    BY <1>1, <1>8 DEF Commit, L!Commit
  <1> QED BY <1>2, <1>3, <1>4, <1>5, <1>6, <1>7, <1>8 DEF Next

(* The setup ends with two participants or more.                            *)
LEMMA SetupKept ==
  ASSUME StressInv, [Next]_vars
  PROVE  SetupOK'
  <1>0. SetupOK /\ Count \in Nat /\ Count >= 2
    BY WorkloadAssumption, SMT DEF StressInv, Count
  <1>1. CASE UseSupplied
    <2>1. PICK x \in Supplied, y \in Supplied : participants' = <<x, y>>
      BY <1>1, SMT DEF UseSupplied
    <2>2. <<x, y>> \in Seq(Accounts) /\ Len(<<x, y>>) = 2
      BY WorkloadAssumption, SMT
    <2> QED BY <1>0, <1>1, <2>1, <2>2, SMT DEF UseSupplied, Goto, SetupOK
  <1>2. CASE \E a \in Accounts : CreateParticipant(a)
    <2>1. PICK a \in Accounts : CreateParticipant(a)
      BY <1>2
    <2>2. /\ participants' = Append(participants, a)
          /\ Len(participants) < Count
          /\ phase' = "fund" /\ scenario' = scenario
      BY <2>1 DEF CreateParticipant, Goto
    <2>3. /\ Append(participants, a) \in Seq(Accounts)
          /\ Len(Append(participants, a)) = Len(participants) + 1
          /\ Len(participants) \in Nat
      BY <1>0, SMT DEF SetupOK
    <2>4. Len(participants') \in 1 .. Count
      BY <1>0, <2>2, <2>3, SMT
    <2>5. Count' = Count
      BY <2>2 DEF Count
    <2> QED BY <1>0, <2>2, <2>3, <2>4, <2>5 DEF SetupOK
  <1>3. CASE FundParticipant
    <2>1. /\ participants' = participants /\ scenario' = scenario
          /\ phase = "fund"
          /\ phase' = IF Len(participants) = Count THEN "baseline" ELSE "setup"
      BY <1>3 DEF FundParticipant, Goto
    <2> QED BY <1>0, <2>1 DEF SetupOK
  <1>4. ASSUME participants' = participants, scenario' = scenario,
               phase' \notin {"setup", "fund", "aborted"} =>
                   phase \notin {"setup", "fund", "aborted"},
               phase' = "fund" => phase = "fund"
        PROVE  SetupOK'
    BY <1>0, <1>4 DEF SetupOK, Count
  <1>5. CASE \/ TakeBaseline \/ ReadBefore \/ Wait \/ ReadAfter \/ Check
             \/ Emit \/ Abort
    BY <1>4, <1>5 DEF TakeBaseline, ReadBefore, Wait, ReadAfter, Check, Query,
       Emit, Abort, Goto
  <1>6. CASE \/ \E w \in Workload : Start(w)
             \/ \E w \in Workload, r \in Outcomes : Record(w, r)
             \/ \E c \in Calls \ Workload : Elsewhere(c)
             \/ \E c \in Calls : Commit(c)
             \/ \E a \in Accounts : OtherFunds(a)
             \/ UNCHANGED vars
    BY <1>4, <1>6 DEF Start, Goto, Record, Elsewhere, Commit, OtherFunds, vars
  <1> QED BY <1>1, <1>2, <1>3, <1>5, <1>6 DEF Next

(****************************************************************************)
(* The tables                                                               *)
(****************************************************************************)
(* The tables change when an account is created or funded and when a        *)
(* transfer commits, and at no other step.                                  *)
LEMMA RowSteps ==
  ASSUME [Next]_vars
  PROVE  \/ UNCHANGED <<accounts, transfers, entries>>
         \/ \E c \in Calls : Commit(c)
         \/ \E a \in Accounts : CreateParticipant(a)
         \/ FundParticipant
         \/ \E a \in Accounts : OtherFunds(a)
  <1>1. CASE \/ UseSupplied \/ TakeBaseline \/ ReadBefore \/ Wait
             \/ ReadAfter \/ Check \/ Emit \/ Abort \/ UNCHANGED vars
    BY <1>1 DEF UseSupplied, TakeBaseline, ReadBefore, Wait, ReadAfter,
       Check, Query, Emit, Abort, vars, ledger
  <1>2. CASE \/ \E w \in Workload : Start(w)
             \/ \E w \in Workload, r \in Outcomes : Record(w, r)
             \/ \E c \in Calls \ Workload : Elsewhere(c)
    BY <1>2 DEF Start, Record, Elsewhere, L!Invoke, L!Answer
  <1> QED BY <1>1, <1>2 DEF Next

(* The ledger's own vocabulary is that of Books.                            *)
LEMMA SameBooks ==
  /\ \A row, n : L!Moved(row, n) = Moved(row, n)
  /\ \A id, m : L!Legs(id, m) = Legs(id, m)
  /\ \A id, m, k, s : L!TransferRow(id, m, k, s) = TransferRow(id, m, k, s)
  BY DEF L!Moved, Moved, L!Legs, Legs, L!TransferRow, TransferRow

(* What a commit adds to the tables.                                        *)
LEMMA CommitRows ==
  ASSUME CallsOK, TablesOK, NEW c \in Calls, L!Commit(c)
  PROVE  \E id, m, k :
           /\ Possible(accounts, m)
           /\ NewID(id, entries) /\ \A t \in transfers : t.id # id
           /\ accounts' = AfterMove(accounts, m)
           /\ transfers' = transfers \cup {TransferRow(id, m, k, "completed")}
           /\ entries' = entries \cup Legs(id, m)
  <1> DEFINE m == req[c].cmd
             k == req[c].key
  <1>1. /\ req[c] # NoReq /\ L!CommittedBy(c) = {} /\ L!CanPost(m)
        /\ answer[c] \in {Pending, "Failed"}
    BY DEF L!Commit, L!Pending, Pending
  <1>2. Sendable(m)
    BY <1>1 DEF CallsOK
  <1>3. PICK n \in 1 .. MaxAttempts :
          /\ accounts' = [accounts EXCEPT ![m.src] = L!Moved(@, -m.amount),
                                          ![m.dst] = L!Moved(@, m.amount)]
          /\ transfers' = transfers \cup
                 {L!TransferRow(<<c, n>>, m, k, "completed")}
          /\ entries' = entries \cup L!Legs(<<c, n>>, m)
    BY DEF L!Commit
  <1> HIDE DEF m, k
  <1>4. m.src # m.dst /\ m.amount \in Int /\ m.amount > 0
    BY <1>2, SMT DEF Sendable, Validate
  <1>5. Possible(accounts, m)
    BY <1>1, <1>2, <1>4 DEF L!CanPost, Possible, Present, Sendable
  <1>6. \A t \in transfers : t.id # <<c, n>>
    BY <1>1, SMT DEF L!CommittedBy
  <1>7. NewID(<<c, n>>, entries)
    BY <1>6 DEF TablesOK, NewID
  <1>8. accounts' = AfterMove(accounts, m)
    BY <1>3, SameBooks DEF AfterMove
  <1>9. /\ transfers' = transfers \cup
                   {TransferRow(<<c, n>>, m, k, "completed")}
        /\ entries' = entries \cup Legs(<<c, n>>, m)
    BY <1>3, SameBooks
  <1> QED BY <1>5, <1>6, <1>7, <1>8, <1>9

(* A commit leaves every transfer with its two legs, and the total of the   *)
(* balances what it was.                                                    *)
LEMMA CommitKeepsTables ==
  ASSUME CallsOK, TablesOK, NEW c \in Calls, L!Commit(c)
  PROVE  /\ TablesOK'
         /\ Present(accounts') = Present(accounts)
         /\ Total' = Total
         /\ \A B \in [Accounts -> Int] :
               Reconciled(accounts, entries, B) =>
                   Reconciled(accounts', entries', B)
  <1>1. PICK id, m, k :
           /\ Possible(accounts, m)
           /\ NewID(id, entries) /\ \A t \in transfers : t.id # id
           /\ accounts' = AfterMove(accounts, m)
           /\ transfers' = transfers \cup {TransferRow(id, m, k, "completed")}
           /\ entries' = entries \cup Legs(id, m)
    BY CommitRows
  <1> DEFINE T == TransferRow(id, m, k, "completed")
  <1>2. T.id = id /\ T.src = m.src /\ T.dst = m.dst /\ T.amount = m.amount
           /\ T.currency = m.currency
    BY DEF TransferRow
  <1>3. Legs(id, m) = Legs(T.id, T) /\ \A e \in Legs(id, m) : e.transfer = id
    BY <1>2, SMT DEF Legs
  <1>4. /\ m.amount \in Int /\ m.amount > 0 /\ m.src # m.dst
        /\ m.src \in Present(accounts) /\ m.dst \in Present(accounts)
    BY <1>1 DEF Possible
  <1> HIDE DEF T
  <1>5. accounts' \in Rows /\ Present(accounts') = Present(accounts)
    BY <1>1, MoveFacts DEF TablesOK
  <1>6. Summable(entries') /\ SumOf(entries') = 0
    BY <1>1, <1>4, LegsAdd DEF TablesOK
  <1>7. ASSUME NEW e \in entries'
        PROVE  /\ e.account \in Present(accounts)
               /\ \E t \in transfers' : t.id = e.transfer
    <2>1. CASE e \in entries
      BY <1>1, <2>1 DEF TablesOK
    <2>2. CASE e \in Legs(id, m)
      <3>1. e.account \in Present(accounts)
        BY <1>4, <2>2, SMT DEF Legs
      <3>2. T \in transfers' /\ T.id = e.transfer
        BY <1>1, <1>2, <1>3, <2>2 DEF T
      <3> QED BY <3>1, <3>2
    <2> QED BY <1>1, <2>1, <2>2
  <1>8. ASSUME NEW t \in transfers'
        PROVE  /\ t.amount \in Int /\ t.amount > 0 /\ t.src # t.dst
               /\ { e \in entries' : e.transfer = t.id } = Legs(t.id, t)
    <2>1. CASE t \in transfers
      <3>1. { e \in entries' : e.transfer = t.id } =
              { e \in entries : e.transfer = t.id }
        BY <1>1, <1>3, <2>1
      <3> QED BY <2>1, <3>1 DEF TablesOK
    <2>2. CASE t = T
      <3>1. { e \in entries' : e.transfer = t.id } = Legs(id, m)
        BY <1>1, <1>2, <1>3, <2>2 DEF NewID
      <3> QED BY <1>2, <1>3, <1>4, <2>2, <3>1
    <2> QED BY <1>1, <2>1, <2>2 DEF T
  <1>9. TablesOK'
    BY <1>5, <1>6, <1>7, <1>8 DEF TablesOK
  <1>10. Total' = Total
    BY <1>1, MoveConserves DEF Total, TablesOK
  <1>11. ASSUME NEW B \in [Accounts -> Int], Reconciled(accounts, entries, B)
         PROVE  Reconciled(accounts', entries', B)
    BY <1>1, <1>11, TransferReconciles DEF TablesOK
  <1> QED BY <1>5, <1>9, <1>10, <1>11

(* Funding an account leaves the tables in order, and moves the baseline    *)
(* that they reconcile with.                                                *)
LEMMA FundsKeepTables ==
  ASSUME TablesOK, NEW a \in Accounts, AddFunds(a)
  PROVE  /\ TablesOK' /\ Funding > 0
         /\ a \in Present(accounts')
         /\ \A B \in [Accounts -> Int] :
               Reconciled(accounts, entries, B) =>
                   Reconciled(accounts', entries', [B EXCEPT ![a] = @ + Funding])
  <1>1. /\ Funding \in Nat /\ Funding > 0 /\ a \in Present(accounts)
        /\ accounts[a].balance + Funding <= MaxBalance
        /\ accounts' = [accounts EXCEPT ![a] = Moved(@, Funding)]
        /\ UNCHANGED <<transfers, entries>>
    BY WorkloadAssumption, SMT DEF AddFunds, CanFund, Funding, Present
  <1>2. accounts \in Rows /\ Summable(entries)
          /\ \A e \in entries : e.account \in Present(accounts)
    BY DEF TablesOK
  <1>3. ASSUME NEW B \in [Accounts -> Int], Reconciled(accounts, entries, B)
        PROVE  /\ accounts' \in Rows /\ Present(accounts') = Present(accounts)
               /\ Reconciled(accounts', entries,
                             [B EXCEPT ![a] = @ + Funding])
    <2> HIDE DEF Funding
    <2> QED BY <1>1, <1>2, <1>3, FundsReconcile
  <1>4. accounts' \in Rows /\ Present(accounts') = Present(accounts)
    BY <1>2, <1>3, SnapshotReconciles
  <1>5. TablesOK'
    BY <1>1, <1>4 DEF TablesOK
  <1> QED BY <1>1, <1>3, <1>4, <1>5

(* The participant that was created last is the one that is funded.         *)
LEMMA LastParticipant ==
  ASSUME SetupOK, FundParticipant
  PROVE  \/ UNCHANGED <<accounts, transfers, entries>>
         \/ \E a \in Accounts : AddFunds(a)
  <1>1. participants[Len(participants)] \in Accounts
    BY SMT DEF SetupOK, FundParticipant
  <1> QED BY <1>1 DEF FundParticipant, ledger

(* The tables are in order at every step.                                   *)
LEMMA TablesKept ==
  ASSUME StressInv, [Next]_vars
  PROVE  TablesOK'
  <1>0. CallsOK /\ TablesOK /\ SetupOK
    BY DEF StressInv
  <1>1. CASE UNCHANGED <<accounts, transfers, entries>>
    BY <1>0, <1>1 DEF TablesOK
  <1>2. CASE \E c \in Calls : Commit(c)
    BY <1>0, <1>2, CommitKeepsTables DEF Commit
  <1>3. CASE \E a \in Accounts : CreateParticipant(a)
    <2>1. PICK a \in Accounts : CreateParticipant(a)
      BY <1>3
    <2> DEFINE r == [currency |-> Currency, balance |-> 0]
    <2>2. /\ accounts[a] = NoRow
          /\ accounts' = [accounts EXCEPT ![a] = r]
          /\ UNCHANGED <<transfers, entries>>
      BY <2>1 DEF CreateParticipant, L!CreateAccount
    <2>3. r \in Row /\ r # NoRow
      BY WorkloadAssumption, BoundsAssumption, NullsAssumption, SMT DEF Row
    <2> HIDE DEF r
    <2>4. accounts' \in Rows
      BY <1>0, <2>2, <2>3 DEF TablesOK, Rows
    <2>5. Present(accounts) \subseteq Present(accounts')
      BY <1>0, <2>2, <2>3 DEF TablesOK, Rows, Present
    <2> QED BY <1>0, <2>2, <2>4, <2>5 DEF TablesOK
  <1>4. CASE FundParticipant
    BY <1>0, <1>1, <1>4, LastParticipant, FundsKeepTables
  <1>5. CASE \E a \in Accounts : OtherFunds(a)
    BY <1>0, <1>5, FundsKeepTables DEF OtherFunds
  <1> QED BY <1>1, <1>2, <1>3, <1>4, <1>5, RowSteps

(****************************************************************************)
(* The baseline, the totals, the report and the verdict                     *)
(****************************************************************************)
(* What a step that leaves the tables alone, and is none of those that the  *)
(* clauses below are about, does to run: nothing, or its next statement.    *)
Onward ==
    /\ UNCHANGED <<baseline, totalBefore, funded>>
    /\ phase' = phase \/ <<phase, phase'>> \in
          {<<"setup", "baseline">>, <<"execute", "after">>,
           <<"after", "totals">>, <<"totals", "negative">>,
           <<"negative", "unbalanced">>, <<"unbalanced", "mismatches">>,
           <<"mismatches", "emit">>, <<"emit", "passed">>,
           <<"emit", "failed">>, <<phase, "aborted">>}
    /\ totalAfter' = IF phase = "after" /\ phase' = "totals" THEN Total
                     ELSE totalAfter

(* The steps of run and of everybody else.                                  *)
LEMMA RunSteps ==
  ASSUME [Next]_vars
  PROVE  \/ Onward /\ UNCHANGED <<accounts, transfers, entries>>
         \/ \E c \in Calls : Commit(c)
         \/ \E a \in Accounts : CreateParticipant(a)
         \/ FundParticipant \/ TakeBaseline \/ ReadBefore
         \/ \E a \in Accounts : OtherFunds(a)
  <1>1. CASE UseSupplied \/ Wait \/ ReadAfter \/ Emit \/ Abort
    BY <1>1 DEF UseSupplied, Wait, ReadAfter, Emit, Abort, Goto, ledger, Onward
  <1>2. CASE Check
    BY <1>2 DEF Check, Query, Goto, ledger, Onward
  <1>3. CASE \/ \E w \in Workload : Start(w)
             \/ \E w \in Workload, r \in Outcomes : Record(w, r)
             \/ \E c \in Calls \ Workload : Elsewhere(c)
             \/ UNCHANGED vars
    BY <1>3 DEF Start, Goto, Record, Elsewhere, vars, L!Invoke, L!Answer,
       Onward
  <1> QED BY <1>1, <1>2, <1>3 DEF Next

(* The books reconcile with the baseline, but for another run's funding.    *)
LEMMA BaselineKept ==
  ASSUME StressInv, [Next]_vars
  PROVE  BaselineOK'
  <1>0. CallsOK /\ TablesOK /\ SetupOK /\ BaselineOK
    BY DEF StressInv
  <1>1. CASE Onward /\ UNCHANGED <<accounts, transfers, entries>>
    <2>1. /\ UNCHANGED <<accounts, entries, baseline, funded>>
          /\ phase' \in Based => phase \in Based
          /\ phase' \in {"setup", "fund", "baseline"} =>
                phase \in {"setup", "fund", "baseline"}
      BY <1>1 DEF Onward, Based
    <2> QED BY <1>0, <2>1 DEF BaselineOK, Raised, Based
  <1>2. CASE \E c \in Calls : Commit(c)
    <2>1. PICK c \in Calls : Commit(c)
      BY <1>2
    <2>2. /\ UNCHANGED <<phase, baseline, funded>>
          /\ Present(accounts') = Present(accounts)
          /\ \A B \in [Accounts -> Int] :
               Reconciled(accounts, entries, B) =>
                   Reconciled(accounts', entries', B)
      BY <1>0, <2>1, CommitKeepsTables DEF Commit
    <2>3. Funding \in Int
      BY WorkloadAssumption, SMT DEF Funding
    <2>4. \A x \in Present(accounts) : Raised(x) \in [Accounts -> Int]
      <3>1. baseline \in [Accounts -> Int]
        BY <1>0 DEF BaselineOK
      <3>2. Present(accounts) \subseteq Accounts
        BY DEF Present
      <3> HIDE DEF Funding
      <3> QED BY <2>3, <3>1, <3>2, SMT DEF Raised
    <2>5. ASSUME phase \in Based, funded
          PROVE  \E x \in Present(accounts') :
                   Funding > 0 /\ Reconciled(accounts', entries', Raised(x))
      BY <1>0, <2>2, <2>4, <2>5, Zenon DEF BaselineOK
    <2>6. ASSUME phase \in Based, ~funded
          PROVE  Reconciled(accounts', entries', baseline)
      BY <1>0, <2>2, <2>6, Zenon DEF BaselineOK
    <2> QED BY <1>0, <2>2, <2>5, <2>6 DEF BaselineOK, Raised, Based
  <1>3. CASE \/ FundParticipant \/ \E a \in Accounts : CreateParticipant(a)
    <2>1. /\ phase \in {"setup", "fund"} /\ phase' \notin Based
          /\ UNCHANGED <<baseline, funded>>
      BY <1>3 DEF FundParticipant, CreateParticipant, Goto, Based
    <2> QED BY <1>0, <2>1 DEF BaselineOK, Based
  <1>4. CASE TakeBaseline
    <2>1. /\ phase = "baseline" /\ phase' = "before" /\ funded' = funded
          /\ baseline' = SnapshotBaseline(accounts, entries)
          /\ UNCHANGED <<accounts, entries>>
      BY <1>4 DEF TakeBaseline, Goto, ledger
    <2>2. /\ SnapshotBaseline(accounts, entries) \in [Accounts -> Int]
          /\ Reconciled(accounts, entries, SnapshotBaseline(accounts, entries))
      BY <1>0, SnapshotReconciles DEF TablesOK
    <2> QED BY <1>0, <2>1, <2>2 DEF BaselineOK
  <1>5. CASE ReadBefore
    <2>1. /\ phase = "before" /\ phase' = "execute"
          /\ UNCHANGED <<accounts, entries, baseline, funded>>
      BY <1>5 DEF ReadBefore, Goto, ledger
    <2> QED BY <1>0, <2>1 DEF BaselineOK, Raised, Based
  <1>6. CASE \E a \in Accounts : OtherFunds(a)
    <2>1. PICK a \in Accounts : OtherFunds(a)
      BY <1>6
    <2>2. /\ phase \in Based /\ ~funded /\ funded'
          /\ UNCHANGED <<phase, baseline>> /\ AddFunds(a)
      BY <2>1 DEF OtherFunds, Based
    <2>3. Reconciled(accounts, entries, baseline)
      BY <1>0, <2>2 DEF BaselineOK
    <2>4. /\ a \in Present(accounts') /\ Funding > 0
          /\ Reconciled(accounts', entries', Raised(a))
      BY <1>0, <2>2, <2>3, FundsKeepTables DEF BaselineOK, Raised
    <2>5. phase \notin {"setup", "fund", "baseline"}
      BY <2>2 DEF Based
    <2> QED BY <1>0, <2>2, <2>4, <2>5 DEF BaselineOK, Raised
  <1> QED BY <1>1, <1>2, <1>3, <1>4, <1>5, <1>6, RunSteps

(* Money is conserved from ReadBefore to ReadAfter.                         *)
LEMMA TotalsKept ==
  ASSUME StressInv, [Next]_vars
  PROVE  TotalsOK'
  <1>0. CallsOK /\ TablesOK /\ BaselineOK /\ TotalsOK
    BY DEF StressInv
  <1>1. CASE Onward /\ UNCHANGED <<accounts, transfers, entries>>
    <2>1. Total' = Total
      BY <1>1 DEF Total
    <2> QED BY <1>0, <1>1, <2>1 DEF Onward, TotalsOK
  <1>2. CASE \E c \in Calls : Commit(c)
    BY <1>0, <1>2, CommitKeepsTables, SMT DEF Commit, TotalsOK
  <1>3. CASE \/ FundParticipant \/ TakeBaseline
             \/ \E a \in Accounts : CreateParticipant(a)
    BY <1>3 DEF FundParticipant, CreateParticipant, TakeBaseline, Goto, TotalsOK
  <1>4. CASE ReadBefore
    BY <1>4 DEF ReadBefore, Goto, ledger, TotalsOK, Total
  <1>5. CASE \E a \in Accounts : OtherFunds(a)
    BY <1>5 DEF OtherFunds, TotalsOK
  <1> QED BY <1>1, <1>2, <1>3, <1>4, <1>5, RunSteps

(* The queries find the books in order, and the last one finds another      *)
(* run's funding.                                                           *)
LEMMA ReportKept ==
  ASSUME StressInv, [Next]_vars
  PROVE  ReportOK'
  <1>0. TablesOK /\ BaselineOK /\ ReportOK
    BY DEF StressInv
  <1>1. ASSUME report' = report,
               phase' = "emit" => phase = "emit" /\ funded' = funded
        PROVE  ReportOK'
    BY <1>0, <1>1, SMT DEF ReportOK
  <1>2. CASE Check
    <2> DEFINE R == [totals |-> report.totals, negative |-> {},
                     unbalanced |-> {}, mismatches |-> report.mismatches]
    <2>0. report = R /\ report.totals.ledger = 0
      BY <1>0 DEF ReportOK
    <2>1. CASE Query("totals", "negative",
                 [report EXCEPT !.totals = countTotals(transfers, entries)])
      <3>1. countTotals(transfers, entries).ledger = 0
        BY <1>0 DEF countTotals, TablesOK
      <3>2. /\ phase' = "negative"
            /\ report' = [R EXCEPT !.totals = countTotals(transfers, entries)]
        BY <2>0, <2>1 DEF Query, Goto
      <3> QED BY <3>1, <3>2 DEF ReportOK
    <2>2. CASE Query("negative", "unbalanced",
                 [report EXCEPT !.negative = findNegativeBalances(accounts)])
      <3>1. findNegativeBalances(accounts) = {}
        BY <1>0, BoundsAssumption, SMT
           DEF findNegativeBalances, TablesOK, Rows, Row, Present
      <3>2. phase' = "unbalanced" /\ report' = [R EXCEPT !.negative = {}]
        BY <2>0, <2>2, <3>1 DEF Query, Goto
      <3> QED BY <2>0, <3>2 DEF ReportOK
    <2>3. CASE Query("unbalanced", "mismatches",
                 [report EXCEPT !.unbalanced =
                                findUnbalancedTransfers(transfers, entries)])
      <3>1. \A t \in transfers : ~Offends(t, Legs(t.id, t))
        BY <1>0, LegsDoNotOffend DEF TablesOK
      <3>2. findUnbalancedTransfers(transfers, entries) = {}
        BY <1>0, <3>1 DEF findUnbalancedTransfers, TablesOK
      <3>3. phase' = "mismatches" /\ report' = [R EXCEPT !.unbalanced = {}]
        BY <2>0, <2>3, <3>2 DEF Query, Goto
      <3> QED BY <2>0, <3>3 DEF ReportOK
    <2>4. CASE Query("mismatches", "emit",
                 [report EXCEPT !.mismatches =
                          findBalanceMismatches(accounts, entries, baseline)])
      <3> DEFINE M == findBalanceMismatches(accounts, entries, baseline)
      <3>1. /\ phase = "mismatches" /\ phase' = "emit" /\ funded' = funded
            /\ report' = [R EXCEPT !.mismatches = M]
        BY <2>0, <2>4 DEF Query, Goto
      <3>2. ASSUME ~funded PROVE M = {}
        BY <1>0, <3>1, <3>2 DEF BaselineOK, Based, Reconciled
      <3>3. ASSUME funded PROVE M # {}
        <4>1. PICK x \in Present(accounts) :
                 Funding > 0 /\ Reconciled(accounts, entries, Raised(x))
          BY <1>0, <3>1, <3>3 DEF BaselineOK, Based
        <4>2. /\ x \in Accounts /\ baseline[x] \in Int
              /\ Raised(x)[x] = baseline[x] + Funding
          BY <1>0 DEF BaselineOK, Raised, Present
        <4>3. accounts[x].balance = Raised(x)[x] + LedgerMinor(entries, x)
          BY <4>1 DEF Reconciled, findBalanceMismatches
        <4>4. LedgerMinor(entries, x) \in Int /\ Funding \in Int
          BY <1>0, LedgerInt, WorkloadAssumption, SMT DEF TablesOK, Funding
        <4>5. accounts[x].balance # baseline[x] + LedgerMinor(entries, x)
          <5> HIDE DEF Funding
          <5> QED BY <4>1, <4>2, <4>3, <4>4, SMT
        <4> QED BY <4>5 DEF findBalanceMismatches
      <3> HIDE DEF M
      <3> QED BY <2>0, <3>1, <3>2, <3>3 DEF ReportOK
    <2> QED BY <1>2, <2>1, <2>2, <2>3, <2>4 DEF Check
  <1>3. CASE \/ UseSupplied \/ \E a \in Accounts : CreateParticipant(a)
             \/ FundParticipant \/ TakeBaseline \/ ReadBefore \/ Wait
             \/ ReadAfter \/ Emit \/ Abort
    BY <1>1, <1>3 DEF UseSupplied, CreateParticipant, FundParticipant,
       TakeBaseline, ReadBefore, Wait, ReadAfter, Emit, Abort, Goto
  <1>4. CASE \/ \E w \in Workload : Start(w)
             \/ \E w \in Workload, r \in Outcomes : Record(w, r)
             \/ \E c \in Calls \ Workload : Elsewhere(c)
             \/ \E c \in Calls : Commit(c)
             \/ \E a \in Accounts : OtherFunds(a)
             \/ UNCHANGED vars
    BY <1>1, <1>4 DEF Start, Goto, Record, Elsewhere, Commit, OtherFunds, vars
  <1> QED BY <1>2, <1>3, <1>4 DEF Next

(* The verdict is true, and stays what it is when late answers come in.     *)
LEMMA VerdictKept ==
  ASSUME StressInv, [Next]_vars
  PROVE  VerdictOK'
  <1>0. CallsOK /\ TotalsOK /\ ReportOK /\ VerdictOK
    BY DEF StressInv
  <1>1. CASE Emit
    <2>1. /\ phase = "emit" /\ problems' = Problems
          /\ phase' = IF OK THEN "passed" ELSE "failed"
          /\ UNCHANGED <<answer, funded>>
      BY <1>1 DEF Emit, Goto, ledger
    <2>2. /\ report.negative = {} /\ report.unbalanced = {}
          /\ report.totals.ledger = 0
          /\ report.mismatches # {} <=> funded
      <3> DEFINE R == [totals |-> report.totals, negative |-> {},
                       unbalanced |-> {}, mismatches |-> report.mismatches]
      <3>1. report = R /\ report.totals.ledger = 0
        BY <1>0 DEF ReportOK
      <3>2. R.negative = {} /\ R.unbalanced = {}
        OBVIOUS
      <3> QED BY <1>0, <2>1, <3>1, <3>2 DEF ReportOK
    <2>3. funded => "balance mismatch" \in Problems
      BY <2>2 DEF Problems
    <2>4. ~funded => Problems = {}
      BY <1>0, <2>1, <2>2 DEF Problems, TotalsOK
    <2>5. ASSUME ~OK, ~funded
          PROVE  \E w \in Workload : /\ answer[w] # Pending
                                     /\ Outcome(answer[w]) = "Unexpected"
      <3> DEFINE S == { w \in Workload : /\ answer[w] # Pending
                                         /\ Outcome(answer[w]) = "Unexpected" }
      <3>1. Cardinality(S) # 0
        BY <2>4, <2>5 DEF OK, Tally
      <3>2. S # {}
        BY <3>1, FS_EmptySet
      <3> QED BY <3>2
    <2>6. OK => ~funded
      BY <2>3 DEF OK
    <2> HIDE DEF OK, Problems, Outcome
    <2> QED BY <2>1, <2>3, <2>5, <2>6 DEF VerdictOK
  <1>2. ASSUME UNCHANGED <<phase, funded>>, problems \subseteq problems',
               \A w \in Workload : answer[w] # Pending =>
                                       answer'[w] = answer[w]
        PROVE  VerdictOK'
    BY <1>0, <1>2 DEF VerdictOK
  <1>3. Workload \subseteq Calls /\ DOMAIN answer = Calls
    BY <1>0, WorkloadAssumption DEF Workload, CallsOK
  <1>4. ASSUME NEW v \in Workload, NEW r \in Outcomes, Record(v, r)
        PROVE  VerdictOK'
    <2>1. /\ answer[v] = Pending /\ answer' = [answer EXCEPT ![v] = r]
          /\ UNCHANGED <<phase, funded>>
      BY <1>4 DEF Record, L!Answer, L!Pending, Pending
    <2>2. problems \subseteq problems'
      BY <1>4 DEF Record, Note
    <2>3. \A w \in Workload : answer[w] # Pending => answer'[w] = answer[w]
      BY <1>3, <2>1
    <2> QED BY <1>2, <2>1, <2>2, <2>3
  <1>5. ASSUME NEW c \in Calls \ Workload, Elsewhere(c) PROVE VerdictOK'
    <2>1. /\ UNCHANGED <<phase, funded, problems>>
          /\ \E r : answer' = [answer EXCEPT ![c] = r]
      BY <1>5 DEF Elsewhere, L!Invoke, L!Answer
    <2>2. \A w \in Workload : answer'[w] = answer[w]
      BY <1>3, <2>1
    <2> QED BY <1>2, <2>1, <2>2
  <1>6. CASE (\E c \in Calls : Commit(c)) \/ UNCHANGED vars
    BY <1>2, <1>6 DEF Commit, L!Commit, vars
  <1>7. ASSUME phase' \notin {"passed", "failed"} PROVE VerdictOK'
    BY <1>7 DEF VerdictOK
  <1>8. CASE \/ UseSupplied \/ \E a \in Accounts : CreateParticipant(a)
             \/ FundParticipant \/ TakeBaseline \/ ReadBefore \/ Wait
             \/ ReadAfter \/ Abort \/ \E w \in Workload : Start(w)
    BY <1>7, <1>8 DEF UseSupplied, CreateParticipant, FundParticipant,
       TakeBaseline, ReadBefore, Wait, ReadAfter, Abort, Start, Goto
  <1>9. CASE Check \/ \E a \in Accounts : OtherFunds(a)
    BY <1>7, <1>9 DEF Check, Query, Goto, OtherFunds
  <1> QED BY <1>1, <1>4, <1>5, <1>6, <1>8, <1>9 DEF Next

(****************************************************************************)
(* The theorems about the stress tool                                       *)
(****************************************************************************)
(* The invariant of a run of cmd/stress holds at every step, for every      *)
(* workload, whatever other clients and other runs do meanwhile.            *)
THEOREM StressInductive == Spec => []StressInv
  <1>1. StressInv /\ [Next]_vars => StressInv'
    BY CallsKept, SetupKept, TablesKept, BaselineKept, TotalsKept, ReportKept,
       VerdictKept DEF StressInv
  <1> QED BY <1>1, StressStart, PTL DEF Spec

(* Books that only transfers have touched are never reported as wrong,      *)
(* although the queries of reconcile.Check and the two readBalances each    *)
(* see another state of a database in use.                                  *)
THEOREM NoFalseAlarmProved == Spec => []NoFalseAlarm
  <1>1. StressInv => NoFalseAlarm
    <2> SUFFICES ASSUME StressInv, phase = "failed", ~funded
                 PROVE  Tally("Unexpected") > 0
      BY DEF NoFalseAlarm
    <2> DEFINE S == { w \in Workload : /\ answer[w] # Pending
                                       /\ Outcome(answer[w]) = "Unexpected" }
    <2>1. S # {}
      BY DEF StressInv, VerdictOK
    <2>2. IsFiniteSet(Workload)
      BY WorkloadAssumption, FS_Interval, SMT DEF Workload
    <2>3. S \in SUBSET Workload
      OBVIOUS
    <2> HIDE DEF S
    <2>4. IsFiniteSet(S)
      BY <2>2, <2>3, FS_Subset
    <2>5. Cardinality(S) \in Nat /\ Cardinality(S) # 0
      BY <2>1, <2>4, FS_CardinalityType, FS_EmptySet
    <2>6. Cardinality(S) > 0
      BY <2>5, SMT
    <2> QED BY <2>6 DEF Tally, S
  <1> QED BY <1>1, StressInductive, PTL

(* Money that another process put into an account without a ledger entry,   *)
(* between SnapshotBaseline and findBalanceMismatches, is always reported.  *)
THEOREM FundingReported == Spec => []FundingIsReported
  <1>1. StressInv => FundingIsReported
    BY DEF StressInv, VerdictOK, FundingIsReported, Reported
  <1> QED BY <1>1, StressInductive, PTL
==============================================================================
