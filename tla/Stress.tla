-------------------------------- MODULE Stress -------------------------------
(****************************************************************************)
(* cmd/stress: a baseline is taken, a workload of transfers is posted from  *)
(* concurrent goroutines, and the books are reconciled, while the service   *)
(* keeps posting for other clients on the same database.                    *)
(*                                                                          *)
(* The posting is the abstract Ledger that Posting implements.  Each query  *)
(* of the tool is one action: transfers commit between any two of them, and *)
(* one whose caller was told "Failed" can commit after the workload ended.  *)
(*                                                                          *)
(* Of readBalances only the total is kept; the balances of the participants *)
(* are printed and decide nothing.                                          *)
(****************************************************************************)
EXTENDS Reconcile, Sequences

CONSTANTS
    Attempts,      \* -attempts: the goroutines are the calls 1 .. Attempts
    Concurrency,   \* -concurrency
    Amount,        \* -amount
    Currency,      \* -currency
    Fund,          \* -fund
    RingSize,      \* -accounts
    Supplied       \* what may be given with -source and -destination

VARIABLES
    accounts, transfers, entries, req, known, answer,   \* Ledger's
    phase,         \* the statement run is at
    scenario,      \* -scenario
    participants,  \* the accounts money is moved between
    baseline, totalBefore, totalAfter,
    report,        \* reconcile.Report
    problems,      \* Result.Problems
    funded         \* another process has funded an account since the baseline

ledger == <<accounts, transfers, entries, req, known, answer>>
vars   == <<accounts, transfers, entries, req, known, answer, phase, scenario,
            participants, baseline, totalBefore, totalAfter, report, problems,
            funded>>

L == INSTANCE Ledger

(* What run and setupAccounts turn away does not get here: too few attempts *)
(* or accounts, or no currency.                                             *)
ASSUME WorkloadAssumption ==
    /\ Attempts \in Nat \ {0}
    /\ 1 .. Attempts \subseteq Calls
    /\ Concurrency \in Nat \ {0}
    /\ RingSize \in Nat \ {0, 1}
    /\ Amount \in Int /\ Fund \in Int
    /\ Currency \in Currencies
    /\ Supplied \subseteq Accounts

Workload == 1 .. Attempts

NoReport == [totals |-> [completed |-> 0, ledger |-> 0], negative |-> {},
             unbalanced |-> {}, mismatches |-> {}]

(* Result.OK looks at the outcome classes; everything that is neither a     *)
(* success, nor insufficient funds, nor exhausted retries is unexpected.    *)
Outcome(r) == IF r \in {"Posted", "InsufficientFunds", "Exhausted"}
              THEN r ELSE "Unexpected"

Tally(kind) == Cardinality({ w \in Workload : /\ answer[w] # Pending
                                              /\ Outcome(answer[w]) = kind })

Init ==
    /\ L!Init
    /\ phase = "setup"
    /\ scenario \in {"oneway", "opposing", "ring"}
    /\ participants = <<>>
    /\ baseline = [a \in Accounts |-> 0]
    /\ totalBefore = 0
    /\ totalAfter = 0
    /\ report = NoReport
    /\ problems = {}
    /\ funded = FALSE

(* Only run's own progress.                                                 *)
Goto(to) ==
    /\ phase' = to
    /\ UNCHANGED <<scenario, funded>>

(****************************************************************************)
(* setupAccounts                                                            *)
(****************************************************************************)
(* -source and -destination name accounts; nothing checks that they exist,  *)
(* or that they are two.                                                    *)
UseSupplied ==
    /\ phase = "setup"
    /\ participants = <<>>
    /\ participants' \in Supplied \X Supplied
    /\ Goto("baseline")
    /\ UNCHANGED <<ledger, baseline, totalBefore, totalAfter, report, problems>>

Count == IF scenario = "ring" THEN RingSize ELSE 2

(* repo.Create: one account more.                                           *)
CreateParticipant(a) ==
    /\ phase = "setup"
    /\ Len(participants) < Count
    /\ L!CreateAccount(a, Currency)
    /\ participants' = Append(participants, a)
    /\ Goto("fund")
    /\ UNCHANGED <<baseline, totalBefore, totalAfter, report, problems>>

Funding == IF Fund = 0 THEN Attempts * Amount ELSE Fund

(* UPDATE accounts SET balance_minor = balance_minor + funding: no entry    *)
(* explains it.  It is not sent for a funding that is not positive; beyond  *)
(* BIGINT it fails.                                                         *)
CanFund(a) ==
    /\ Funding > 0
    /\ accounts[a] # NoRow
    /\ accounts[a].balance + Funding <= MaxBalance

AddFunds(a) ==
    /\ CanFund(a)
    /\ accounts' = [accounts EXCEPT ![a] = Moved(@, Funding)]
    /\ UNCHANGED <<transfers, entries, req, known, answer>>

FundParticipant ==
    /\ phase = "fund"
    /\ IF Funding > 0 THEN AddFunds(participants[Len(participants)])
                      ELSE UNCHANGED ledger
    /\ Goto(IF Len(participants) = Count THEN "baseline" ELSE "setup")
    /\ UNCHANGED <<participants, baseline, totalBefore, totalAfter, report,
                   problems>>

(****************************************************************************)
(* run                                                                      *)
(****************************************************************************)
TakeBaseline ==
    /\ phase = "baseline"
    /\ baseline' = SnapshotBaseline(accounts, entries)
    /\ Goto("before")
    /\ UNCHANGED <<ledger, participants, totalBefore, totalAfter, report,
                   problems>>

(* SELECT SUM(balance_minor) in readBalances.                               *)
Total == TotalBalance(accounts)

(* repo.Get fails for a participant that does not exist.                    *)
ReadBefore ==
    /\ phase = "before"
    /\ \A i \in 1 .. Len(participants) : accounts[participants[i]] # NoRow
    /\ totalBefore' = Total
    /\ Goto("execute")
    /\ UNCHANGED <<ledger, participants, baseline, totalAfter, report, problems>>

(* buildCommands: the command of the goroutine with index i, from 0.        *)
newCmd(from, to) ==
    [src |-> participants[from + 1], dst |-> participants[to + 1],
     amount |-> Amount, currency |-> Currency]

buildCommand(i) ==
    CASE scenario = "opposing" -> newCmd(i % 2, (i + 1) % 2)
      [] scenario = "ring" ->
            newCmd(i % Len(participants), (i + 1) % Len(participants))
      [] scenario = "oneway" -> newCmd(0, 1)

InFlight == { w \in Workload : req[w] # NoReq /\ answer[w] = Pending }

(* An unexpected failure is written down.                                   *)
Note(r) == IF r # Pending /\ Outcome(r) = "Unexpected"
           THEN problems \cup {"unexpected failure"} ELSE problems

(* A goroutine of execute gets a slot and calls PostWithAttempts, which     *)
(* refuses a malformed command at once.                                     *)
Start(w) ==
    /\ phase = "execute"
    /\ Cardinality(InFlight) < Concurrency
    /\ L!Invoke(w, NoKey, buildCommand(w - 1))
    /\ problems' = Note(answer'[w])
    /\ Goto("execute")
    /\ UNCHANGED <<participants, baseline, totalBefore, totalAfter, report>>

(* PostWithAttempts returns.                                                *)
Record(w, r) ==
    /\ L!Answer(w, r)
    /\ problems' = Note(r)
    /\ UNCHANGED <<phase, scenario, participants, baseline, totalBefore,
                   totalAfter, report, funded>>

(* wg.Wait: every goroutine has recorded its outcome.                       *)
AllDone == \A w \in Workload : answer[w] # Pending

Wait ==
    /\ phase = "execute"
    /\ AllDone
    /\ Goto("after")
    /\ UNCHANGED <<ledger, participants, baseline, totalBefore, totalAfter,
                   report, problems>>

ReadAfter ==
    /\ phase = "after"
    /\ totalAfter' = Total
    /\ Goto("totals")
    /\ UNCHANGED <<ledger, participants, baseline, totalBefore, report, problems>>

(* reconcile.Check, query by query.                                         *)
Query(at, to, r) ==
    /\ phase = at
    /\ report' = r
    /\ Goto(to)
    /\ UNCHANGED <<ledger, participants, baseline, totalBefore, totalAfter,
                   problems>>

Check ==
    \/ Query("totals", "negative",
             [report EXCEPT !.totals = countTotals(transfers, entries)])
    \/ Query("negative", "unbalanced",
             [report EXCEPT !.negative = findNegativeBalances(accounts)])
    \/ Query("unbalanced", "mismatches",
             [report EXCEPT !.unbalanced =
                                findUnbalancedTransfers(transfers, entries)])
    \/ Query("mismatches", "emit",
             [report EXCEPT !.mismatches =
                                findBalanceMismatches(accounts, entries, baseline)])

(* Report.Problems, and the line about conservation.                        *)
Problems ==
    { p \in {"ledger sum", "negative balance", "balance mismatch",
             "unbalanced transfer", "conservation"} :
        \/ p = "ledger sum" /\ report.totals.ledger # 0
        \/ p = "negative balance" /\ report.negative # {}
        \/ p = "balance mismatch" /\ report.mismatches # {}
        \/ p = "unbalanced transfer" /\ report.unbalanced # {}
        \/ p = "conservation" /\ totalBefore # totalAfter }

(* Result.OK: Problems has the four conditions of Report.OK and the one of  *)
(* ConservationHeld.                                                        *)
OK == Problems = {} /\ Tally("Unexpected") = 0

(* The result is printed; the exit status says whether it was OK.           *)
Emit ==
    /\ phase = "emit"
    /\ problems' = Problems
    /\ Goto(IF OK THEN "passed" ELSE "failed")
    /\ UNCHANGED <<ledger, participants, baseline, totalBefore, totalAfter,
                   report>>

(* A statement of run fails: it returns the error and reports nothing.      *)
Abort ==
    /\ phase \notin {"execute", "passed", "failed", "aborted"}
    /\ Goto("aborted")
    /\ UNCHANGED <<ledger, participants, baseline, totalBefore, totalAfter,
                   report, problems>>

(****************************************************************************)
(* Everybody else                                                           *)
(****************************************************************************)
(* The service posts for its clients, with a key or without.                *)
Elsewhere(c) ==
    /\ \/ \E m \in Commands, k \in Keys \cup {NoKey} : L!Invoke(c, k, m)
       \/ \E r \in Outcomes : L!Answer(c, r)
    /\ UNCHANGED <<phase, scenario, participants, baseline, totalBefore,
                   totalAfter, report, problems, funded>>

(* A transfer takes effect.                                                 *)
Commit(c) ==
    /\ L!Commit(c)
    /\ UNCHANGED <<phase, scenario, participants, baseline, totalBefore,
                   totalAfter, report, problems, funded>>

(* Another run of the tool funds an account between this run's baseline and *)
(* its last query.                                                          *)
OtherFunds(a) ==
    /\ ~funded
    /\ phase \in {"before", "execute", "after", "totals", "negative",
                  "unbalanced", "mismatches"}
    /\ AddFunds(a)
    /\ funded' = TRUE
    /\ UNCHANGED <<phase, scenario, participants, baseline, totalBefore,
                   totalAfter, report, problems>>

Next ==
    \/ UseSupplied
    \/ \E a \in Accounts : CreateParticipant(a)
    \/ FundParticipant \/ TakeBaseline \/ ReadBefore
    \/ \E w \in Workload : Start(w)
    \/ \E w \in Workload, r \in Outcomes : Record(w, r)
    \/ Wait \/ ReadAfter \/ Check \/ Emit \/ Abort
    \/ \E c \in Calls \ Workload : Elsewhere(c)
    \/ \E c \in Calls : Commit(c)
    \/ \E a \in Accounts : OtherFunds(a)

Spec == Init /\ [][Next]_vars

(****************************************************************************)
(* Properties                                                               *)
(****************************************************************************)
Reported == phase \in {"passed", "failed"}

(* Reconciliation "can be run after a test, after a stress run, or          *)
(* eventually as a scheduled job" (reconcile.go:10): although its queries   *)
(* read different snapshots and the service keeps posting between them, and *)
(* although lost COMMITs land late, books that only transfers have touched  *)
(* are never reported as wrong.                                             *)
NoFalseAlarm ==
    phase = "failed" => Tally("Unexpected") > 0 \/ funded

(* Money that appears without a ledger entry between the baseline and the   *)
(* last query is always reported, however it interleaves with the workload. *)
FundingIsReported ==
    Reported /\ funded => phase = "failed" /\ "balance mismatch" \in problems

(* "invariant violations were detected; see the problems above"             *)
(* (cmd/stress/main.go:251): a failed run has printed at least one problem. *)
FailureIsExplained == phase = "failed" => problems # {}
==============================================================================
