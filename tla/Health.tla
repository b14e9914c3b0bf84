-------------------------------- MODULE Health -------------------------------
(****************************************************************************)
(* The health registry (internal/health) and the probes that the            *)
(* operational HTTP server answers from it (internal/httpapi).              *)
(*                                                                          *)
(* A readiness probe calls Registry.Check: it copies the registry under the *)
(* lock, runs every check of the copy in a goroutine of its own, and waits  *)
(* for all of them.  Register may run at any moment.  A check asks a        *)
(* dependency, which may answer, fail, panic the check, or hang; a check    *)
(* that hangs returns when its context is done, as CheckFunc demands.       *)
(*                                                                          *)
(* Where two definitions of one thing stand together, the first is a        *)
(* mutation that the properties are tried against, as in Posting.           *)
(****************************************************************************)
EXTENDS Integers, FiniteSets, Sequences

CONSTANTS
    Wiring,    \* the checks that may be registered: [name, fn, required]
    Clients,   \* the clients that probe, each one request after another
    Moods      \* how a dependency may behave

ASSUME WiringAssumption ==
    /\ \A c \in Wiring : c.required \in BOOLEAN
    /\ Moods \subseteq {"ok", "error", "panic", "hang"}

Fns == { c.fn : c \in Wiring }

(* What routes serves, and requests it turns away.                          *)
Routes   == {"GET /healthz", "GET /readyz", "GET /version"}
Requests == Routes \cup {"POST /healthz", "GET /other"}

VARIABLES
    checks,    \* Registry.checks
    mood,      \* mood[f]: how the dependency behind f behaves
    at,        \* at[p]: where probe p is
    snapshot,  \* snapshot[p]: the checks that its Check runs
    results,   \* results[p]: what they returned so far, by name
    expired,   \* the probes whose context is done
    code,      \* code[p]: the status code of the response, 0 before it
    known,     \* history: the names registered when p called Check
    good, bad  \* history: the fns that were, were not "ok" during the probe

healthVars == <<checks, mood, at, snapshot, results, expired, code, known,
                good, bad>>

NamesOf(s) == { s[i].name : i \in DOMAIN s }
NoResults  == [n \in {} |-> 0]

HealthInit ==
    /\ checks = << >>
    /\ mood \in [Fns -> Moods]
    /\ at = [p \in Clients |-> "idle"]
    /\ snapshot = [p \in Clients |-> << >>]
    /\ results = [p \in Clients |-> NoResults]
    /\ expired = {}
    /\ code = [p \in Clients |-> 0]
    /\ known = [p \in Clients |-> {}]
    /\ good = [p \in Clients |-> {}]
    /\ bad = [p \in Clients |-> {}]

(****************************************************************************)
(* Registry                                                                 *)
(****************************************************************************)
(* register replaces the check of the same name, or appends.                *)
Registered(c) ==
    IF c.name \in NamesOf(checks)
    THEN [i \in DOMAIN checks |-> IF checks[i].name = c.name THEN c
                                                             ELSE checks[i]]
    ELSE Append(checks, c)

Register(c) ==
    /\ checks' = Registered(c)
    /\ UNCHANGED <<mood, at, snapshot, results, expired, code, known, good,
                   bad>>

(* The copy that Check takes.                                               *)
ShortCopy == SubSeq(checks, 1, Len(checks) - 1)
Copy      == checks

OK(m)    == { f \in Fns : m[f] = "ok" }
NotOK(m) == Fns \ OK(m)

(* Check copies the registry; an empty one is healthy at once.              *)
Snapshot(p) ==
    /\ at[p] = "called"
    /\ at' = [at EXCEPT ![p] = "waiting"]
    /\ snapshot' = [snapshot EXCEPT ![p] = Copy]
    /\ UNCHANGED <<checks, mood, results, expired, code, known, good, bad>>

(* What safeRun(ctx, fn) may return.  A check of a dependency that answers  *)
(* or fails may still find its context done first.                          *)
Outcomes(p, f) ==
    (IF mood[f] = "ok" THEN {"healthy"} ELSE {})
    \cup (IF mood[f] \in {"error", "panic"} \/ p \in expired
          THEN {"unhealthy"} ELSE {})

(* The goroutine of check i returns and stores its Result under the name.   *)
Run(p, i) ==
    LET c == snapshot[p][i]
    IN  /\ at[p] = "waiting"
        /\ c.name \notin DOMAIN results[p]
        /\ \E s \in Outcomes(p, c.fn) :
              results' = [results EXCEPT ![p] =
                  [n \in DOMAIN @ \cup {c.name} |->
                     IF n = c.name
                     THEN [status |-> s, required |-> c.required]
                     ELSE @[n]]]
        /\ UNCHANGED <<checks, mood, at, snapshot, expired, code, known, good,
                       bad>>

(* The timeout of the registry fires, or the client goes away.              *)
NeverExpire(p) == FALSE /\ UNCHANGED healthVars
Expire(p) ==
    /\ at[p] = "waiting"
    /\ p \notin expired
    /\ expired' = expired \cup {p}
    /\ UNCHANGED <<checks, mood, at, snapshot, results, code, known, good,
                   bad>>

(* wg.Wait(): the goroutines of p that it waits for have returned.          *)
SomeReturned(p)   == snapshot[p] # << >> => DOMAIN results[p] # {}
ChecksReturned(p) == DOMAIN results[p] = NamesOf(snapshot[p])

Failed(p) == { n \in DOMAIN results[p] : results[p][n].status = "unhealthy" }

(* A failed check that makes the process unready.                           *)
FailedRequired(p) == { n \in Failed(p) : results[p][n].required }

(****************************************************************************)
(* The HTTP server                                                          *)
(****************************************************************************)
(* A probe arrives.  The router turns away what is not a route; liveness    *)
(* and version ask nobody.                                                  *)
ServeHTTP(p, r) ==
    /\ at[p] \in {"idle", "ready", "answered"}
    /\ snapshot' = [snapshot EXCEPT ![p] = << >>]
    /\ results' = [results EXCEPT ![p] = NoResults]
    /\ expired' = expired \ {p}
    /\ IF r = "GET /readyz"
       THEN /\ at' = [at EXCEPT ![p] = "called"]
            /\ known' = [known EXCEPT ![p] = NamesOf(checks)]
            /\ good' = [good EXCEPT ![p] = OK(mood)]
            /\ bad' = [bad EXCEPT ![p] = NotOK(mood)]
            /\ code' = [code EXCEPT ![p] = 0]
       ELSE /\ at' = [at EXCEPT ![p] = "answered"]
            /\ code' = [code EXCEPT ![p] =
                 IF r \in Routes THEN 200
                 ELSE IF r = "POST /healthz" THEN 405 ELSE 404]
            /\ UNCHANGED <<known, good, bad>>
    /\ UNCHANGED <<checks, mood>>

(* handleReady has the report and writes the response.                      *)
handleReady(p) ==
    /\ at[p] = "waiting"
    /\ ChecksReturned(p)
    /\ at' = [at EXCEPT ![p] = "ready"]
    /\ code' = [code EXCEPT ![p] = IF FailedRequired(p) = {} THEN 200 ELSE 503]
    /\ UNCHANGED <<checks, mood, snapshot, results, expired, known, good, bad>>

(****************************************************************************)
(* The environment                                                          *)
(****************************************************************************)
Change(f, m) ==
    /\ mood[f] # m
    /\ mood' = [mood EXCEPT ![f] = m]
    /\ good' = [p \in Clients |-> IF at[p] \in {"called", "waiting"}
                                  THEN good[p] \cup OK(mood') ELSE good[p]]
    /\ bad' = [p \in Clients |-> IF at[p] \in {"called", "waiting"}
                                 THEN bad[p] \cup NotOK(mood') ELSE bad[p]]
    /\ UNCHANGED <<checks, at, snapshot, results, expired, code, known>>

Checking(p) ==
    Snapshot(p) \/ (\E i \in DOMAIN snapshot[p] : Run(p, i)) \/ handleReady(p)

HealthNext ==
    \/ \E c \in Wiring : Register(c)
    \/ \E p \in Clients : (\E r \in Requests : ServeHTTP(p, r)) \/ Checking(p)
    \/ \E p \in Clients : Expire(p)
    \/ \E f \in Fns, m \in Moods : Change(f, m)

HealthSpec == HealthInit /\ [][HealthNext]_healthVars

(* Goroutines run, the timer fires, and a check returns once its context is *)
(* done.  No dependency has to answer.                                      *)
HealthFairSpec ==
    /\ HealthSpec
    /\ \A p \in Clients :
          /\ WF_healthVars(Snapshot(p) \/ handleReady(p))
          /\ WF_healthVars(Expire(p))
          /\ \A i \in 1..Cardinality(Wiring) :
                WF_healthVars(i \in DOMAIN snapshot[p] /\ Run(p, i))

(****************************************************************************)
(* Properties                                                               *)
(****************************************************************************)
(* A probe is told 200 only if every required dependency of its copy did    *)
(* answer at some moment between the request and the response: Check waits  *)
(* for the slowest check, and neither a panic, a timeout nor a Register in  *)
(* between makes a failure disappear (Check and safeRun).  It is told 503   *)
(* only if a required one did not answer at some moment of the probe, or    *)
(* the probe's own time was up: never because of an optional one, since     *)
(* "withdrawing traffic from every replica because such a dependency is     *)
(* down converts a partial outage into a total one" (health.go:124), nor    *)
(* because of an outage that was over before it.                            *)
ReadinessIsTrue ==
    \A p \in Clients :
        LET required == { i \in DOMAIN snapshot[p] : snapshot[p][i].required }
        IN  /\ at[p] = "ready" /\ code[p] = 200 =>
                  \A i \in required : snapshot[p][i].fn \in good[p]
            /\ code[p] = 503 =>
                  \E i \in required : \/ snapshot[p][i].fn \in bad[p]
                                      \/ p \in expired

(* "The returned report always contains an entry for every registered       *)
(* check, whether it passed or failed" (health.go:172): every check that    *)
(* was registered when Check was called is in the report, whatever Register *)
(* did meanwhile.                                                           *)
ReportIsComplete ==
    \A p \in Clients : at[p] = "ready" => known[p] \subseteq DOMAIN results[p]

(* "timeout bounds the whole Check call so one wedged dependency cannot     *)
(* stall a readiness probe indefinitely" (health.go:97): every probe is     *)
(* answered, even if every dependency hangs for good.                       *)
ProbesAreAnswered ==
    \A p \in Clients : at[p] = "called" ~> at[p] = "ready"
==============================================================================
