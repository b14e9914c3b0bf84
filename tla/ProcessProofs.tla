---------------------------- MODULE ProcessProofs ----------------------------
(****************************************************************************)
(* The API process, from its start to its end: what it makes of its         *)
(* environment and whom it lets in (Access), what its probes are told       *)
(* (Health), and how it drains (Lifecycle), for every number of requests,   *)
(* probes and tokens.                                                       *)
(****************************************************************************)
EXTENDS Lifecycle, Health, AccessProps, TLAPS

USE Zenon

(****************************************************************************)
(* The drain                                                                *)
(****************************************************************************)
(* Where Run of the gRPC server is, against the poller it has told to stop  *)
(* and the health service it has shut down.                                 *)
AnnounceInv ==
    /\ stage \in [Servers -> {"new", "serving", "announce", "announce2",
                              "freeze", "draining", "forced", "returned"}]
    /\ status \in [Names -> {"SERVING", "NOT_SERVING", "UNKNOWN"}]
    /\ frozen \in BOOLEAN /\ cancelled \in BOOLEAN
    /\ frozen => \A n \in Names : status[n] = "NOT_SERVING"
    /\ stage["grpc"] \in {"new", "serving"} => ~cancelled
    /\ stage["grpc"] \in {"draining", "forced"} => frozen
    /\ cancelled /\ stage["grpc"] = "returned" => frozen

(* Every step the process takes, split by what it leaves alone: the health  *)
(* service and the gRPC server, or not.                                     *)
LEMMA QuietSteps ==
    ASSUME Next
    PROVE  \/ UNCHANGED <<stage, status, frozen, cancelled>>
           \/ \E s \in Servers : Start(s) \/ StartFails(s) \/ Drained(s)
                                    \/ ForceStop(s)
           \/ ShutdownHTTP \/ ShutdownGRPC \/ AnnounceServer
           \/ AnnounceService \/ Drain \/ Stopped \/ PollSets
  BY DEF Next, ServerSteps, ServeStops, Arrive, Acquire, Finish, PollSteps,
         PollBegins, PollChecks, PollTicks, PollEnds, MainSteps, ServersDone,
         CloseRedis, CloseDB, Exit, Proceed, Signal, Flip

(* A health service that was frozen stays at NOT_SERVING.                   *)
LEMMA AnnounceInvHolds == Spec => []AnnounceInv
  <1>1. Init => AnnounceInv
    BY DEF Init, AnnounceInv, Servers, Names
  <1>2. AnnounceInv /\ [Next]_vars => AnnounceInv'
    <2> SUFFICES ASSUME AnnounceInv, [Next]_vars PROVE AnnounceInv'
      OBVIOUS
    <2> USE DEF AnnounceInv, Servers, Names
    <2>1. CASE UNCHANGED <<stage, status, frozen, cancelled>>
      BY <2>1
    <2>2. ASSUME NEW s \in Servers, Start(s) \/ StartFails(s) \/ Drained(s)
                                        \/ ForceStop(s)
          PROVE  AnnounceInv'
      <3>1. UNCHANGED <<status, frozen, cancelled>>
        BY <2>2 DEF Start, StartFails, Drained, ForceStop
      <3>2. PICK from \in {"new", "draining"},
                 to \in {"serving", "forced", "returned"} :
               /\ stage[s] = from
               /\ stage' = [stage EXCEPT ![s] = to]
               /\ from = "draining" => to # "serving"
               /\ from = "new" => to # "forced"
        BY <2>2 DEF Start, StartFails, Drained, ForceStop, At
      <3>3. CASE s = "http"
        BY <3>1, <3>2, <3>3
      <3>4. CASE s = "grpc"
        <4>1. stage["grpc"] = from /\ stage'["grpc"] = to
          BY <3>2, <3>4
        <4>2. CASE from = "new"
          BY <3>1, <3>2, <4>1, <4>2
        <4>3. CASE from = "draining"
          BY <3>1, <3>2, <4>1, <4>3
        <4> QED BY <4>2, <4>3
      <3> QED BY <3>3, <3>4
    <2>3. CASE ShutdownHTTP \/ ShutdownGRPC
      <3>1. CASE ShutdownHTTP
        BY <3>1 DEF ShutdownHTTP, At
      <3>2. CASE ShutdownGRPC
        <4>1. UNCHANGED <<status, frozen>> /\ cancelled' = TRUE
          BY <3>2 DEF ShutdownGRPC
        <4>2. stage' = [stage EXCEPT !["grpc"] = "announce"]
          BY <3>2 DEF ShutdownGRPC, At
        <4> QED BY <4>1, <4>2
      <3> QED BY <2>3, <3>1, <3>2
    <2>4. CASE AnnounceServer \/ AnnounceService
      <3>1. UNCHANGED <<frozen, cancelled>>
        BY <2>4 DEF AnnounceServer, AnnounceService
      <3>2. PICK to \in {"announce2", "freeze"} :
               stage' = [stage EXCEPT !["grpc"] = to]
        BY <2>4 DEF AnnounceServer, AnnounceService, At
      <3>3. PICK n \in Names : SetServingStatus(n, "NOT_SERVING")
        BY <2>4 DEF AnnounceServer, AnnounceService
      <3>4. /\ status' \in [Names -> {"SERVING", "NOT_SERVING", "UNKNOWN"}]
            /\ frozen => status' = status
        BY <3>3 DEF SetServingStatus
      <3> QED BY <3>1, <3>2, <3>4
    <2>5. CASE Drain
      BY <2>5 DEF Drain, HealthShutdown, At
    <2>6. CASE Stopped
      BY <2>6 DEF Stopped, LastReturned, At
    <2>7. CASE PollSets
      BY <2>7 DEF PollSets, SetServingStatus, Serving
    <2> QED BY <2>1, <2>2, <2>3, <2>4, <2>5, <2>6, <2>7, QuietSteps DEF vars
  <1> QED BY <1>1, <1>2, PTL DEF Spec

(* Once the gRPC server drains, its health service answers NOT_SERVING for  *)
(* both names, whatever poll was under way when Shutdown began.             *)
THEOREM Announced == Spec => []DrainIsAnnounced
  <1>1. AnnounceInv => DrainIsAnnounced
    BY DEF AnnounceInv, DrainIsAnnounced
  <1> QED BY <1>1, AnnounceInvHolds, PTL

(* The gRPC server returns without handlers, the HTTP server with handlers  *)
(* it cut off, and run goes on when both have returned.                     *)
DrainInv ==
    /\ stage \in [Servers -> {"new", "serving", "announce", "announce2",
                              "freeze", "draining", "forced", "returned"}]
    /\ handler \in [Handlers -> {"none", "running", "done"}]
    /\ stage["http"] = "returned" => Running("http") \subseteq cut
    /\ stage["grpc"] \in {"new", "returned"} => Running("grpc") = {}
    /\ stage["http"] = "new" => Running("http") = {}
    /\ main # "wait" => AllReturned

(* A server that has returned left no handler running that it did not cut.  *)
LEMMA DrainInvHolds == Spec => []DrainInv
  <1>1. Init => DrainInv
    BY DEF Init, DrainInv, Servers, Running, Of, Handlers
  <1>2. DrainInv /\ [Next]_vars => DrainInv'
    <2> SUFFICES ASSUME DrainInv, [Next]_vars PROVE DrainInv'
      OBVIOUS
    <2> USE DEF DrainInv, Servers, Running, Of, Handlers, AllReturned
    <2>1. CASE UNCHANGED <<stage, handler, cut, main>>
      BY <2>1
    <2>2. ASSUME NEW s \in Servers, Start(s) \/ StartFails(s)
          PROVE  DrainInv'
      BY <2>2, SMT DEF Start, StartFails, At
    <2>3. ASSUME NEW s \in Servers, Drained(s) \/ ForceStop(s)
          PROVE  DrainInv'
      BY <2>3, SMT DEF Drained, ForceStop, At
    <2>4. CASE ShutdownHTTP \/ ShutdownGRPC \/ AnnounceServer
                   \/ AnnounceService \/ Drain \/ Stopped
      BY <2>4 DEF ShutdownHTTP, ShutdownGRPC, AnnounceServer,
                  AnnounceService, Drain, Stopped, LastReturned, At
    <2>5. ASSUME NEW h \in Handlers, Arrive(h) PROVE DrainInv'
      BY <2>5, HandlersAssumption DEF Arrive
    <2>6. ASSUME NEW h \in Handlers, Finish(h) PROVE DrainInv'
      BY <2>6 DEF Finish
    <2>7. CASE MainSteps
      BY <2>7 DEF MainSteps, ServersDone, CloseRedis, CloseDB, Exit, Proceed
    <2>8. \/ UNCHANGED <<stage, handler, cut, main>>
          \/ \E s \in Servers : Start(s) \/ StartFails(s) \/ Drained(s)
                                   \/ ForceStop(s)
          \/ ShutdownHTTP \/ ShutdownGRPC \/ AnnounceServer
          \/ AnnounceService \/ Drain \/ Stopped
          \/ \E h \in Handlers : Arrive(h) \/ Finish(h)
          \/ MainSteps
      BY DEF vars, Next, ServerSteps, ServeStops, Acquire, PollSteps,
             PollBegins, PollChecks, PollSets, PollTicks, PollEnds, Signal, Flip
    <2> QED BY <2>1, <2>2, <2>3, <2>4, <2>5, <2>6, <2>7, <2>8
  <1> QED BY <1>1, <1>2, PTL DEF Spec

(* "The process waits for both to drain before the pools close": from the   *)
(* moment run leaves servers.Wait, no payments call is running, and every   *)
(* HTTP request still running has been cut off by its server's budget.      *)
THEOREM PoolsOutlive == Spec => []PoolsOutliveRequests
  <1>1. DrainInv => PoolsOutliveRequests
    BY SMT DEF DrainInv, PoolsOutliveRequests, AllReturned, Running, Of, Servers,
           Handlers
  <1> QED BY <1>1, DrainInvHolds, PTL

(****************************************************************************)
(* The probes                                                               *)
(****************************************************************************)
(* No two checks of a registry have the same name.                          *)
Unique(s) == \A i, j \in DOMAIN s : s[i].name = s[j].name => i = j

(* A Result is the one of the check with its name, which found the          *)
(* dependency as it was at some moment of the probe.                        *)
ResultOK(p, n) ==
    \E i \in DOMAIN snapshot[p] :
        /\ snapshot[p][i].name = n
        /\ results[p][n].required = snapshot[p][i].required
        /\ \/ /\ results[p][n].status = "healthy"
              /\ snapshot[p][i].fn \in good[p]
           \/ /\ results[p][n].status = "unhealthy"
              /\ snapshot[p][i].fn \in bad[p] \/ p \in expired

ProbeInv(p) ==
    /\ Unique(snapshot[p])
    /\ \A n \in DOMAIN results[p] : ResultOK(p, n)
    /\ at[p] \in {"called", "waiting"} => /\ OK(mood) \subseteq good[p]
                                          /\ NotOK(mood) \subseteq bad[p]
    /\ at[p] = "called" => known[p] \subseteq NamesOf(checks)
    /\ at[p] = "called" => DOMAIN results[p] = {}
    /\ at[p] \in {"waiting", "ready"} => known[p] \subseteq NamesOf(snapshot[p])
    /\ at[p] = "ready" =>
          /\ DOMAIN results[p] = NamesOf(snapshot[p])
          /\ code[p] = IF FailedRequired(p) = {} THEN 200 ELSE 503
    /\ code[p] = 503 => at[p] = "ready"

HealthTypeOK ==
    /\ checks \in Seq(Wiring)
    /\ snapshot \in [Clients -> Seq(Wiring)]
    /\ mood \in [Fns -> Moods]
    /\ DOMAIN at = Clients /\ DOMAIN results = Clients
    /\ DOMAIN code = Clients /\ DOMAIN known = Clients
    /\ DOMAIN good = Clients /\ DOMAIN bad = Clients

HealthInv ==
    /\ HealthTypeOK
    /\ Unique(checks)
    /\ \A p \in Clients : ProbeInv(p)

(* The registry starts empty.                                               *)
LEMMA HealthStart == HealthInit => HealthInv
  <1> SUFFICES ASSUME HealthInit PROVE HealthInv
    OBVIOUS
  <1>1. HealthTypeOK /\ Unique(checks)
    BY SMT DEF HealthInit, HealthTypeOK, Unique
  <1>2. ASSUME NEW p \in Clients PROVE ProbeInv(p)
    <2>1. /\ snapshot[p] = << >> /\ DOMAIN results[p] = {}
          /\ at[p] = "idle" /\ code[p] = 0
      BY DEF HealthInit, NoResults
    <2> QED BY <2>1, SMT DEF ProbeInv, Unique
  <1> QED BY <1>1, <1>2 DEF HealthInv

(* register keeps the names apart and removes none.                         *)
LEMMA RegisterKeepsNames ==
  ASSUME checks \in Seq(Wiring), Unique(checks), NEW c \in Wiring
  PROVE  /\ Registered(c) \in Seq(Wiring) /\ Unique(Registered(c))
         /\ NamesOf(checks) \subseteq NamesOf(Registered(c))
  <1> DEFINE R == Registered(c)
  <1>1. DOMAIN checks = 1 .. Len(checks) /\ Len(checks) \in Nat
        /\ \A i \in DOMAIN checks : checks[i] \in Wiring
    BY SMT
  <1>2. CASE c.name \in NamesOf(checks)
    <2>1. R = [i \in DOMAIN checks |-> IF checks[i].name = c.name THEN c
                                                              ELSE checks[i]]
      BY <1>2 DEF Registered
    <2>2. R \in Seq(Wiring)
      BY <1>1, <2>1, SMT
    <2>3. DOMAIN R = DOMAIN checks
          /\ \A i \in DOMAIN checks : R[i].name = checks[i].name
      BY <2>1
    <2> QED BY <2>2, <2>3 DEF Unique, NamesOf
  <1>3. CASE c.name \notin NamesOf(checks)
    <2>1. R = Append(checks, c)
      BY <1>3 DEF Registered
    <2>2. R \in Seq(Wiring)
      BY <2>1, SMT
    <2>3. /\ DOMAIN R = 1 .. Len(checks) + 1 /\ R[Len(checks) + 1] = c
          /\ \A i \in DOMAIN checks : i \in DOMAIN R /\ R[i] = checks[i]
      BY <1>1, <2>1, SMT
    <2>4. \A i \in DOMAIN R : i \in DOMAIN checks \/ i = Len(checks) + 1
      BY <1>1, <2>3, SMT
    <2>5. \A i \in DOMAIN checks : checks[i].name # c.name
      BY <1>3 DEF NamesOf
    <2> HIDE DEF R
    <2>6. Unique(R)
      BY <2>3, <2>4, <2>5 DEF Unique
    <2>7. NamesOf(checks) \subseteq NamesOf(R)
      BY <2>3 DEF NamesOf
    <2> QED BY <2>2, <2>6, <2>7 DEF R
  <1> QED BY <1>2, <1>3

(* A step in which the results of p stay, its dependencies are seen the     *)
(* same or in more ways, and no name leaves the registry.                   *)
LEMMA ProbeStays ==
  ASSUME NEW p \in Clients, ProbeInv(p),
         at'[p] = at[p], snapshot'[p] = snapshot[p], results'[p] = results[p],
         code'[p] = code[p], known'[p] = known[p],
         good[p] \subseteq good'[p], bad[p] \subseteq bad'[p],
         p \in expired => p \in expired',
         NamesOf(checks) \subseteq NamesOf(checks'),
         at[p] \in {"called", "waiting"} => /\ OK(mood') \subseteq good'[p]
                                            /\ NotOK(mood') \subseteq bad'[p]
  PROVE  ProbeInv(p)'
  <1>1. \A n \in DOMAIN results[p] : ResultOK(p, n) => ResultOK(p, n)'
    BY DEF ResultOK
  <1>2. FailedRequired(p)' = FailedRequired(p)
    BY DEF FailedRequired, Failed
  <1>3. Unique(snapshot[p])' /\ \A n \in DOMAIN results'[p] : ResultOK(p, n)'
    BY <1>1, SMT DEF ProbeInv, Unique
  <1>4. at'[p] \in {"called", "waiting"} => /\ OK(mood)' \subseteq good'[p]
                                            /\ NotOK(mood)' \subseteq bad'[p]
    BY DEF OK, NotOK
  <1>5. /\ at'[p] = "called" => known'[p] \subseteq NamesOf(checks)'
        /\ at'[p] = "called" => DOMAIN results'[p] = {}
        /\ at'[p] \in {"waiting", "ready"} =>
              known'[p] \subseteq NamesOf(snapshot'[p])
    BY SMT DEF ProbeInv
  <1>6. /\ at'[p] = "ready" =>
              /\ DOMAIN results'[p] = NamesOf(snapshot'[p])
              /\ code'[p] = IF FailedRequired(p)' = {} THEN 200 ELSE 503
        /\ code'[p] = 503 => at'[p] = "ready"
    BY <1>2, SMT DEF ProbeInv
  <1> QED BY <1>3, <1>4, <1>5, <1>6 DEF ProbeInv

(* Check takes its copy of the registry.                                    *)
LEMMA SnapshotKeeps ==
  ASSUME HealthInv, NEW p \in Clients, Snapshot(p)
  PROVE  ProbeInv(p)'
  <1>1. /\ at[p] = "called" /\ at'[p] = "waiting" /\ snapshot'[p] = checks
        /\ UNCHANGED <<checks, mood, results, expired, code, known, good, bad>>
    BY DEF HealthInv, HealthTypeOK, Snapshot, Copy
  <1>2. /\ ProbeInv(p) /\ Unique(checks)
    BY DEF HealthInv
  <1>3. /\ DOMAIN results'[p] = {} /\ code'[p] # 503
        /\ known'[p] \subseteq NamesOf(snapshot'[p])
        /\ OK(mood)' \subseteq good'[p] /\ NotOK(mood)' \subseteq bad'[p]
    BY <1>1, <1>2, SMT DEF ProbeInv, OK, NotOK
  <1>4. Unique(snapshot[p])'
    BY <1>1, <1>2 DEF Unique
  <1> QED BY <1>1, <1>3, <1>4 DEF ProbeInv

(* A check returns.                                                         *)
LEMMA RunKeeps ==
  ASSUME HealthInv, NEW p \in Clients, NEW i \in DOMAIN snapshot[p], Run(p, i)
  PROVE  ProbeInv(p)'
  <1> DEFINE c == snapshot[p][i]
  <1>1. PICK s \in Outcomes(p, c.fn) :
           results' = [results EXCEPT ![p] =
                  [n \in DOMAIN @ \cup {c.name} |->
                     IF n = c.name
                     THEN [status |-> s, required |-> c.required]
                     ELSE @[n]]]
    BY DEF Run
  <1>2. /\ at[p] = "waiting"
        /\ UNCHANGED <<checks, mood, at, snapshot, expired, code, known, good,
                       bad>>
    BY DEF Run
  <1>3. /\ DOMAIN results'[p] = DOMAIN results[p] \cup {c.name}
        /\ results'[p][c.name] = [status |-> s, required |-> c.required]
        /\ \A n \in DOMAIN results[p] \ {c.name} :
              results'[p][n] = results[p][n]
    BY <1>1 DEF HealthInv, HealthTypeOK
  <1>4. ProbeInv(p) /\ c.fn \in Fns
    BY SMT DEF HealthInv, HealthTypeOK, Fns
  <1>5. \/ s = "healthy" /\ c.fn \in good[p]
        \/ s = "unhealthy" /\ (c.fn \in bad[p] \/ p \in expired)
    BY <1>1, <1>2, <1>4, SMT DEF Outcomes, ProbeInv, OK, NotOK
  <1>m. PICK m : m = c.name
    OBVIOUS
  <1>6. ResultOK(p, m)'
    <2>1. /\ i \in DOMAIN snapshot'[p] /\ snapshot'[p][i] = c
          /\ good'[p] = good[p] /\ bad'[p] = bad[p] /\ expired' = expired
      BY <1>2
    <2>2. results'[p][m].status = s /\ results'[p][m].required = c.required
      BY <1>3, <1>m, SMT
    <2> HIDE DEF c
    <2> QED BY <1>5, <1>m, <2>1, <2>2 DEF ResultOK
  <1>7. \A n \in DOMAIN results[p] \ {m} : ResultOK(p, n)'
    BY <1>2, <1>3, <1>4, <1>m, SMT DEF ResultOK, ProbeInv
  <1>8. \A n \in DOMAIN results'[p] : ResultOK(p, n)'
    BY <1>3, <1>6, <1>7, <1>m
  <1>9. /\ OK(mood)' \subseteq good'[p] /\ NotOK(mood)' \subseteq bad'[p]
        /\ known'[p] \subseteq NamesOf(snapshot'[p])
        /\ code'[p] # 503 /\ at'[p] = "waiting"
    BY <1>2, <1>4, SMT DEF ProbeInv, OK, NotOK
  <1>10. Unique(snapshot[p])'
    BY <1>2, <1>4, SMT DEF ProbeInv, Unique
  <1> QED BY <1>8, <1>9, <1>10 DEF ProbeInv

(* A request comes in.                                                      *)
LEMMA RequestKeeps ==
  ASSUME HealthInv, NEW p \in Clients, NEW r \in Requests, ServeHTTP(p, r)
  PROVE  ProbeInv(p)'
  <1>1. /\ snapshot'[p] = << >> /\ DOMAIN results'[p] = {}
        /\ UNCHANGED <<checks, mood>>
    BY DEF ServeHTTP, NoResults, HealthInv, HealthTypeOK
  <1>2. \/ /\ at'[p] = "called" /\ known'[p] = NamesOf(checks)
           /\ good'[p] = OK(mood) /\ bad'[p] = NotOK(mood) /\ code'[p] = 0
        \/ at'[p] = "answered" /\ code'[p] \in {200, 404, 405}
    <2>0. /\ DOMAIN at = Clients /\ DOMAIN known = Clients
          /\ DOMAIN good = Clients /\ DOMAIN bad = Clients
          /\ DOMAIN code = Clients
      BY DEF HealthInv, HealthTypeOK
    <2>1. CASE r = "GET /readyz"
      <3>1. /\ at' = [at EXCEPT ![p] = "called"]
            /\ known' = [known EXCEPT ![p] = NamesOf(checks)]
            /\ good' = [good EXCEPT ![p] = OK(mood)]
            /\ bad' = [bad EXCEPT ![p] = NotOK(mood)]
            /\ code' = [code EXCEPT ![p] = 0]
        BY <2>1 DEF ServeHTTP
      <3> QED BY <2>0, <3>1, SMT
    <2>2. CASE r # "GET /readyz"
      <3>1. /\ at' = [at EXCEPT ![p] = "answered"]
            /\ code' = [code EXCEPT ![p] =
                 IF r \in Routes THEN 200
                 ELSE IF r = "POST /healthz" THEN 405 ELSE 404]
        BY <2>2 DEF ServeHTTP
      <3>2. at'[p] = "answered"
        BY <2>0, <3>1
      <3>3. code'[p] = IF r \in Routes THEN 200
                       ELSE IF r = "POST /healthz" THEN 405 ELSE 404
        BY <2>0, <3>1
      <3> QED BY <3>2, <3>3
    <2> QED BY <2>1, <2>2
  <1>3. Unique(snapshot[p])'
    BY <1>1, SMT DEF Unique
  <1>4. NamesOf(checks)' = NamesOf(checks) /\ OK(mood)' = OK(mood)
        /\ NotOK(mood)' = NotOK(mood)
    BY <1>1 DEF NamesOf, OK, NotOK
  <1> QED BY <1>1, <1>2, <1>3, <1>4, SMT DEF ProbeInv

(* The report is complete, and the response written.                        *)
LEMMA ReadyKeeps ==
  ASSUME HealthInv, NEW p \in Clients, handleReady(p)
  PROVE  ProbeInv(p)'
  <1>1. /\ at[p] = "waiting" /\ at'[p] = "ready"
        /\ DOMAIN results[p] = NamesOf(snapshot[p])
        /\ code'[p] = IF FailedRequired(p) = {} THEN 200 ELSE 503
        /\ UNCHANGED <<checks, mood, snapshot, results, expired, known, good,
                       bad>>
    BY DEF handleReady, ChecksReturned, HealthInv, HealthTypeOK
  <1>2. ProbeInv(p)
    BY DEF HealthInv
  <1>3. FailedRequired(p)' = FailedRequired(p)
    BY <1>1, SMT DEF FailedRequired, Failed
  <1>4. \A n \in DOMAIN results'[p] : ResultOK(p, n)'
    BY <1>1, <1>2, SMT DEF ResultOK, ProbeInv
  <1>5. Unique(snapshot[p])' /\ known'[p] \subseteq NamesOf(snapshot'[p])
    BY <1>1, <1>2, SMT DEF ProbeInv, Unique
  <1> QED BY <1>1, <1>3, <1>4, <1>5, SMT DEF ProbeInv

(* A step of probe p leaves the registry, the dependencies and the other    *)
(* probes alone.                                                            *)
Alone(p) ==
    /\ UNCHANGED <<checks, mood>>
    /\ \A q \in Clients \ {p} :
          /\ at'[q] = at[q] /\ snapshot'[q] = snapshot[q]
          /\ results'[q] = results[q] /\ code'[q] = code[q]
          /\ known'[q] = known[q] /\ good'[q] = good[q]
          /\ bad'[q] = bad[q] /\ (q \in expired <=> q \in expired')

(* A new request touches the probe it belongs to.                           *)
LEMMA RequestAlone ==
  ASSUME HealthTypeOK, NEW p \in Clients, NEW r \in Requests, ServeHTTP(p, r)
  PROVE  Alone(p) /\ HealthTypeOK'
  <1>0. << >> \in Seq(Wiring)
    BY SMT
  <1>1. /\ snapshot' = [snapshot EXCEPT ![p] = << >>]
        /\ results' = [results EXCEPT ![p] = NoResults]
        /\ expired' = expired \ {p}
        /\ UNCHANGED <<checks, mood>>
    BY DEF ServeHTTP
  <1>2. /\ \E a : at' = [at EXCEPT ![p] = a]
        /\ \E c : code' = [code EXCEPT ![p] = c]
        /\ UNCHANGED known \/ \E k : known' = [known EXCEPT ![p] = k]
        /\ UNCHANGED good \/ \E g : good' = [good EXCEPT ![p] = g]
        /\ UNCHANGED bad \/ \E b : bad' = [bad EXCEPT ![p] = b]
    <2>1. CASE r = "GET /readyz"
      BY <2>1 DEF ServeHTTP
    <2>2. CASE r # "GET /readyz"
      <3>1. /\ at' = [at EXCEPT ![p] = "answered"]
            /\ UNCHANGED <<known, good, bad>>
        BY <2>2 DEF ServeHTTP
      <3>2. \E c : code' = [code EXCEPT ![p] = c]
        BY <2>2 DEF ServeHTTP
      <3> QED BY <3>1, <3>2
    <2> QED BY <2>1, <2>2
  <1>3. /\ DOMAIN at = Clients /\ DOMAIN results = Clients
        /\ DOMAIN code = Clients /\ DOMAIN known = Clients
        /\ DOMAIN good = Clients /\ DOMAIN bad = Clients
        /\ snapshot \in [Clients -> Seq(Wiring)]
    BY DEF HealthTypeOK
  <1>4. /\ DOMAIN at' = Clients /\ DOMAIN code' = Clients
        /\ \A q \in Clients \ {p} : at'[q] = at[q] /\ code'[q] = code[q]
    BY <1>2, <1>3, SMT
  <1>5. /\ DOMAIN known' = Clients
        /\ \A q \in Clients \ {p} : known'[q] = known[q]
    BY <1>2, <1>3, SMT
  <1>6. /\ DOMAIN good' = Clients /\ DOMAIN bad' = Clients
        /\ \A q \in Clients \ {p} : good'[q] = good[q] /\ bad'[q] = bad[q]
    BY <1>2, <1>3, SMT
  <1>7. /\ DOMAIN results' = Clients /\ snapshot' \in [Clients -> Seq(Wiring)]
        /\ \A q \in Clients \ {p} :
              /\ results'[q] = results[q] /\ snapshot'[q] = snapshot[q]
              /\ (q \in expired <=> q \in expired')
    BY <1>0, <1>1, <1>3, SMT
  <1>8. Alone(p)
    BY <1>1, <1>4, <1>5, <1>6, <1>7 DEF Alone
  <1> QED BY <1>1, <1>4, <1>5, <1>6, <1>7, <1>8 DEF HealthTypeOK

(* So do Check, its goroutines and its timer.                               *)
LEMMA StepsAlone ==
  ASSUME HealthTypeOK, NEW p \in Clients, Checking(p) \/ Expire(p)
  PROVE  Alone(p) /\ HealthTypeOK'
  <1> USE DEF HealthTypeOK, Alone
  <1>2. CASE Snapshot(p)
    BY <1>2 DEF Snapshot, Copy
  <1>3. ASSUME NEW i \in DOMAIN snapshot[p], Run(p, i)
        PROVE  Alone(p) /\ HealthTypeOK'
    <2>1. PICK s : results' = [results EXCEPT ![p] = s]
      BY <1>3 DEF Run
    <2>2. UNCHANGED <<checks, mood, at, snapshot, expired, code, known, good, bad>>
      BY <1>3 DEF Run
    <2> QED BY <2>1, <2>2
  <1>4. CASE handleReady(p)
    <2>1. PICK c : code' = [code EXCEPT ![p] = c]
      <3>1. code' = [code EXCEPT ![p] = IF FailedRequired(p) = {} THEN 200
                                                               ELSE 503]
        BY <1>4 DEF handleReady
      <3> QED BY <3>1
    <2> QED BY <1>4, <2>1 DEF handleReady
  <1>5. CASE Expire(p)
    BY <1>5 DEF Expire
  <1> QED BY <1>2, <1>3, <1>4, <1>5 DEF Checking

(* Every step keeps what is known of every probe.                           *)
LEMMA HealthKept ==
  ASSUME HealthInv, [HealthNext]_healthVars
  PROVE  HealthInv'
  <1> USE DEF HealthInv
  <1>0. CASE UNCHANGED healthVars
    <2>1. UNCHANGED <<checks, mood, at, snapshot, results, expired, code, known,
                      good, bad>>
      BY <1>0 DEF healthVars
    <2>2. ASSUME NEW p \in Clients PROVE ProbeInv(p)'
      BY <2>1, ProbeStays, SMT DEF ProbeInv
    <2> QED BY <2>1, <2>2 DEF HealthTypeOK, Unique
  <1>1. ASSUME NEW c \in Wiring, Register(c) PROVE HealthInv'
    <2>1. /\ checks' = Registered(c)
          /\ UNCHANGED <<mood, at, snapshot, results, expired, code, known, good,
                         bad>>
      BY <1>1 DEF Register
    <2>2. /\ checks' \in Seq(Wiring) /\ Unique(checks')
          /\ NamesOf(checks) \subseteq NamesOf(checks')
      BY <2>1, RegisterKeepsNames DEF HealthTypeOK
    <2>3. ASSUME NEW p \in Clients PROVE ProbeInv(p)'
      <3>1. ProbeInv(p)
        OBVIOUS
      <3>2. at[p] \in {"called", "waiting"} => /\ OK(mood) \subseteq good[p]
                                              /\ NotOK(mood) \subseteq bad[p]
        BY <3>1 DEF ProbeInv
      <3>3. at[p] \in {"called", "waiting"} => /\ OK(mood') \subseteq good'[p]
                                              /\ NotOK(mood') \subseteq bad'[p]
        BY <2>1, <3>2
      <3>4. /\ at'[p] = at[p] /\ snapshot'[p] = snapshot[p]
            /\ results'[p] = results[p] /\ code'[p] = code[p]
            /\ known'[p] = known[p]
            /\ good[p] \subseteq good'[p] /\ bad[p] \subseteq bad'[p]
            /\ p \in expired => p \in expired'
            /\ NamesOf(checks) \subseteq NamesOf(checks') /\ p \in Clients
        BY <2>1, <2>2
      <3> QED BY <3>1, <3>3, <3>4, ProbeStays
    <2> QED BY <2>1, <2>2, <2>3 DEF HealthTypeOK
  <1>2. ASSUME NEW p \in Clients,
               \/ \E r \in Requests : ServeHTTP(p, r)
               \/ Checking(p)
               \/ Expire(p)
        PROVE  HealthInv'
    <2>1. /\ UNCHANGED <<checks, mood>>
          /\ \A q \in Clients \ {p} :
                /\ at'[q] = at[q] /\ snapshot'[q] = snapshot[q]
                /\ results'[q] = results[q] /\ code'[q] = code[q]
                /\ known'[q] = known[q] /\ good'[q] = good[q]
                /\ bad'[q] = bad[q] /\ (q \in expired <=> q \in expired')
      BY <1>2, RequestAlone, StepsAlone DEF Alone
    <2>2. HealthTypeOK'
      BY <1>2, RequestAlone, StepsAlone
    <2>3. ASSUME NEW q \in Clients \ {p} PROVE ProbeInv(q)'
      <3>1. ProbeInv(q)
        OBVIOUS
      <3>2. at[q] \in {"called", "waiting"} => /\ OK(mood') \subseteq good'[q]
                                              /\ NotOK(mood') \subseteq bad'[q]
        <4>1. at[q] \in {"called", "waiting"} => /\ OK(mood) \subseteq good[q]
                                                /\ NotOK(mood) \subseteq bad[q]
          BY <3>1 DEF ProbeInv
        <4> QED BY <2>1, <4>1
      <3>3. /\ at'[q] = at[q] /\ snapshot'[q] = snapshot[q]
            /\ results'[q] = results[q] /\ code'[q] = code[q]
            /\ known'[q] = known[q]
            /\ good[q] \subseteq good'[q] /\ bad[q] \subseteq bad'[q]
            /\ q \in expired => q \in expired'
            /\ NamesOf(checks) \subseteq NamesOf(checks') /\ q \in Clients
        BY <2>1
      <3> QED BY <3>1, <3>2, <3>3, ProbeStays
    <2>4. ProbeInv(p)'
      <3>1. CASE Expire(p)
        <4>1. /\ UNCHANGED <<checks, mood, at, snapshot, results, code, known,
                             good, bad>>
              /\ p \in expired'
          BY <3>1 DEF Expire
        <4>2. ProbeInv(p)
          OBVIOUS
        <4>3. at[p] \in {"called", "waiting"} => /\ OK(mood) \subseteq good[p]
                                                /\ NotOK(mood) \subseteq bad[p]
          BY <4>2 DEF ProbeInv
        <4>4. at[p] \in {"called", "waiting"} =>
                /\ OK(mood') \subseteq good'[p]
                /\ NotOK(mood') \subseteq bad'[p]
          BY <4>1, <4>3
        <4>5. /\ at'[p] = at[p] /\ snapshot'[p] = snapshot[p]
              /\ results'[p] = results[p] /\ code'[p] = code[p]
              /\ known'[p] = known[p]
              /\ good[p] \subseteq good'[p] /\ bad[p] \subseteq bad'[p]
              /\ p \in expired => p \in expired'
              /\ NamesOf(checks) \subseteq NamesOf(checks') /\ p \in Clients
          BY <4>1
        <4> QED BY <4>2, <4>4, <4>5, ProbeStays
      <3> QED BY <1>2, <3>1, RequestKeeps, SnapshotKeeps, RunKeeps, ReadyKeeps
              DEF Checking
    <2>5. Unique(checks)'
      BY <2>1 DEF Unique
    <2> QED BY <2>2, <2>3, <2>4, <2>5
  <1>3. ASSUME NEW f \in Fns, NEW m \in Moods, Change(f, m) PROVE HealthInv'
    <2>1. /\ mood' = [mood EXCEPT ![f] = m]
          /\ UNCHANGED <<checks, at, snapshot, results, expired, code, known>>
          /\ \A p \in Clients :
                /\ good[p] \subseteq good'[p] /\ bad[p] \subseteq bad'[p]
                /\ at[p] \in {"called", "waiting"} =>
                      /\ OK(mood') \subseteq good'[p]
                      /\ NotOK(mood') \subseteq bad'[p]
      BY <1>3 DEF Change
    <2>2. ASSUME NEW p \in Clients PROVE ProbeInv(p)'
      BY <2>1, ProbeStays
    <2>3. HealthTypeOK' /\ Unique(checks)'
      BY <1>3, <2>1, SMT DEF HealthTypeOK, Unique, Change
    <2> QED BY <2>2, <2>3
  <1> QED BY <1>0, <1>1, <1>2, <1>3 DEF HealthNext

(* The invariant of the health registry and its probes holds at every step. *)
LEMMA HealthInvHolds == HealthSpec => []HealthInv
  BY HealthStart, HealthKept, PTL DEF HealthSpec

(* A probe that was answered with 200 has no failed required check.         *)
LEMMA ReadyPassed ==
  ASSUME NEW p \in Clients, ProbeInv(p), at[p] = "ready", code[p] = 200
  PROVE  FailedRequired(p) = {}
  BY SMT DEF ProbeInv

(* A probe is told 200 only if every required dependency did answer while   *)
(* it was under way, and 503 only if a required one did not or its time was *)
(* up, for any wiring and any number of probes, however Register, the       *)
(* goroutines of Check and the dependencies interleave.                     *)
THEOREM ReadinessTrue == HealthSpec => []ReadinessIsTrue
  <1>1. HealthInv => ReadinessIsTrue
    <2> SUFFICES ASSUME HealthInv, NEW p \in Clients
                 PROVE  LET required == { i \in DOMAIN snapshot[p] :
                                             snapshot[p][i].required }
                        IN  /\ at[p] = "ready" /\ code[p] = 200 =>
                                 \A i \in required :
                                    snapshot[p][i].fn \in good[p]
                            /\ code[p] = 503 =>
                                 \E i \in required :
                                    \/ snapshot[p][i].fn \in bad[p]
                                    \/ p \in expired
      BY DEF ReadinessIsTrue
    <2>0. ProbeInv(p)
      BY DEF HealthInv
    <2>1. ASSUME at[p] = "ready", code[p] = 200,
                 NEW i \in DOMAIN snapshot[p], snapshot[p][i].required
          PROVE  snapshot[p][i].fn \in good[p]
      <3> DEFINE n == snapshot[p][i].name
      <3>1. FailedRequired(p) = {} /\ n \in DOMAIN results[p]
        <4>1. DOMAIN results[p] = NamesOf(snapshot[p])
          BY <2>0, <2>1 DEF ProbeInv
        <4>2. FailedRequired(p) = {}
          BY <2>0, <2>1, ReadyPassed
        <4> QED BY <4>1, <4>2 DEF NamesOf
      <3>2. PICK j \in DOMAIN snapshot[p] :
              /\ snapshot[p][j].name = n
              /\ results[p][n].required = snapshot[p][j].required
              /\ \/ /\ results[p][n].status = "healthy"
                    /\ snapshot[p][j].fn \in good[p]
                 \/ results[p][n].status = "unhealthy"
        BY <2>0, <3>1, SMT DEF ProbeInv, ResultOK
      <3>3. j = i
        BY <2>0, <3>2 DEF ProbeInv, Unique
      <3>4. results[p][n].status # "unhealthy"
        BY <2>1, <3>1, <3>2, <3>3 DEF FailedRequired, Failed
      <3> QED BY <3>2, <3>3, <3>4
    <2>2. ASSUME code[p] = 503
          PROVE  \E i \in DOMAIN snapshot[p] :
                    /\ snapshot[p][i].required
                    /\ snapshot[p][i].fn \in bad[p] \/ p \in expired
      <3>1. PICK n \in DOMAIN results[p] :
               results[p][n].status = "unhealthy" /\ results[p][n].required
        BY <2>0, <2>2, SMT DEF ProbeInv, FailedRequired, Failed
      <3> QED BY <2>0, <3>1 DEF ProbeInv, ResultOK
    <2> QED BY <2>1, <2>2, SMT
  <1> QED BY <1>1, HealthInvHolds, PTL

(* Every check that was registered when Check was called is in its report,  *)
(* whatever Register did meanwhile.                                         *)
THEOREM ReportComplete == HealthSpec => []ReportIsComplete
  <1>1. HealthInv => ReportIsComplete
    BY SMT DEF HealthInv, ProbeInv, ReportIsComplete
  <1> QED BY <1>1, HealthInvHolds, PTL

(****************************************************************************)
(* The way in                                                               *)
(****************************************************************************)
(* What devtoken leaves on disk: private.pem is of a pair it generated or   *)
(* unreadable, and of the newest pair as long as public.pem is awaited; a   *)
(* whole pair is one pair.                                                  *)
FilesInv ==
    /\ keys \in 0 .. MaxKeys
    /\ DOMAIN files = {"private.pem", "public.pem"}
    /\ files["private.pem"] \in {Unset, Empty, Junk}
                                  \cup { PEM("private", k) : k \in 1 .. keys }
    /\ pair \in {"half", "whole"} => /\ keys # 0
                                     /\ files["private.pem"] = PEM("private", keys)
    /\ pair = "whole" => files["public.pem"] = PEM("public", keys)

(* A token in circulation.                                                  *)
TokenInv(t) ==
    /\ t.alg = "RS256" /\ t.key \in 0 .. keys
    /\ t.iss = Issuer /\ t.aud = {Audience} /\ t.sub = "client"
    /\ t.key # IdPKey => t.scp = {}
    /\ t.nbf \in 0 .. now /\ t.exp = t.nbf + TTL

(* A process that came up has the configuration that its environment says,  *)
(* and a verifier, if any, made of it; from a whole development pair it has *)
(* the key of that pair.                                                    *)
ProcInv ==
    proc.state = "up" =>
        /\ Loads(env) /\ proc.cfg = Configuration(env)
        /\ \/ proc.verifier = NoVerifier
           \/ /\ proc.verifier.kind = "rsa"
              /\ proc.verifier.issuer = proc.cfg["JWT_ISSUER"]
              /\ proc.verifier.audience = proc.cfg["JWT_AUDIENCE"]
              /\ proc.verifier.leeway = proc.cfg["JWT_LEEWAY"]
        /\ \/ proc.devkey = Unset
           \/ /\ proc.devkey \in 1 .. keys
              /\ /\ proc.cfg["JWT_PUBLIC_KEY_FILE"] = "public.pem"
                 /\ proc.cfg["JWT_ISSUER"] = Issuer
                 /\ proc.cfg["JWT_AUDIENCE"] = Audience
                 => /\ proc.verifier.kind = "rsa"
                    /\ proc.verifier.key = proc.devkey

(* The latest request came with nothing or with a token issued by then, and *)
(* the interceptors decided on it with the process' verifier.               *)
RpcInv ==
    \/ rpc = NoRPC
    \/ /\ proc.state = "up"
       /\ rpc.at \in 0 .. now
       /\ HasToken(rpc.header) =>
             \E t \in tokens : rpc.header = [bearer |-> t] /\ t.nbf <= rpc.at
       /\ rpc.name \in Payments =>
             rpc.code = Intercept(proc.verifier, rpc.name, rpc.header, rpc.at)

AccessInv ==
    /\ env \in Environments
    /\ now \in Nat
    /\ FilesInv
    /\ \A t \in tokens : TokenInv(t)
    /\ ProcInv
    /\ RpcInv

(* There are no files, no tokens and no process at first.                   *)
LEMMA AccessStart == AccessInit => AccessInv
  <1> SUFFICES ASSUME AccessInit PROVE AccessInv
    OBVIOUS
  <1>1. FilesInv
    BY BoundsAreNatural, SMT DEF AccessInit, FilesInv
  <1>2. ProcInv /\ RpcInv
    BY DEF AccessInit, ProcInv, RpcInv, Down
  <1> QED BY <1>1, <1>2 DEF AccessInit, AccessInv

(* The verifier that VerifierFromConfig makes, if it makes one.             *)
LEMMA VerifierMade ==
  ASSUME NEW c, NEW fs, VerifierFromConfig(c, fs) # BadVerifier
  PROVE  LET v == VerifierFromConfig(c, fs)
         IN  \/ v = NoVerifier
             \/ /\ v.kind = "rsa" /\ v.issuer = c["JWT_ISSUER"]
                /\ v.audience = c["JWT_AUDIENCE"] /\ v.leeway = c["JWT_LEEWAY"]
  BY DEF VerifierFromConfig, NewVerifier

(* From a whole pair in the configured file it is the key of the pair.      *)
LEMMA PairMade ==
  ASSUME FilesInv, pair = "whole", NEW c,
         c["JWT_PUBLIC_KEY_FILE"] = "public.pem", c["JWT_ISSUER"] = Issuer,
         c["JWT_AUDIENCE"] = Audience
  PROVE  LET v == VerifierFromConfig(c, files)
         IN  v.kind = "rsa" /\ v.key = keys
  <1>1. /\ "public.pem" \in DOMAIN files /\ files["public.pem"] = PEM("public", keys)
        /\ keys \in 0 .. MaxKeys
    BY DEF FilesInv
  <1>2. "public.pem" # Empty /\ Issuer # Empty /\ Audience # Empty
    BY NoMeaning
  <1>3. PEM("public", keys) \notin {Unset, Empty, Blank, Junk}
    BY <1>1, NoMeaning
  <1>4. PEM("public", keys).holds = "public" /\ PEM("public", keys).key = keys
    BY DEF PEM
  <1> HIDE DEF PEM
  <1>5. VerifierFromConfig(c, files) = NewVerifier(PEM("public", keys), c)
    BY <1>1, <1>2, <1>3 DEF VerifierFromConfig
  <1> QED BY <1>2, <1>3, <1>4, <1>5, SMT DEF NewVerifier

(* A start-up gives a process what its environment and its files say.       *)
LEMMA StartKeeps ==
  ASSUME AccessInv, StartProcess
  PROVE  AccessInv'
  <1> DEFINE c == Configuration(env)
             v == VerifierFromConfig(c, files)
  <1>1. /\ rpc' = NoRPC /\ UNCHANGED <<env, files, keys, pair, tokens, now>>
        /\ \/ /\ Loads(env) /\ v # BadVerifier
              /\ proc' = [state |-> "up", cfg |-> c, verifier |-> v,
                          devkey |-> DevKey]
           \/ proc' = [state |-> "refused"]
    BY DEF StartProcess
  <1>2. /\ env' \in Environments /\ now' \in Nat /\ FilesInv' /\ RpcInv'
        /\ \A t \in tokens' : TokenInv(t)'
    BY <1>1 DEF AccessInv, FilesInv, TokenInv, RpcInv
  <1>3. ProcInv'
    <2>1. CASE proc' = [state |-> "refused"]
      BY <2>1 DEF ProcInv
    <2>2. CASE /\ Loads(env) /\ v # BadVerifier
               /\ proc' = [state |-> "up", cfg |-> c, verifier |-> v,
                           devkey |-> DevKey]
      <3>1. /\ proc'.cfg = c /\ proc'.verifier = v /\ proc'.devkey = DevKey
        BY <2>2
      <3>2. \/ DevKey = Unset
            \/ pair = "whole" /\ DevKey = keys /\ keys \in 1 .. keys
        BY SMT DEF DevKey, AccessInv, FilesInv, PEM
      <3>3. Loads(env)' /\ proc'.cfg = Configuration(env)'
        BY <1>1, <2>2, <3>1
      <3> HIDE DEF c, v
      <3>4. \/ v = NoVerifier
            \/ /\ v.kind = "rsa" /\ v.issuer = c["JWT_ISSUER"]
               /\ v.audience = c["JWT_AUDIENCE"] /\ v.leeway = c["JWT_LEEWAY"]
        BY <2>2, VerifierMade DEF v
      <3>5. /\ c["JWT_PUBLIC_KEY_FILE"] = "public.pem"
            /\ c["JWT_ISSUER"] = Issuer /\ c["JWT_AUDIENCE"] = Audience
            /\ pair = "whole"
            => v.kind = "rsa" /\ v.key = keys
        BY PairMade DEF AccessInv, v
      <3> QED BY <1>1, <3>1, <3>2, <3>3, <3>4, <3>5 DEF ProcInv, Issuer, Audience
    <2> QED BY <1>1, <2>1, <2>2
  <1> QED BY <1>2, <1>3 DEF AccessInv

(* A request is decided with what the process was started with.             *)
LEMMA RequestDecided ==
  ASSUME AccessInv, NEW n, NEW h \in Headers, Request(n, h)
  PROVE  AccessInv'
  <1>1. /\ proc.state = "up" /\ UNCHANGED <<env, files, proc, keys, pair, tokens, now>>
    BY DEF Request
  <1>2. /\ env' \in Environments /\ now' \in Nat /\ FilesInv' /\ ProcInv'
        /\ \A t \in tokens' : TokenInv(t)'
    BY <1>1 DEF AccessInv, FilesInv, TokenInv, ProcInv
  <1>3. PICK c : /\ rpc' = [name |-> n, header |-> h, at |-> now, code |-> c]
                 /\ n # "ServerReflection" =>
                       c = Intercept(proc.verifier, n, h, now)
    BY DEF Request
  <1>4. /\ rpc'.name = n /\ rpc'.header = h /\ rpc'.at = now /\ rpc'.code = c
    BY <1>3
  <1>5. n \in Payments => n # "ServerReflection"
    BY DEF Payments, requiredScopes
  <1>6. HasToken(h) => \E t \in tokens : h = [bearer |-> t] /\ t.nbf <= now
    <2> SUFFICES ASSUME HasToken(h)
                 PROVE  \E t \in tokens : h = [bearer |-> t] /\ t.nbf <= now
      OBVIOUS
    <2>1. PICK t \in tokens : h = [bearer |-> t]
      BY DEF Headers, HasToken
    <2>2. t.nbf \in 0 .. now
      BY DEF AccessInv, TokenInv
    <2> QED BY <2>1, <2>2, SMT DEF AccessInv
  <1>7. now \in 0 .. now
    BY SMT DEF AccessInv
  <1>8. RpcInv'
    BY <1>1, <1>3, <1>4, <1>5, <1>6, <1>7 DEF RpcInv, HasToken
  <1> QED BY <1>2, <1>8 DEF AccessInv

(* A token that mint makes, with the provider's key or another.             *)
LEMMA Minted ==
  ASSUME AccessInv, NEW k \in 0 .. keys, NEW scopes
  PROVE  /\ TokenInv(mint(k, scopes))
         /\ k = IdPKey => TokenInv([mint(k, {}) EXCEPT !.scp = scopes])
  <1>1. now \in 0 .. now
    BY SMT DEF AccessInv
  <1> QED BY <1>1 DEF mint, TokenInv

(* Once a token is in circulation, time and new pairs leave it as it is.    *)
LEMMA TokensStay ==
  ASSUME AccessInv, keys' \in Nat, keys' >= keys, now' \in Nat, now' >= now
  PROVE  \A t : TokenInv(t) => TokenInv(t)'
  <1>1. keys \in Nat /\ now \in Nat
    BY BoundsAreNatural, SMT DEF AccessInv, FilesInv
  <1>2. \A x : (x \in 0 .. keys => x \in 0 .. keys')
               /\ (x \in 0 .. now => x \in 0 .. now')
    BY <1>1, SMT
  <1> QED BY <1>2 DEF TokenInv

(* What became of a request stays true as time and tokens go on.            *)
LEMMA RpcStays ==
  ASSUME RpcInv, UNCHANGED <<proc, rpc>>, tokens \subseteq tokens',
         now \in Nat, now' \in Nat, now' >= now
  PROVE  RpcInv'
  <1>1. \A x \in 0 .. now : x \in 0 .. now'
    BY SMT
  <1> QED BY <1>1 DEF RpcInv

(* What a process was started with stays true as keys are generated.        *)
LEMMA ProcStays ==
  ASSUME ProcInv, UNCHANGED <<env, proc>>, keys \in Nat, keys' \in Nat,
         keys' >= keys
  PROVE  ProcInv'
  <1>1. \A x \in 1 .. keys : x \in 1 .. keys'
    BY SMT
  <1> QED BY <1>1 DEF ProcInv

(* A step that leaves the process and its latest request alone, and does    *)
(* nothing but issue a token, generate keys and let time pass.              *)
LEMMA BesideKeeps ==
  ASSUME AccessInv, UNCHANGED <<env, proc, rpc>>, FilesInv', keys' >= keys,
         now' \in Nat, now' >= now,
         UNCHANGED tokens \/ \E t : TokenInv(t) /\ tokens' = tokens \cup {t}
  PROVE  AccessInv'
  <1>1. keys \in Nat /\ keys' \in Nat /\ now \in Nat
    BY BoundsAreNatural, SMT DEF AccessInv, FilesInv
  <1>2. \A t : TokenInv(t) => TokenInv(t)'
    BY <1>1, TokensStay
  <1>3. tokens \subseteq tokens' /\ \A u \in tokens' : TokenInv(u)
    BY DEF AccessInv
  <1>4. RpcInv' /\ ProcInv'
    BY <1>1, <1>3, RpcStays, ProcStays DEF AccessInv
  <1> QED BY <1>2, <1>3, <1>4 DEF AccessInv

(* Every step of the process, of devtoken and of the provider.              *)
LEMMA AccessKept ==
  ASSUME AccessInv, [AccessNext]_accessVars
  PROVE  AccessInv'
  <1>0. /\ keys \in 0 .. MaxKeys /\ keys >= keys /\ now >= now /\ MaxKeys \in Nat
        /\ now \in Nat /\ FilesInv
    BY BoundsAreNatural, SMT DEF AccessInv, FilesInv
  <1>1. CASE UNCHANGED accessVars
    <2>1. UNCHANGED <<env, files, proc, keys, pair, tokens, now, rpc>>
      BY <1>1 DEF accessVars
    <2>2. FilesInv'
      BY <1>0, <2>1 DEF FilesInv
    <2> QED BY <1>0, <2>1, <2>2, BesideKeeps
  <1>2. CASE StartProcess
    BY <1>2, StartKeeps
  <1>3. CASE Stop
    <2>1. /\ proc' = Down /\ rpc' = NoRPC
          /\ UNCHANGED <<env, files, keys, pair, tokens, now>>
      BY <1>3 DEF Stop
    <2>2. ProcInv' /\ RpcInv'
      BY <2>1 DEF ProcInv, RpcInv, Down
    <2> QED BY <2>1, <2>2 DEF AccessInv, FilesInv, TokenInv
  <1>4. ASSUME NEW n \in Payments \cup {"Health", "ServerReflection"},
               NEW h \in Headers, Request(n, h)
        PROVE  AccessInv'
    BY <1>4, RequestDecided
  <1>5. ASSUME NEW s \in Grants, ProviderIssues(s) PROVE AccessInv'
    <2>1. UNCHANGED <<env, files, proc, keys, pair, now, rpc>>
      BY <1>5 DEF ProviderIssues
    <2>2. FilesInv'
      BY <1>0, <2>1 DEF FilesInv
    <2>3. IdPKey \in 0 .. keys
      BY <1>0, SMT DEF IdPKey
    <2>4. \E t : TokenInv(t) /\ tokens' = tokens \cup {t}
      BY <1>5, <2>3, Minted DEF ProviderIssues, Issue
    <2> QED BY <1>0, <2>1, <2>2, <2>4, BesideKeeps
  <1>6. CASE WritePrivate
    <2>1. /\ keys' = keys + 1 /\ keys < MaxKeys
          /\ UNCHANGED <<env, proc, tokens, now, rpc>>
      BY <1>6 DEF WritePrivate
    <2>2. \/ /\ files' = [files EXCEPT !["private.pem"] = PEM("private", keys + 1)]
             /\ pair' = "half"
          \/ /\ \E f \in Spoilt("private.pem") :
                   files' = [files EXCEPT !["private.pem"] = f]
             /\ pair' = "broken"
      BY <1>6 DEF WritePrivate
    <2>3. keys' \in 0 .. MaxKeys /\ keys' # 0 /\ keys' \in 1 .. keys'
          /\ keys' >= keys /\ \A k \in 1 .. keys : k \in 1 .. keys'
      BY <1>0, <2>1, SMT
    <2>4. FilesInv'
      <3>1. CASE /\ files' = [files EXCEPT !["private.pem"] =
                                PEM("private", keys + 1)]
                 /\ pair' = "half"
        <4>1. /\ DOMAIN files' = {"private.pem", "public.pem"}
              /\ files'["private.pem"] = PEM("private", keys')
          BY <1>0, <2>1, <3>1 DEF FilesInv
        <4> QED BY <2>3, <3>1, <4>1 DEF FilesInv
      <3>2. ASSUME NEW f \in Spoilt("private.pem"), pair' = "broken",
                   files' = [files EXCEPT !["private.pem"] = f]
            PROVE  FilesInv'
        <4>1. /\ DOMAIN files' = {"private.pem", "public.pem"}
              /\ files'["private.pem"] = f
          BY <1>0, <3>2 DEF FilesInv
        <4>2. f \in {Unset, Empty, Junk}
                      \cup { PEM("private", k) : k \in 1 .. keys }
          BY <1>0 DEF FilesInv, Spoilt
        <4>3. f \in {Unset, Empty, Junk}
                      \cup { PEM("private", k) : k \in 1 .. keys' }
          BY <2>3, <4>2
        <4> QED BY <2>3, <3>2, <4>1, <4>3 DEF FilesInv
      <3> QED BY <2>2, <3>1, <3>2
    <2> QED BY <1>0, <2>1, <2>3, <2>4, BesideKeeps
  <1>7. ASSUME NEW s \in Grants, WritePublic(s) PROVE AccessInv'
    <2>1. /\ pair = "half" /\ pair' = "whole"
          /\ files' = [files EXCEPT !["public.pem"] = PEM("public", keys)]
          /\ UNCHANGED <<env, proc, keys, now, rpc>>
      BY <1>7 DEF WritePublic, GeneratedKey
    <2>2. /\ DOMAIN files' = {"private.pem", "public.pem"}
          /\ files'["private.pem"] = files["private.pem"]
          /\ files'["public.pem"] = PEM("public", keys)
      BY <1>0, <2>1 DEF FilesInv
    <2>3. FilesInv'
      BY <1>0, <2>1, <2>2 DEF FilesInv
    <2>4. keys \in 0 .. keys
      BY <1>0, SMT
    <2>5. UNCHANGED tokens \/ \E t : TokenInv(t) /\ tokens' = tokens \cup {t}
      BY <1>7, <2>4, Minted DEF WritePublic, GeneratedKey, Issue
    <2> QED BY <1>0, <2>1, <2>3, <2>5, BesideKeeps
  <1>8. CASE WritePublicFails
    <2>1. /\ pair' = "broken" /\ UNCHANGED <<env, proc, keys, tokens, now, rpc>>
          /\ \E f : files' = [files EXCEPT !["public.pem"] = f]
      BY <1>8 DEF WritePublicFails
    <2>2. /\ DOMAIN files' = {"private.pem", "public.pem"}
          /\ files'["private.pem"] = files["private.pem"]
      BY <1>0, <2>1 DEF FilesInv
    <2>3. FilesInv'
      BY <1>0, <2>1, <2>2 DEF FilesInv
    <2> QED BY <1>0, <2>1, <2>3, BesideKeeps
  <1>9. ASSUME NEW s \in Grants, MintFromFile(s) PROVE AccessInv'
    <2>1. /\ UNCHANGED <<env, files, proc, keys, pair, now, rpc>>
          /\ files["private.pem"] \notin {Unset, Empty, Junk}
      BY <1>9 DEF MintFromFile
    <2>2. FilesInv'
      BY <1>0, <2>1 DEF FilesInv
    <2>3. PICK k \in 1 .. keys : files["private.pem"] = PEM("private", k)
      BY <1>0, <2>1 DEF FilesInv
    <2>4. files["private.pem"].key \in 0 .. keys
      BY <1>0, <2>3, SMT DEF PEM
    <2>5. \E t : TokenInv(t) /\ tokens' = tokens \cup {t}
      BY <1>9, <2>4, Minted DEF MintFromFile, Issue
    <2> QED BY <1>0, <2>1, <2>2, <2>5, BesideKeeps
  <1>10. CASE Tick
    <2>1. now' = now + 1 /\ UNCHANGED <<env, files, proc, keys, pair, tokens, rpc>>
      BY <1>10 DEF Tick
    <2>2. FilesInv'
      BY <1>0, <2>1 DEF FilesInv
    <2>3. now' \in Nat /\ now' >= now
      BY <1>0, <2>1, SMT
    <2> QED BY <1>0, <2>1, <2>2, <2>3, BesideKeeps
  <1> QED BY <1>1, <1>2, <1>3, <1>4, <1>5, <1>6, <1>7, <1>8, <1>9, <1>10
          DEF AccessNext

(* The files, the tokens, the process and its latest request agree at every *)
(* step, for any environments, scopes, lifetimes and numbers of keys.       *)
LEMMA AccessInvHolds == AccessSpec => []AccessInv
  BY AccessStart, AccessKept, PTL DEF AccessSpec

(* Load never replaces a text that it cannot parse by the default without   *)
(* refusing to start: a process that is up runs with what is set.           *)
THEOREM NothingDefaulted == AccessSpec => []NoSilentDefault
  <1>1. AccessInv => NoSilentDefault
    <2> SUFFICES ASSUME AccessInv, proc.state = "up", NEW n \in Variables
                 PROVE  \/ env[n] \in {Unset, Empty}
                        \/ n = "KAFKA_BROKERS" /\ env[n] = Blank
                        \/ proc.cfg[n] = env[n]
      BY DEF NoSilentDefault
    <2>1. Loads(env) /\ proc.cfg = Configuration(env)
      BY DEF AccessInv, ProcInv
    <2>2. NotParsed(env) = {}
      BY <2>1 DEF Loads, Problems
    <2>3. proc.cfg[n] = IF n \in Strings THEN str(env, n)
                        ELSE IF n \in Numbers
                        THEN parsed(env, n, NumberDefault(n))
                        ELSE IF n = "GRPC_REFLECTION"
                        THEN parsed(env, n, str(env, "APP_ENV") # "production")
                        ELSE list(env, n, "localhost:29092")
      BY <2>1 DEF Configuration
    <2>4. n \notin Strings /\ n \notin Numbers /\ n # "GRPC_REFLECTION"
          => n = "KAFKA_BROKERS"
      BY DEF Variables
    <2>5. \A d : \/ env[n] \in {Unset, Empty, Blank, Junk}
                 \/ parsed(env, n, d) = env[n]
      BY DEF parsed
    <2>6. CASE n \in Strings
      BY <2>3, <2>6 DEF str
    <2>7. CASE n \notin Strings /\ n \in Numbers \cup {"GRPC_REFLECTION"}
      <3>1. env[n] \notin {Blank, Junk}
        BY <2>2, <2>7 DEF NotParsed
      <3>2. \E d : proc.cfg[n] = parsed(env, n, d)
        BY <2>3, <2>7
      <3> QED BY <2>5, <3>1, <3>2
    <2>8. CASE n \notin Strings /\ n \notin Numbers /\ n # "GRPC_REFLECTION"
      BY <2>3, <2>4, <2>8 DEF list
    <2> QED BY <2>6, <2>7, <2>8
  <1> QED BY <1>1, AccessInvHolds, PTL

(* A payments RPC is handled only for a token that was issued with its      *)
(* scope, is within its lifetime plus the leeway, and is signed with the    *)
(* key the process was started with.                                        *)
THEOREM ServedOnlyIssued == AccessSpec => []ServedMeansIssued
  <1>1. AccessInv => ServedMeansIssued
    <2> SUFFICES ASSUME AccessInv, rpc # NoRPC, rpc.name \in Payments,
                        rpc.code = "handler"
                 PROVE  /\ proc.verifier.kind = "rsa"
                        /\ \E t \in tokens :
                              /\ rpc.header = [bearer |-> t]
                              /\ requiredScopes[rpc.name] \in t.scope \cup t.scp
                              /\ rpc.at < t.nbf + TTL + proc.cfg["JWT_LEEWAY"]
                              /\ t.key = proc.verifier.key
      BY DEF ServedMeansIssued
    <2> DEFINE v == proc.verifier
               p == authenticate(v, rpc.header, rpc.at)
    <2>1. /\ proc.state = "up"
          /\ HasToken(rpc.header) =>
                \E t \in tokens : rpc.header = [bearer |-> t]
          /\ rpc.code = Intercept(v, rpc.name, rpc.header, rpc.at)
      BY DEF AccessInv, RpcInv
    <2>2. ~isUnauthenticated(rpc.name)
      BY DEF isUnauthenticated, Payments, requiredScopes
    <2>3. p.error = "" /\ requiredScopes[rpc.name] \in p.scopes
      BY <2>1, <2>2 DEF Intercept, HasScope
    <2>4. /\ v.kind # "nil" /\ HasToken(rpc.header)
          /\ p = Verify(v, rpc.header.bearer, rpc.at)
      BY <2>3 DEF authenticate
    <2>5. PICK t \in tokens : rpc.header = [bearer |-> t]
      BY <2>1, <2>4
    <2>6. p = Verify(v, t, rpc.at)
      BY <2>4, <2>5, SMT
    <2>7. Parses(v, t, rpc.at) /\ p.scopes = t.scope \cup t.scp
      <3>0. PICK q : q = p
        OBVIOUS
      <3>1. Parses(v, t, rpc.at) /\ t.sub \notin {Empty, Blank}
        <4> SUFFICES ASSUME ~(Parses(v, t, rpc.at) /\ t.sub \notin {Empty, Blank})
                     PROVE  FALSE
          OBVIOUS
        <4>1. q = [error |-> "ErrInvalidToken", scopes |-> {}]
          BY <2>6, <3>0 DEF Verify
        <4>2. q.error = "ErrInvalidToken"
          BY <4>1
        <4> QED BY <2>3, <3>0, <4>2
      <3>2. q = [error |-> "", scopes |-> t.scope \cup t.scp]
        BY <2>6, <3>0, <3>1 DEF Verify
      <3>3. q.scopes = t.scope \cup t.scp
        BY <3>2
      <3> QED BY <3>0, <3>1, <3>3
    <2>8. v.kind = "rsa" /\ v.leeway = proc.cfg["JWT_LEEWAY"]
      BY <2>1, <2>4, SMT DEF AccessInv, ProcInv, NoVerifier
    <2>9. t.exp = t.nbf + TTL
      BY DEF AccessInv, TokenInv
    <2>10. t.key = v.key /\ rpc.at < t.nbf + TTL + proc.cfg["JWT_LEEWAY"]
      BY <2>7, <2>8, <2>9 DEF Parses
    <2> QED BY <2>3, <2>5, <2>7, <2>8, <2>10
  <1> QED BY <1>1, AccessInvHolds, PTL

(* The leeway of a process that is up is a number of seconds.               *)
LEMMA LeewayLoaded ==
  ASSUME AccessInv, proc.state = "up"
  PROVE  proc.cfg["JWT_LEEWAY"] \in Nat
  <1>1. /\ env \in Environments /\ Loads(env) /\ proc.cfg = Configuration(env)
    BY DEF AccessInv, ProcInv
  <1>2. /\ "JWT_LEEWAY" \in Numbers /\ "JWT_LEEWAY" \notin Strings
        /\ "JWT_LEEWAY" \in NotNegative /\ "JWT_LEEWAY" \notin DOMAIN IntDefaults
        /\ DurationDefaults["JWT_LEEWAY"] = 30
    <2>1. "JWT_LEEWAY" \notin Strings
      BY SMT DEF Strings, StringDefaults
    <2>2. "JWT_LEEWAY" \notin DOMAIN IntDefaults
      BY SMT DEF IntDefaults
    <2>3. "JWT_LEEWAY" \in NotNegative
      BY SMT DEF NotNegative
    <2>4. /\ "JWT_LEEWAY" \in DOMAIN DurationDefaults
          /\ DurationDefaults["JWT_LEEWAY"] = 30
      BY SMT DEF DurationDefaults
    <2> QED BY <2>1, <2>2, <2>3, <2>4, SMT DEF Numbers
  <1>3. proc.cfg["JWT_LEEWAY"] = parsed(env, "JWT_LEEWAY", 30)
    BY <1>1, <1>2, SMT DEF Configuration, Variables, NumberDefault
  <1>4. proc.cfg["JWT_LEEWAY"] \in Int
    BY <1>1, <1>2, <1>3, EnvironmentsAreTexts, SMT DEF parsed
  <1>5. ~(proc.cfg["JWT_LEEWAY"] < 0)
    <2>1. OutOfRange(proc.cfg) = {}
      BY <1>1 DEF Loads, Problems, validate
    <2>2. "JWT_LEEWAY" \notin { w \in NotNegative : proc.cfg[w] < 0 }
      BY <2>1 DEF OutOfRange
    <2> QED BY <1>2, <2>2
  <1> QED BY <1>4, <1>5, SMT

(* A process started from a whole development key pair serves every token   *)
(* of that pair until it expires, whatever devtoken does to the directory.  *)
THEOREM DevTokensServed == AccessSpec => []DevTokensWork
  <1>1. AccessInv => DevTokensWork
    <2> DEFINE T == rpc.header.bearer
               v == proc.verifier
               p == authenticate(v, rpc.header, rpc.at)
    <2> SUFFICES ASSUME AccessInv, rpc # NoRPC, rpc.name \in Payments,
                        HasToken(rpc.header), T.key = proc.devkey,
                        proc.cfg["JWT_PUBLIC_KEY_FILE"] = "public.pem",
                        proc.cfg["JWT_ISSUER"] = Issuer,
                        proc.cfg["JWT_AUDIENCE"] = Audience,
                        rpc.at < T.exp
                 PROVE  rpc.code = IF requiredScopes[rpc.name] \in T.scope
                                   THEN "handler" ELSE "PermissionDenied"
      BY DEF DevTokensWork
    <2>1. /\ proc.state = "up" /\ rpc.at \in 0 .. now /\ now \in Nat
          /\ \E t \in tokens : rpc.header = [bearer |-> t] /\ t.nbf <= rpc.at
          /\ rpc.code = Intercept(v, rpc.name, rpc.header, rpc.at)
      BY DEF AccessInv, RpcInv
    <2>2. T \in tokens /\ T.nbf <= rpc.at
      BY <2>1, SMT
    <2>3. TokenInv(T) /\ keys \in Nat
      BY <2>2, BoundsAreNatural, SMT DEF AccessInv, FilesInv
    <2> HIDE DEF T
    <2>4. T.key # Unset
      BY <2>3, NoMeaning, SMT DEF TokenInv
    <2>5. /\ proc.devkey \in 1 .. keys /\ v.kind = "rsa" /\ v.key = proc.devkey
      BY <2>1, <2>4 DEF AccessInv, ProcInv, Issuer, Audience
    <2>6. /\ v.issuer = Issuer /\ v.audience = Audience
          /\ v.leeway = proc.cfg["JWT_LEEWAY"]
      BY <2>1, <2>5, SMT DEF AccessInv, ProcInv, NoVerifier
    <2>7. T.scp = {}
      BY <2>3, <2>5, SMT DEF TokenInv, IdPKey
    <2>8. v.leeway \in Nat
      BY <2>1, <2>6, LeewayLoaded
    <2>9. T.nbf \in Nat /\ T.exp \in Nat /\ rpc.at \in Nat
      BY <2>1, <2>3, BoundsAreNatural, SMT DEF TokenInv
    <2>10. T.exp # Unset
      BY <2>9, NoMeaning, SMT
    <2>11. rpc.at < T.exp + v.leeway /\ rpc.at >= T.nbf - v.leeway
      BY <2>2, <2>8, <2>9, SMT
    <2>12. /\ T.alg = "RS256" /\ T.iss = v.issuer /\ v.audience \in T.aud
           /\ T.sub = "client"
      BY <2>3, <2>6 DEF TokenInv, Issuer, Audience
    <2>13. Parses(v, T, rpc.at)
      BY <2>5, <2>10, <2>11, <2>12 DEF Parses
    <2>14. T.sub \notin {Empty, Blank}
      BY <2>12, NoMeaning
    <2>15. p = [error |-> "", scopes |-> T.scope \cup T.scp]
      BY <2>5, <2>13, <2>14 DEF authenticate, Verify, T
    <2>16. p.error = "" /\ (requiredScopes[rpc.name] \in p.scopes
                             <=> requiredScopes[rpc.name] \in T.scope)
      <3>0. PICK q : q = p
        OBVIOUS
      <3>1. q.error = "" /\ q.scopes = T.scope \cup T.scp
        <4>1. q = [error |-> "", scopes |-> T.scope \cup T.scp]
          BY <2>15, <3>0
        <4> QED BY <4>1
      <3>2. T.scope \cup T.scp = T.scope
        BY <2>7
      <3> QED BY <3>0, <3>1, <3>2
    <2>17. ~isUnauthenticated(rpc.name)
      BY DEF isUnauthenticated, Payments, requiredScopes
    <2> QED BY <2>1, <2>16, <2>17 DEF Intercept, HasScope
  <1> QED BY <1>1, AccessInvHolds, PTL

(****************************************************************************)
(* What Load blames                                                         *)
(****************************************************************************)
(* An environment whose numbers are numbers or without a meaning.           *)
Texts(e) == \A n \in Numbers : e[n] \in Int \cup {Unset, Empty, Blank, Junk}

Blamed(e) == UNION Problems(e)
RemedyOf(e) == Remedy(IsProduction(Configuration(e)))
Mended(e) == Repaired(e, Blamed(e), RemedyOf(e))

(* What a number becomes that is set as a remedy has it.                    *)
Fix(n) == IF n \in DOMAIN Least THEN Least[n] ELSE NumberDefault(n)

(* The kinds of variables are disjoint.                                     *)
LEMMA Kinds ==
  /\ Numbers \subseteq Variables /\ Strings \subseteq Variables
  /\ {"GRPC_REFLECTION"} \subseteq Variables
  /\ \A n \in Numbers : n \notin Strings /\ n # "GRPC_REFLECTION"
  /\ "GRPC_REFLECTION" \notin Strings
  /\ \A n \in Numbers : n \notin DOMAIN Hardened
  /\ \A n \in Strings : n \notin DOMAIN Least
  /\ "GRPC_REFLECTION" \notin DOMAIN Least
  /\ "GRPC_REFLECTION" \notin DOMAIN Hardened
  /\ DOMAIN Least \subseteq Numbers
  <1>1. /\ Numbers \subseteq Variables /\ Strings \subseteq Variables
        /\ {"GRPC_REFLECTION"} \subseteq Variables
    BY SMT DEF Variables
  <1>2. \A n \in Numbers : n \notin Strings /\ n # "GRPC_REFLECTION"
    BY SMT DEF Numbers, Strings, IntDefaults, DurationDefaults, StringDefaults
  <1>3. "GRPC_REFLECTION" \notin Strings
    BY DEF Strings, StringDefaults
  <1>4. DOMAIN Hardened \subseteq Strings
    BY SMT DEF Strings, StringDefaults, Hardened
  <1>5. DOMAIN Least \subseteq Numbers
    BY SMT DEF Numbers, IntDefaults, DurationDefaults, Least
  <1> QED BY <1>1, <1>2, <1>3, <1>4, <1>5

(* The defaults and the remedies are in range.                              *)
LEMMA FixInRange ==
  /\ \A n \in Numbers : NumberDefault(n) \in Int /\ Fix(n) \in Nat
  /\ \A n \in Positive : Fix(n) > 0
  <1>1. \A n \in Numbers : NumberDefault(n) \in Int
    BY SMT DEF NumberDefault, Numbers, IntDefaults, DurationDefaults
  <1>2. \A n \in Numbers : Fix(n) \in Nat
    BY SMT DEF Fix, NumberDefault, Numbers, IntDefaults, DurationDefaults, Least
  <1>3. \A n \in Positive : Fix(n) > 0
    BY SMT DEF Fix, NumberDefault, Numbers, IntDefaults, DurationDefaults, Least,
               Positive, NotNegative
  <1> QED BY <1>1, <1>2, <1>3

(* So are they under the upper bounds.                                      *)
LEMMA FixAtMost == \A n \in DOMAIN AtMost : n \in Numbers /\ Fix(n) <= AtMost[n]
  <1>1. \A n \in DOMAIN AtMost : n \in Numbers
    BY SMT DEF Numbers, IntDefaults, DurationDefaults, AtMost
  <1>2. \A n \in DOMAIN AtMost : Fix(n) <= AtMost[n]
    BY SMT DEF Fix, NumberDefault, IntDefaults, DurationDefaults, Least, AtMost
  <1> QED BY <1>1, <1>2

(* The numbers that validate compares.                                      *)
LEMMA Compared ==
  /\ "POSTGRES_MAX_IDLE_CONNS" \in Numbers
  /\ "GRPC_PORT" \in Numbers /\ "HTTP_PORT" \in Numbers
  /\ \A n \in {"POSTGRES_MAX_OPEN_CONNS", "IDEMPOTENCY_PROCESSING_TTL",
               "IDEMPOTENCY_TTL"} : n \in Numbers /\ n \in Positive
  <1>1. /\ "POSTGRES_MAX_IDLE_CONNS" \in Numbers
        /\ "GRPC_PORT" \in Numbers /\ "HTTP_PORT" \in Numbers
    BY SMT DEF Numbers, IntDefaults, DurationDefaults
  <1>2. \A n \in {"POSTGRES_MAX_OPEN_CONNS", "IDEMPOTENCY_PROCESSING_TTL",
                  "IDEMPOTENCY_TTL"} : n \in Numbers
    BY SMT DEF Numbers, IntDefaults, DurationDefaults
  <1>3. \A n \in {"POSTGRES_MAX_OPEN_CONNS", "IDEMPOTENCY_PROCESSING_TTL",
                  "IDEMPOTENCY_TTL"} : n \notin NotNegative
    BY SMT DEF NotNegative
  <1> QED BY <1>1, <1>2, <1>3 DEF Positive

(* The remedies for the variables that validate compares.                   *)
LEMMA FixValues ==
  /\ Fix("POSTGRES_MAX_IDLE_CONNS") = 0 /\ Fix("POSTGRES_MAX_OPEN_CONNS") = 25
  /\ NumberDefault("POSTGRES_MAX_OPEN_CONNS") = 25
  /\ Fix("HTTP_PORT") = 0 /\ Fix("GRPC_PORT") = 0
  /\ Fix("IDEMPOTENCY_PROCESSING_TTL") = 1 /\ Fix("IDEMPOTENCY_TTL") = 86400
  /\ NumberDefault("IDEMPOTENCY_TTL") = 86400
  BY SMT DEF Fix, NumberDefault, IntDefaults, DurationDefaults, Least

(* The repaired environment, variable by variable.                          *)
LEMMA MendedIs ==
  ASSUME NEW e, NEW n \in Variables
  PROVE  /\ n \notin Blamed(e) => Mended(e)[n] = e[n]
         /\ n \in Blamed(e) => Mended(e)[n] = RemedyOf(e)[n]
         /\ RemedyOf(e)[n] =
               IF n \in DOMAIN Least THEN Least[n]
               ELSE IF IsProduction(Configuration(e)) /\ n \in DOMAIN Hardened
               THEN Hardened[n] ELSE Unset
  BY DEF Mended, Repaired, RemedyOf, Remedy

(* The configuration that is loaded from an environment.                    *)
LEMMA ConfigurationIs ==
  ASSUME NEW e
  PROVE  /\ \A n \in Strings : Configuration(e)[n] = str(e, n)
         /\ \A n \in Numbers :
               Configuration(e)[n] = parsed(e, n, NumberDefault(n))
         /\ Configuration(e)["GRPC_REFLECTION"] =
               parsed(e, "GRPC_REFLECTION", str(e, "APP_ENV") # "production")
  <1>1. \A n \in Variables :
          Configuration(e)[n] =
            IF n \in Strings THEN str(e, n)
            ELSE IF n \in Numbers THEN parsed(e, n, NumberDefault(n))
            ELSE IF n = "GRPC_REFLECTION"
            THEN parsed(e, n, str(e, "APP_ENV") # "production")
            ELSE list(e, n, "localhost:29092")
    BY DEF Configuration
  <1>2. \A n \in Strings : Configuration(e)[n] = str(e, n)
    BY <1>1, Kinds
  <1>3. \A n \in Numbers : Configuration(e)[n] = parsed(e, n, NumberDefault(n))
    BY <1>1, Kinds
  <1>4. "GRPC_REFLECTION" \in Variables /\ "GRPC_REFLECTION" \notin Strings
        /\ "GRPC_REFLECTION" \notin Numbers
    BY Kinds
  <1>5. Configuration(e)["GRPC_REFLECTION"] =
               parsed(e, "GRPC_REFLECTION", str(e, "APP_ENV") # "production")
    BY <1>1, <1>4
  <1> QED BY <1>2, <1>3, <1>5

(* A number is a number, and stays unless it is blamed.                     *)
LEMMA MendedNumber ==
  ASSUME NEW e, Texts(e), NEW n \in Numbers
  PROVE  /\ Configuration(e)[n] \in Int
         /\ Configuration(Mended(e))[n] =
               IF n \in Blamed(e) THEN Fix(n) ELSE Configuration(e)[n]
         /\ n \in NotParsed(e) => Configuration(e)[n] = NumberDefault(n)
         /\ n \in Blamed(e) => Mended(e)[n] \notin {Blank, Junk}
  <1>1. n \in Variables /\ n \notin DOMAIN Hardened /\ NumberDefault(n) \in Int
        /\ Fix(n) \in Nat
    BY Kinds, FixInRange
  <1>2. /\ Configuration(e)[n] = parsed(e, n, NumberDefault(n))
        /\ Configuration(Mended(e))[n] = parsed(Mended(e), n, NumberDefault(n))
    BY ConfigurationIs
  <1>3. Configuration(e)[n] \in Int
    BY <1>1, <1>2 DEF parsed, Texts
  <1>4. n \notin Blamed(e) => Configuration(Mended(e))[n] = Configuration(e)[n]
    BY <1>1, <1>2, MendedIs DEF parsed
  <1>5. ASSUME n \in Blamed(e)
        PROVE  /\ Configuration(Mended(e))[n] = Fix(n)
               /\ Mended(e)[n] \notin {Blank, Junk}
    <2>1. Mended(e)[n] = IF n \in DOMAIN Least THEN Least[n] ELSE Unset
      BY <1>1, <1>5, MendedIs
    <2>2. CASE n \in DOMAIN Least
      <3>1. Mended(e)[n] = Fix(n)
        BY <2>1, <2>2 DEF Fix
      <3>2. Fix(n) \in Int
        BY <1>1, SMT
      <3>3. Mended(e)[n] \notin {Unset, Empty, Blank, Junk}
        BY <3>1, <3>2, NoMeaning
      <3> QED BY <1>2, <3>1, <3>3 DEF parsed
    <2>3. CASE n \notin DOMAIN Least
      BY <1>2, <2>1, <2>3, FourTexts DEF Fix, parsed
    <2> QED BY <2>2, <2>3
  <1>6. n \in NotParsed(e) => Configuration(e)[n] = NumberDefault(n)
    BY <1>2 DEF NotParsed, parsed
  <1> QED BY <1>3, <1>4, <1>5, <1>6

(* So does a string.                                                        *)
LEMMA MendedString ==
  ASSUME NEW e, NEW n \in Strings
  PROVE  Configuration(Mended(e))[n] =
           IF n \notin Blamed(e) THEN Configuration(e)[n]
           ELSE IF IsProduction(Configuration(e)) /\ n \in DOMAIN Hardened
           THEN str(Hardened, n) ELSE StringDefaults[n]
  <1>1. n \in Variables /\ n \notin DOMAIN Least
    BY Kinds
  <1>2. /\ Configuration(e)[n] = str(e, n)
        /\ Configuration(Mended(e))[n] = str(Mended(e), n)
    BY ConfigurationIs
  <1>3. CASE n \notin Blamed(e)
    BY <1>1, <1>2, <1>3, MendedIs DEF str
  <1>4. CASE n \in Blamed(e)
    <2>1. Mended(e)[n] = IF IsProduction(Configuration(e)) /\ n \in DOMAIN Hardened
                         THEN Hardened[n] ELSE Unset
      BY <1>1, <1>4, MendedIs
    <2> QED BY <1>2, <1>4, <2>1 DEF str
  <1> QED BY <1>3, <1>4

(* The strings a remedy sets.                                               *)
LEMMA HardenedIs ==
  /\ DOMAIN Hardened = {"APP_ENV", "JWT_ISSUER", "JWT_AUDIENCE", "JWT_PUBLIC_KEY",
                        "POSTGRES_SSLMODE"}
  /\ DOMAIN Hardened \subseteq Strings /\ "JWT_PUBLIC_KEY_FILE" \in Strings
  /\ Hardened["APP_ENV"] = "production" /\ Hardened["JWT_ISSUER"] = Issuer
  /\ Hardened["JWT_AUDIENCE"] = Audience
  /\ Hardened["JWT_PUBLIC_KEY"] = PEM("public", IdPKey)
  /\ Hardened["POSTGRES_SSLMODE"] = "require"
  BY SMT DEF Hardened, Strings, StringDefaults

(* A production remedy is used as it is set.                                *)
LEMMA HardenedSet ==
  /\ \A n \in DOMAIN Hardened : str(Hardened, n) = Hardened[n]
  /\ Issuer # Empty /\ Audience # Empty /\ PEM("public", IdPKey) # Empty
  <1>1. Issuer # Empty /\ Audience # Empty /\ Unset # Issuer /\ Unset # Audience
        /\ Unset # "production" /\ Unset # "require"
    BY NoMeaning
  <1>2. IdPKey \in 0 .. MaxKeys
    BY BoundsAreNatural, SMT DEF IdPKey
  <1>3. PEM("public", IdPKey) # Empty /\ PEM("public", IdPKey) # Unset
    BY <1>2, NoMeaning
  <1> QED BY <1>1, <1>3, HardenedIs DEF str

(* The default texts that validate looks at.                                *)
LEMMA StringDefaultIs ==
  /\ StringDefaults["APP_ENV"] = "development"
  /\ StringDefaults["JWT_PUBLIC_KEY"] = Empty
  /\ StringDefaults["JWT_PUBLIC_KEY_FILE"] = Empty
  /\ \A v \in DOMAIN Valid : v \in Strings /\ StringDefaults[v] \in Valid[v]
  BY SMT DEF StringDefaults, Valid, Strings

(* Repairing an environment does not move it into production or out of it.  *)
LEMMA MendedProduction ==
  ASSUME NEW e
  PROVE  IsProduction(Configuration(Mended(e))) <=> IsProduction(Configuration(e))
  <1>1. "APP_ENV" \in Strings /\ "APP_ENV" \in DOMAIN Hardened
    BY HardenedIs
  <1>2. str(Hardened, "APP_ENV") = "production"
    BY HardenedIs, HardenedSet
  <1> QED BY <1>1, <1>2, MendedString, StringDefaultIs DEF IsProduction

(* Why a variable is blamed.                                                *)
LEMMA WhyBlamed ==
  ASSUME NEW e, NEW n \in Blamed(e)
  PROVE  LET c == Configuration(e)
         IN  \/ n \in NotParsed(e)
             \/ {n} \in OutOfRange(c)
             \/ \E P \in Clashes(c) : n \in P
             \/ \E P \in Unsafe(c) : n \in P
  <1> DEFINE c == Configuration(e)
  <1>1. PICK P \in Problems(e) : n \in P
    BY DEF Blamed
  <1>2. \/ P \in { {m} : m \in NotParsed(e) }
        \/ P \in OutOfRange(c) \/ P \in Clashes(c) \/ P \in Unsafe(c)
    BY <1>1 DEF Problems, validate
  <1>3. P \in OutOfRange(c) => P = {n}
    BY <1>1 DEF OutOfRange
  <1> QED BY <1>1, <1>2, <1>3

(* What is reported is blamed.                                              *)
LEMMA Reported ==
  ASSUME NEW e
  PROVE  /\ \A n \in NotParsed(e) : n \in Blamed(e)
         /\ \A P \in OutOfRange(Configuration(e)) \cup Clashes(Configuration(e)) :
               P \subseteq Blamed(e)
         /\ IsProduction(Configuration(e)) =>
               \A P \in Unsafe(Configuration(e)) : P \subseteq Blamed(e)
  BY DEF Blamed, Problems, validate

(* The two variables that bound another one are blamed alone only when what *)
(* they are set to is no number or not positive.                            *)
LEMMA BoundBlamed ==
  ASSUME NEW e
  PROVE  LET c == Configuration(e)
         IN  /\ "POSTGRES_MAX_OPEN_CONNS" \in Blamed(e) =>
                  \/ "POSTGRES_MAX_OPEN_CONNS" \in NotParsed(e)
                  \/ c["POSTGRES_MAX_OPEN_CONNS"] <= 0
                  \/ c["POSTGRES_MAX_IDLE_CONNS"] > c["POSTGRES_MAX_OPEN_CONNS"]
             /\ "IDEMPOTENCY_TTL" \in Blamed(e) =>
                  \/ "IDEMPOTENCY_TTL" \in NotParsed(e)
                  \/ c["IDEMPOTENCY_TTL"] <= 0
                  \/ c["IDEMPOTENCY_PROCESSING_TTL"] > c["IDEMPOTENCY_TTL"]
  <1> DEFINE c == Configuration(e)
  <1>1. ASSUME NEW n \in {"POSTGRES_MAX_OPEN_CONNS", "IDEMPOTENCY_TTL"},
               n \in Blamed(e)
        PROVE  \/ n \in NotParsed(e) \/ c[n] <= 0
               \/ \E P \in Clashes(c) : n \in P
    <2>1. /\ n \notin NotEmpty /\ n # "APP_NAME" /\ n \notin DOMAIN Valid
          /\ n \notin NotNegative /\ n \notin DOMAIN AtMost
      BY SMT DEF NotEmpty, Valid, NotNegative, AtMost
    <2>2. {n} \in OutOfRange(c) => c[n] <= 0
      <3>1. {n} \in OutOfRange(c) =>
               n \in { v \in NotEmpty : c[v] = Empty }
                       \cup { v \in {"APP_NAME"} : c[v] \in {Empty, Blank} }
                       \cup { v \in DOMAIN Valid : c[v] \notin Valid[v] }
                       \cup { v \in NotNegative : c[v] < 0 }
                       \cup { v \in Positive : c[v] <= 0 }
                       \cup { v \in DOMAIN AtMost : c[v] > AtMost[v] }
        BY DEF OutOfRange
      <3> QED BY <2>1, <3>1
    <2>3. \A P \in Unsafe(c) : n \notin P
      BY SMT DEF Unsafe
    <2> QED BY <1>1, <2>2, <2>3, WhyBlamed
  <1>2. \A P \in Clashes(c) :
          /\ "POSTGRES_MAX_OPEN_CONNS" \in P =>
                c["POSTGRES_MAX_IDLE_CONNS"] > c["POSTGRES_MAX_OPEN_CONNS"]
          /\ "IDEMPOTENCY_TTL" \in P =>
                c["IDEMPOTENCY_PROCESSING_TTL"] > c["IDEMPOTENCY_TTL"]
    BY SMT DEF Clashes
  <1> QED BY <1>1, <1>2

(* The two ways to give the key are blamed together.                        *)
LEMMA KeysBlamed ==
  ASSUME NEW e
  PROVE  "JWT_PUBLIC_KEY" \in Blamed(e) <=> "JWT_PUBLIC_KEY_FILE" \in Blamed(e)
  <1> DEFINE c == Configuration(e)
             K == {"JWT_PUBLIC_KEY", "JWT_PUBLIC_KEY_FILE"}
  <1>1. ASSUME NEW P \in Problems(e), NEW n \in K, n \in P
        PROVE  P = K
    <2>1. n \notin NotParsed(e)
      BY SMT DEF NotParsed, Numbers, IntDefaults, DurationDefaults
    <2>2. /\ n \notin NotEmpty /\ n # "APP_NAME" /\ n \notin DOMAIN Valid
          /\ n \notin NotNegative /\ n \notin DOMAIN AtMost /\ n \notin Positive
      <3>1. n \notin NotEmpty /\ n # "APP_NAME" /\ n \notin DOMAIN Valid
        BY SMT DEF NotEmpty, Valid
      <3>2. n \notin NotNegative /\ n \notin DOMAIN AtMost
        BY SMT DEF NotNegative, AtMost
      <3>3. n \notin Positive
        BY SMT DEF Positive, Numbers, IntDefaults, DurationDefaults
      <3> QED BY <3>1, <3>2, <3>3
    <2>3. P \notin OutOfRange(c)
      BY <1>1, <2>2 DEF OutOfRange
    <2>4. P \in Clashes(c) => P = K
      BY <1>1, SMT DEF Clashes
    <2>5. P \in Unsafe(c) => P = K
      BY <1>1, SMT DEF Unsafe
    <2> QED BY <1>1, <2>1, <2>3, <2>4, <2>5 DEF Problems, validate
  <1> QED BY <1>1 DEF Blamed

(* After the repair every text parses.                                      *)
LEMMA MendedParses ==
  ASSUME NEW e, Texts(e)
  PROVE  NotParsed(Mended(e)) = {}
  <1> SUFFICES ASSUME NEW n \in Numbers \cup {"GRPC_REFLECTION"}
               PROVE  Mended(e)[n] \notin {Blank, Junk}
    BY DEF NotParsed
  <1>1. n \in Variables
    BY Kinds
  <1>2. CASE n \notin Blamed(e)
    <2>1. n \notin NotParsed(e)
      BY <1>2, Reported
    <2> QED BY <1>1, <1>2, <2>1, MendedIs DEF NotParsed
  <1>3. CASE n \in Blamed(e) /\ n \in Numbers
    BY <1>3, MendedNumber
  <1>4. CASE n \in Blamed(e) /\ n = "GRPC_REFLECTION"
    BY <1>1, <1>4, MendedIs, Kinds, FourTexts
  <1> QED BY <1>2, <1>3, <1>4

(* After the repair every variable passes the checks that look at it alone. *)
LEMMA MendedInRange ==
  ASSUME NEW e, Texts(e)
  PROVE  OutOfRange(Configuration(Mended(e))) = {}
  <1> DEFINE c == Configuration(e)
             d == Configuration(Mended(e))
  <1>0. \A n : {n} \in OutOfRange(c) => n \in Blamed(e)
    BY Reported
  <1>1. ASSUME NEW v \in NotEmpty \cup {"APP_NAME"}
        PROVE  /\ v \in NotEmpty => d[v] # Empty
               /\ v = "APP_NAME" => d[v] \notin {Empty, Blank}
    <2>1. v \in Strings /\ v \notin DOMAIN Hardened
      <3>1. v \in Strings
        BY DEF NotEmpty, Strings, StringDefaults
      <3>2. v \notin DOMAIN Hardened
        BY DEF NotEmpty, Hardened
      <3> QED BY <3>1, <3>2
    <2>2. CASE v \in Blamed(e)
      <3>1. d[v] = StringDefaults[v]
        BY <2>1, <2>2, MendedString
      <3>2. StringDefaults[v] \notin {Empty, Blank}
        BY NoMeaning
      <3> QED BY <3>1, <3>2
    <2>3. CASE v \notin Blamed(e)
      <3>1. d[v] = c[v]
        BY <2>1, <2>3, MendedString
      <3>2. {v} \notin OutOfRange(c)
        BY <1>0, <2>3
      <3>3. /\ v \in NotEmpty => c[v] # Empty
            /\ v = "APP_NAME" => c[v] \notin {Empty, Blank}
        BY <3>2 DEF OutOfRange
      <3> QED BY <3>1, <3>3
    <2> QED BY <2>2, <2>3
  <1>2. ASSUME NEW v \in DOMAIN Valid
        PROVE  d[v] \in Valid[v]
    <2>1. v \in Strings /\ StringDefaults[v] \in Valid[v]
      BY StringDefaultIs
    <2>2. CASE v \in Blamed(e)
      <3>1. d[v] = IF IsProduction(c) /\ v \in DOMAIN Hardened
                   THEN str(Hardened, v) ELSE StringDefaults[v]
        BY <2>1, <2>2, MendedString
      <3>2. v \in DOMAIN Hardened => Hardened[v] \in Valid[v]
        BY SMT DEF Hardened, Valid
      <3>3. v \in DOMAIN Hardened => str(Hardened, v) = Hardened[v]
        BY HardenedSet
      <3>4. d[v] = StringDefaults[v] \/ (v \in DOMAIN Hardened /\ d[v] = Hardened[v])
        BY <3>1, <3>3
      <3> QED BY <2>1, <3>2, <3>4
    <2>3. CASE v \notin Blamed(e)
      <3>1. d[v] = c[v]
        BY <2>1, <2>3, MendedString
      <3>2. {v} \notin OutOfRange(c)
        BY <1>0, <2>3
      <3>3. c[v] \in Valid[v]
        BY <3>2 DEF OutOfRange
      <3> QED BY <3>1, <3>3
    <2> QED BY <2>2, <2>3
  <1>3. ASSUME NEW v \in Numbers
        PROVE  /\ v \in NotNegative => ~(d[v] < 0)
               /\ v \in Positive => ~(d[v] <= 0)
               /\ v \in DOMAIN AtMost => ~(d[v] > AtMost[v])
    <2>1. d[v] = IF v \in Blamed(e) THEN Fix(v) ELSE c[v]
      BY MendedNumber
    <2>2. CASE v \in Blamed(e)
      <3>1. Fix(v) \in Nat /\ (v \in Positive => Fix(v) > 0)
            /\ (v \in DOMAIN AtMost => Fix(v) <= AtMost[v])
        BY FixInRange, FixAtMost
      <3>2. v \in DOMAIN AtMost => AtMost[v] \in Int
        BY SMT DEF AtMost
      <3>3. d[v] = Fix(v)
        BY <2>1, <2>2
      <3> HIDE DEF d
      <3> QED BY <3>1, <3>2, <3>3, SMT
    <2>3. CASE v \notin Blamed(e)
      <3>1. d[v] = c[v]
        BY <2>1, <2>3
      <3>2. {v} \notin OutOfRange(c)
        BY <1>0, <2>3
      <3>3. /\ v \in NotNegative => ~(c[v] < 0)
            /\ v \in Positive => ~(c[v] <= 0)
            /\ v \in DOMAIN AtMost => ~(c[v] > AtMost[v])
        BY <3>2 DEF OutOfRange
      <3> QED BY <3>1, <3>3
    <2> QED BY <2>2, <2>3
  <1>4. NotNegative \subseteq Numbers /\ Positive \subseteq Numbers
        /\ DOMAIN AtMost \subseteq Numbers
    BY SMT DEF NotNegative, Positive, AtMost, Numbers, IntDefaults,
               DurationDefaults
  <1> HIDE DEF d
  <1> QED BY <1>1, <1>2, <1>3, <1>4 DEF OutOfRange, d

(* After the repair no two variables clash.                                 *)
LEMMA MendedAgrees ==
  ASSUME NEW e, Texts(e)
  PROVE  Clashes(Configuration(Mended(e))) = {}
  <1>0. PICK c, d, B : /\ c = Configuration(e) /\ d = Configuration(Mended(e))
                       /\ B = Blamed(e)
    OBVIOUS
  <1>1. \A v \in Numbers :
           /\ c[v] \in Int
           /\ v \in B => d[v] = Fix(v)
           /\ v \notin B => d[v] = c[v]
           /\ v \in NotParsed(e) => c[v] = NumberDefault(v)
           /\ v \in Positive /\ v \notin B => ~(c[v] <= 0)
    <2> SUFFICES ASSUME NEW v \in Numbers
                 PROVE  /\ c[v] \in Int
                        /\ v \in B => d[v] = Fix(v)
                        /\ v \notin B => d[v] = c[v]
                        /\ v \in NotParsed(e) => c[v] = NumberDefault(v)
                        /\ v \in Positive /\ v \notin B => ~(c[v] <= 0)
      OBVIOUS
    <2>1. v \in Positive /\ c[v] <= 0 => {v} \in OutOfRange(c)
      BY DEF OutOfRange
    <2>2. v \in Positive /\ c[v] <= 0 => v \in B
      BY <1>0, <2>1, Reported
    <2> QED BY <1>0, <2>2, MendedNumber
  <1>2. \A P \in Clashes(c) : P \subseteq B
    BY <1>0, Reported
  <1>3. ~(d["POSTGRES_MAX_IDLE_CONNS"] > d["POSTGRES_MAX_OPEN_CONNS"])
    <2>0. PICK i, o : i = "POSTGRES_MAX_IDLE_CONNS" /\ o = "POSTGRES_MAX_OPEN_CONNS"
      OBVIOUS
    <2>1. c[i] > c[o] => i \in B
      <3>1. c[i] > c[o] => {i, o} \in Clashes(c)
        BY <2>0 DEF Clashes
      <3> QED BY <1>2, <3>1
    <2>2. i \in Numbers /\ o \in Numbers /\ o \in Positive
      BY <2>0, Compared
    <2>3. /\ c[i] \in Int /\ c[o] \in Int
          /\ i \in B => d[i] = Fix(i)
          /\ i \notin B => d[i] = c[i]
          /\ o \in B => d[o] = Fix(o)
          /\ o \notin B => d[o] = c[o]
          /\ o \in NotParsed(e) => c[o] = NumberDefault(o)
          /\ o \notin B => ~(c[o] <= 0)
      BY <1>1, <2>2
    <2>4. Fix(i) = 0 /\ Fix(o) = 25 /\ NumberDefault(o) = 25
      BY <2>0, FixValues, SMT
    <2>5. o \in B => o \in NotParsed(e) \/ c[o] <= 0 \/ c[i] > c[o]
      BY <1>0, <2>0, BoundBlamed
    <2>6. ~(d[i] > d[o])
      BY <2>1, <2>3, <2>4, <2>5, SMT
    <2> QED BY <2>0, <2>6
  <1>4. ~(d["IDEMPOTENCY_PROCESSING_TTL"] > d["IDEMPOTENCY_TTL"])
    <2>0. PICK i, o : i = "IDEMPOTENCY_PROCESSING_TTL" /\ o = "IDEMPOTENCY_TTL"
      OBVIOUS
    <2>1. c[i] > c[o] => i \in B
      <3>1. c[i] > c[o] => {i, o} \in Clashes(c)
        BY <2>0 DEF Clashes
      <3> QED BY <1>2, <3>1
    <2>2. i \in Numbers /\ o \in Numbers /\ i \in Positive /\ o \in Positive
      BY <2>0, Compared
    <2>3. /\ c[i] \in Int /\ c[o] \in Int
          /\ i \in B => d[i] = Fix(i)
          /\ i \notin B => d[i] = c[i]
          /\ o \in B => d[o] = Fix(o)
          /\ o \notin B => d[o] = c[o]
          /\ o \in NotParsed(e) => c[o] = NumberDefault(o)
          /\ i \notin B => ~(c[i] <= 0)
          /\ o \notin B => ~(c[o] <= 0)
      BY <1>1, <2>2
    <2>4. Fix(i) = 1 /\ Fix(o) = 86400 /\ NumberDefault(o) = 86400
      BY <2>0, FixValues, SMT
    <2>5. o \in B => o \in NotParsed(e) \/ c[o] <= 0 \/ c[i] > c[o]
      BY <1>0, <2>0, BoundBlamed
    <2>6. ~(d[i] > d[o])
      BY <2>1, <2>3, <2>4, <2>5, SMT
    <2> QED BY <2>0, <2>6
  <1>5. ~(d["GRPC_PORT"] # 0 /\ d["GRPC_PORT"] = d["HTTP_PORT"])
    <2>0. PICK g, h : g = "GRPC_PORT" /\ h = "HTTP_PORT"
      OBVIOUS
    <2>1. c[g] # 0 /\ c[g] = c[h] => g \in B
      <3>1. c[g] # 0 /\ c[g] = c[h] => {g, h} \in Clashes(c)
        BY <2>0 DEF Clashes
      <3> QED BY <1>2, <3>1
    <2>2. g \in Numbers /\ h \in Numbers
      BY <2>0, Compared
    <2>3. /\ g \in B => d[g] = Fix(g)
          /\ g \notin B => d[g] = c[g]
          /\ h \in B => d[h] = Fix(h)
          /\ h \notin B => d[h] = c[h]
      BY <1>1, <2>2
    <2>4. Fix(g) = 0 /\ Fix(h) = 0
      BY <2>0, FixValues, SMT
    <2>5. ~(d[g] # 0 /\ d[g] = d[h])
      BY <2>1, <2>3, <2>4
    <2> QED BY <2>0, <2>5
  <1>6. ~(d["JWT_PUBLIC_KEY"] # Empty /\ d["JWT_PUBLIC_KEY_FILE"] # Empty)
    <2>0. PICK k, f : k = "JWT_PUBLIC_KEY" /\ f = "JWT_PUBLIC_KEY_FILE"
      OBVIOUS
    <2>1. c[k] # Empty /\ c[f] # Empty => f \in B
      <3>1. c[k] # Empty /\ c[f] # Empty => {k, f} \in Clashes(c)
        BY <2>0 DEF Clashes
      <3> QED BY <1>2, <3>1
    <2>2. k \in Strings /\ f \in Strings /\ f \notin DOMAIN Hardened
          /\ StringDefaults[f] = Empty /\ (k \in B <=> f \in B)
      BY <1>0, <2>0, HardenedIs, StringDefaultIs, KeysBlamed
    <2>3. /\ f \in B => d[f] = Empty
          /\ f \notin B => d[f] = c[f] /\ d[k] = c[k]
      BY <1>0, <2>2, MendedString
    <2>4. ~(d[k] # Empty /\ d[f] # Empty)
      BY <2>1, <2>3
    <2> QED BY <2>0, <2>4
  <1>7. Clashes(d) = {}
    BY <1>3, <1>4, <1>5, <1>6 DEF Clashes
  <1> QED BY <1>0, <1>7

(* After the repair production is safe.                                     *)
LEMMA MendedSafe ==
  ASSUME NEW e, IsProduction(Configuration(Mended(e)))
  PROVE  Unsafe(Configuration(Mended(e))) = {}
  <1>0. PICK c, d, B : /\ c = Configuration(e) /\ d = Configuration(Mended(e))
                       /\ B = Blamed(e)
    OBVIOUS
  <1>1. IsProduction(c) /\ IsProduction(d)
    BY <1>0, MendedProduction
  <1>2. \A P \in Unsafe(c) : P \subseteq B
    BY <1>0, <1>1, Reported
  <1>3. \A n \in Strings :
           /\ n \notin B => d[n] = c[n]
           /\ n \in B /\ n \in DOMAIN Hardened => d[n] = Hardened[n]
    BY <1>0, <1>1, MendedString, HardenedSet
  <1>4. ASSUME NEW n \in {"JWT_ISSUER", "JWT_AUDIENCE"}
        PROVE  d[n] # Empty
    <2>1. n \in Strings /\ n \in DOMAIN Hardened /\ Hardened[n] # Empty
      BY HardenedIs, HardenedSet
    <2>2. c[n] = Empty => {n} \in Unsafe(c)
      BY DEF Unsafe
    <2> QED BY <1>2, <1>3, <2>1, <2>2
  <1>5. d["POSTGRES_SSLMODE"] # "disable"
    <2>1. c["POSTGRES_SSLMODE"] = "disable" => {"POSTGRES_SSLMODE"} \in Unsafe(c)
      BY DEF Unsafe
    <2>2. "POSTGRES_SSLMODE" \in Strings /\ "POSTGRES_SSLMODE" \in DOMAIN Hardened
          /\ Hardened["POSTGRES_SSLMODE"] # "disable"
      BY HardenedIs
    <2> QED BY <1>2, <1>3, <2>1, <2>2
  <1>6. ~d["GRPC_REFLECTION"]
    <2>0. PICK g : g = "GRPC_REFLECTION"
      OBVIOUS
    <2>1. str(Mended(e), "APP_ENV") = "production"
          /\ str(e, "APP_ENV") = "production"
      BY <1>0, <1>1, ConfigurationIs, HardenedIs DEF IsProduction
    <2>2. /\ c[g] = parsed(e, g, str(e, "APP_ENV") # "production")
          /\ d[g] = parsed(Mended(e), g, str(Mended(e), "APP_ENV") # "production")
      BY <1>0, <2>0, ConfigurationIs
    <2>3. c[g] = parsed(e, g, FALSE) /\ d[g] = parsed(Mended(e), g, FALSE)
      BY <2>1, <2>2
    <2>4. g \in Variables /\ g \notin DOMAIN Least /\ g \notin DOMAIN Hardened
      BY <2>0, Kinds
    <2>5. CASE g \in B
      <3>1. Mended(e)[g] = Unset
        BY <1>0, <2>4, <2>5, MendedIs
      <3> QED BY <2>0, <2>3, <3>1 DEF parsed
    <2>6. CASE g \notin B
      <3>1. Mended(e)[g] = e[g]
        BY <1>0, <2>4, <2>6, MendedIs
      <3>2. d[g] = c[g]
        BY <2>3, <3>1 DEF parsed
      <3>3. c[g] => {g} \in Unsafe(c)
        BY <2>0 DEF Unsafe
      <3> QED BY <1>2, <2>0, <2>6, <3>2, <3>3
    <2> QED BY <2>5, <2>6
  <1>7. ~(d["JWT_PUBLIC_KEY"] = Empty /\ d["JWT_PUBLIC_KEY_FILE"] = Empty)
    <2>0. PICK k, f : k = "JWT_PUBLIC_KEY" /\ f = "JWT_PUBLIC_KEY_FILE"
      OBVIOUS
    <2>1. c[k] = Empty /\ c[f] = Empty => {k, f} \in Unsafe(c)
      BY <2>0 DEF Unsafe
    <2>2. k \in Strings /\ f \in Strings /\ k \in DOMAIN Hardened
          /\ Hardened[k] # Empty /\ (k \in B <=> f \in B)
      BY <1>0, <2>0, HardenedIs, HardenedSet, KeysBlamed
    <2>3. CASE k \in B
      BY <1>3, <2>0, <2>2, <2>3
    <2>4. CASE k \notin B
      BY <1>2, <1>3, <2>0, <2>1, <2>2, <2>4
    <2> QED BY <2>3, <2>4
  <1>8. Unsafe(d) = {}
    BY <1>4, <1>5, <1>6, <1>7 DEF Unsafe
  <1> QED BY <1>0, <1>8

(* An environment whose blamed variables are repaired loads.                *)
LEMMA MendedLoads ==
  ASSUME NEW e, Texts(e)
  PROVE  Loads(Mended(e))
  <1>1. validate(Configuration(Mended(e))) = {}
    BY MendedInRange, MendedAgrees, MendedSafe DEF validate
  <1> QED BY <1>1, MendedParses DEF Loads, Problems

(* Load reports every problem at once: for any environment, however many    *)
(* things are wrong with it, setting the variables it blames as one of the  *)
(* two remedies has them is enough to start; what it has not blamed was     *)
(* not hiding behind what it has.                                           *)
THEOREM AllReported == AccessSpec => []EveryProblemIsReported
  <1>1. AccessInv => EveryProblemIsReported
    <2> SUFFICES ASSUME AccessInv
                 PROVE  \E production \in BOOLEAN :
                          Loads(Repaired(env, UNION Problems(env),
                                         Remedy(production)))
      BY DEF EveryProblemIsReported
    <2>1. Texts(env)
      BY EnvironmentsAreTexts DEF AccessInv, Texts
    <2>2. Loads(Repaired(env, UNION Problems(env),
                         Remedy(IsProduction(Configuration(env)))))
      BY <2>1, MendedLoads DEF Mended, Blamed, RemedyOf
    <2>3. IsProduction(Configuration(env)) \in BOOLEAN
      BY DEF IsProduction
    <2> QED BY <2>2, <2>3
  <1> QED BY <1>1, AccessInvHolds, PTL
==============================================================================
