------------------------------- MODULE Lifecycle -----------------------------
(****************************************************************************)
(* The api process: run of cmd/api/main.go, the two servers (Start, Run and *)
(* Shutdown of internal/grpcapi and internal/httpapi), the poller that      *)
(* copies readiness into the gRPC health service, and the order in which    *)
(* the pools are closed.                                                    *)
(*                                                                          *)
(* What a handler does is left out, except that it takes and returns        *)
(* connections of the PostgreSQL pool.  A handler runs as long as it likes  *)
(* until its server cuts it off; then its context is cancelled and it       *)
(* returns.  http.Server.Close does not wait for that; GracefulStop, which  *)
(* Shutdown waits for even after Stop, does.                                *)
(*                                                                          *)
(* Where two definitions of one thing stand together, the first is a        *)
(* mutation that the properties are tried against, as in Posting.           *)
(****************************************************************************)
EXTENDS Naturals, FiniteSets

CONSTANTS
    RPCs,     \* calls of the payments service
    Probes    \* HTTP requests

Servers  == {"grpc", "http"}
Handlers == RPCs \cup Probes
Poller   == "poller"

ASSUME HandlersAssumption == RPCs \cap Probes = {} /\ Poller \notin Handlers

(* The dependencies, and the ones whose check is Registered as required.    *)
Deps == {"postgres", "redis"}

(* The names the gRPC health service answers for.                           *)
Names == {"", "payments"}

VARIABLES
    signalled,  \* SIGTERM or SIGINT has arrived
    stage,      \* stage[s]: where Run of server s is
    stopped,    \* the servers whose Serve has returned on its own
    failed,     \* the servers whose Run returns an error
    handler,    \* handler[h]: "none", "running" or "done"
    cut,        \* the handlers whose context is cancelled
    conns,      \* who holds a connection of the pool
    poll,       \* where pollReadiness is
    verdict,    \* the result of the poller's last check
    cancelled,  \* stopPolling has been called
    status,     \* status[n]: what the gRPC health service answers for n
    frozen,     \* health.Server.Shutdown has been called
    up,         \* up[d]: dependency d answers
    main        \* where run is

vars == <<signalled, stage, stopped, failed, handler, cut, conns, poll,
          verdict, cancelled, status, frozen, up, main>>

Init ==
    /\ signalled = FALSE
    /\ stage = [s \in Servers |-> "new"]
    /\ stopped = {}
    /\ failed = {}
    /\ handler = [h \in Handlers |-> "none"]
    /\ cut = {}
    /\ conns = {}
    /\ poll = "off"
    /\ verdict = FALSE
    /\ cancelled = FALSE
    /\ status = [n \in Names |-> IF n = "" THEN "SERVING" ELSE "UNKNOWN"]
    /\ frozen = FALSE
    /\ up \in [Deps -> BOOLEAN]
    /\ main = "wait"

(****************************************************************************)
(* The servers                                                              *)
(****************************************************************************)
Of(s) == IF s = "grpc" THEN RPCs ELSE Probes

At(s, from, to) ==
    /\ stage[s] = from
    /\ stage' = [stage EXCEPT ![s] = to]

(* Start binds the listener; the gRPC server also starts the poller.        *)
Start(s) ==
    /\ At(s, "new", "serving")
    /\ poll' = IF s = "grpc" THEN "check" ELSE poll
    /\ UNCHANGED <<signalled, stopped, failed, handler, cut, conns, verdict,
                   cancelled, status, frozen, up, main>>

(* The address cannot be bound: Run returns the error.                      *)
StartFails(s) ==
    /\ At(s, "new", "returned")
    /\ failed' = failed \cup {s}
    /\ UNCHANGED <<signalled, stopped, handler, cut, conns, poll, verdict,
                   cancelled, status, frozen, up, main>>

(* Serve returns although nobody asked it to.                               *)
ServeStops(s) ==
    /\ stage[s] = "serving"
    /\ s \notin stopped
    /\ stopped' = stopped \cup {s}
    /\ UNCHANGED <<signalled, stage, failed, handler, cut, conns, poll,
                   verdict, cancelled, status, frozen, up, main>>

(* The select of Run: the signal, or the end of Serve.                      *)
Woken(s) == signalled \/ s \in stopped

(* Shutdown of the HTTP server goes straight to http.Server.Shutdown.       *)
ShutdownHTTP ==
    /\ Woken("http")
    /\ At("http", "serving", "draining")
    /\ UNCHANGED <<signalled, stopped, failed, handler, cut, conns, poll,
                   verdict, cancelled, status, frozen, up, main>>

(* health.Server.SetServingStatus does nothing once it is shut down.        *)
SetServingStatus(n, to) ==
    status' = IF frozen THEN status ELSE [status EXCEPT ![n] = to]

(* Shutdown of the gRPC server: the poller is told to stop, both names are  *)
(* set to NOT_SERVING, and the health service is frozen that way.           *)
ShutdownGRPC ==
    /\ Woken("grpc")
    /\ At("grpc", "serving", "announce")
    /\ cancelled' = TRUE
    /\ UNCHANGED <<signalled, stopped, failed, handler, cut, conns, poll,
                   verdict, status, frozen, up, main>>

AnnounceServer ==
    /\ At("grpc", "announce", "announce2")
    /\ SetServingStatus("", "NOT_SERVING")
    /\ UNCHANGED <<signalled, stopped, failed, handler, cut, conns, poll,
                   verdict, cancelled, frozen, up, main>>

AnnounceService ==
    /\ At("grpc", "announce2", "freeze")
    /\ SetServingStatus("payments", "NOT_SERVING")
    /\ UNCHANGED <<signalled, stopped, failed, handler, cut, conns, poll,
                   verdict, cancelled, frozen, up, main>>

(* s.health.Shutdown().                                                     *)
NoHealthShutdown == UNCHANGED <<status, frozen>>
HealthShutdown ==
    /\ status' = [n \in Names |-> "NOT_SERVING"]
    /\ frozen' = TRUE

(* GracefulStop begins.                                                     *)
Drain ==
    /\ At("grpc", "freeze", "draining")
    /\ HealthShutdown
    /\ UNCHANGED <<signalled, stopped, failed, handler, cut, conns, poll,
                   verdict, cancelled, up, main>>

Running(s) == { h \in Of(s) : handler[h] = "running" }

(* Every handler has returned: Run returns.  Only the HTTP server reports   *)
(* that its Serve had failed.                                               *)
Drained(s) ==
    /\ Running(s) = {}
    /\ At(s, "draining", "returned")
    /\ failed' = failed \cup ({"http"} \cap {s} \cap stopped)
    /\ UNCHANGED <<signalled, stopped, handler, cut, conns, poll, verdict,
                   cancelled, status, frozen, up, main>>

(* The shutdown budget is spent: Stop, or Close, cuts off the handlers that *)
(* still run, and Run returns an error: the HTTP server's at once, the gRPC *)
(* server's when GracefulStop has seen the last handler return.             *)
NeverForced(s) == FALSE
ForceStop(s) ==
    /\ At(s, "draining", IF s = "grpc" THEN "forced" ELSE "returned")
    /\ cut' = cut \cup Running(s)
    /\ failed' = failed \cup {s}
    /\ UNCHANGED <<signalled, stopped, handler, conns, poll, verdict,
                   cancelled, status, frozen, up, main>>

(* <-stopped and <-s.done, after Stop.                                      *)
Unattended   == At("grpc", "forced", "returned")
LastReturned == Running("grpc") = {} /\ At("grpc", "forced", "returned")

Stopped ==
    /\ LastReturned
    /\ UNCHANGED <<signalled, stopped, failed, handler, cut, conns, poll,
                   verdict, cancelled, status, frozen, up, main>>

(****************************************************************************)
(* Handlers                                                                 *)
(****************************************************************************)
(* A request arrives: the gRPC server takes new calls until GracefulStop.   *)
Arrive(h) ==
    /\ handler[h] = "none"
    /\ \E s \in Servers :
          /\ h \in Of(s)
          /\ stage[s] \in {"serving", "announce", "announce2", "freeze"}
    /\ handler' = [handler EXCEPT ![h] = "running"]
    /\ UNCHANGED <<signalled, stage, stopped, failed, cut, conns, poll,
                   verdict, cancelled, status, frozen, up, main>>

(* It takes a connection, unless the pool is closed.                        *)
Acquire(h) ==
    /\ handler[h] = "running"
    /\ h \notin conns \cup cut
    /\ main \in {"wait", "closeRedis", "closeDB"}
    /\ conns' = conns \cup {h}
    /\ UNCHANGED <<signalled, stage, stopped, failed, handler, cut, poll,
                   verdict, cancelled, status, frozen, up, main>>

(* It returns, and its deferred Rollback gives the connection back.         *)
Finish(h) ==
    /\ handler[h] = "running"
    /\ handler' = [handler EXCEPT ![h] = "done"]
    /\ conns' = conns \ {h}
    /\ UNCHANGED <<signalled, stage, stopped, failed, cut, poll, verdict,
                   cancelled, status, frozen, up, main>>

(****************************************************************************)
(* pollReadiness                                                            *)
(****************************************************************************)
(* Registry.Check: healthy when every required dependency answers.          *)
AllRequired == \A d \in Deps : up[d]
Healthy     == up["postgres"]

(* db.Ping takes a connection; the check is bounded by a timeout and, when  *)
(* stopPolling has cancelled its context, fails or just makes it.           *)
PollBegins ==
    /\ poll = "check"
    /\ poll' = "ping"
    /\ conns' = IF main \in {"closingDB", "exited"} THEN conns
                                                    ELSE conns \cup {Poller}
    /\ UNCHANGED <<signalled, stage, stopped, failed, handler, cut, verdict,
                   cancelled, status, frozen, up, main>>

Answered == Poller \in conns /\ Healthy

PollChecks ==
    /\ poll = "ping"
    /\ poll' = "set"
    /\ conns' = conns \ {Poller}
    /\ verdict' \in {Answered, Answered /\ ~cancelled}
    /\ UNCHANGED <<signalled, stage, stopped, failed, handler, cut,
                   cancelled, status, frozen, up, main>>

(* updateHealth sets the two names one after the other.                     *)
Serving == IF verdict THEN "SERVING" ELSE "NOT_SERVING"

PollSets ==
    /\ \/ /\ poll = "set"
          /\ poll' = "set2"
          /\ SetServingStatus("", Serving)
       \/ /\ poll = "set2"
          /\ poll' = "idle"
          /\ SetServingStatus("payments", Serving)
    /\ UNCHANGED <<signalled, stage, stopped, failed, handler, cut, conns,
                   verdict, cancelled, frozen, up, main>>

(* The select: the ticker, or the end.  When both are ready either is       *)
(* taken.                                                                   *)
PollTicks ==
    /\ poll = "idle"
    /\ poll' = "check"
    /\ UNCHANGED <<signalled, stage, stopped, failed, handler, cut, conns,
                   verdict, cancelled, status, frozen, up, main>>

PollEnds ==
    /\ poll = "idle"
    /\ cancelled
    /\ poll' = "off"
    /\ UNCHANGED <<signalled, stage, stopped, failed, handler, cut, conns,
                   verdict, cancelled, status, frozen, up, main>>

(****************************************************************************)
(* run                                                                      *)
(****************************************************************************)
(* servers.Wait()                                                           *)
AllReturned == \A s \in Servers : stage[s] = "returned"

Proceed(from, to) ==
    /\ main = from
    /\ main' = to
    /\ UNCHANGED <<signalled, stage, stopped, failed, handler, cut, conns,
                   poll, verdict, cancelled, status, frozen, up>>

(* The deferred calls run last in, first out: Redis, then the pool, which   *)
(* refuses new connections at once and waits for the ones in use.           *)
ServersDone == AllReturned /\ Proceed("wait", "closeRedis")
CloseRedis  == Proceed("closeRedis", "closeDB")
CloseDB     == Proceed("closeDB", "closingDB")
Exit        == conns = {} /\ Proceed("closingDB", "exited")

(****************************************************************************)
(* The environment                                                          *)
(****************************************************************************)
Signal ==
    /\ ~signalled
    /\ signalled' = TRUE
    /\ UNCHANGED <<stage, stopped, failed, handler, cut, conns, poll, verdict,
                   cancelled, status, frozen, up, main>>

Flip(d) ==
    /\ up' = [up EXCEPT ![d] = ~@]
    /\ UNCHANGED <<signalled, stage, stopped, failed, handler, cut, conns,
                   poll, verdict, cancelled, status, frozen, main>>

(* Run and Shutdown of server s, whatever its requests do.                  *)
ServerSteps(s) ==
    \/ Start(s) \/ StartFails(s) \/ Drained(s) \/ ForceStop(s)
    \/ /\ s = "http"
       /\ ShutdownHTTP
    \/ /\ s = "grpc"
       /\ ShutdownGRPC \/ AnnounceServer \/ AnnounceService \/ Drain \/ Stopped

PollSteps == PollBegins \/ PollChecks \/ PollSets

MainSteps == ServersDone \/ CloseRedis \/ CloseDB \/ Exit

(* The process lives until run returns.                                     *)
Alive == main # "exited"

Next ==
    \/ /\ Alive
       /\ \/ \E s \in Servers : ServerSteps(s) \/ ServeStops(s)
          \/ \E h \in Handlers : Arrive(h) \/ Acquire(h) \/ Finish(h)
          \/ PollSteps \/ PollTicks \/ PollEnds
          \/ MainSteps
    \/ Signal
    \/ \E d \in Deps : Flip(d)

Spec == Init /\ [][Next]_vars

(* Goroutines run, timers fire, checks time out, and a handler whose        *)
(* context is cancelled returns.  Nothing else has to happen: no signal, no *)
(* request, and no end of a handler that was not cut off.                   *)
Fairness ==
    /\ \A s \in Servers : WF_vars(Alive /\ ServerSteps(s))
    /\ WF_vars(Alive /\ (PollSteps \/ PollTicks))
    /\ WF_vars(Alive /\ MainSteps)
    /\ \A h \in Handlers : WF_vars(Alive /\ h \in cut /\ Finish(h))

FairSpec == Spec /\ Fairness

(****************************************************************************)
(* Properties                                                               *)
(****************************************************************************)
(* "Report NOT_SERVING first, so anything watching health stops sending new *)
(* work while the drain runs" (grpcapi/server.go:201): once the gRPC server *)
(* drains, neither name is SERVING again, although a poll that began before *)
(* may still be under way.                                                  *)
DrainIsAnnounced ==
    cancelled /\ stage["grpc"] \in {"draining", "forced", "returned"} =>
        \A n \in Names : status[n] = "NOT_SERVING"

(* "The process waits for both to drain before the pools close"             *)
(* (cmd/api/main.go:147): no payments call ever finds Redis or the pool     *)
(* closed, not even one that was cut off, and of the HTTP requests only one *)
(* that was cut off because its server's budget was spent.                  *)
PoolsOutliveRequests ==
    main # "wait" =>
        \A h \in Handlers : handler[h] = "running" => h \in cut \cap Probes

(* "Shutdown therefore always terminates" (grpcapi/server.go:187): after    *)
(* the signal the process exits, even when handlers never return by         *)
(* themselves and hold connections.                                         *)
SignalEndsProcess == signalled ~> main = "exited"

(* "pollReadiness keeps the gRPC health status in step with dependency      *)
(* readiness" (grpcapi/server.go:133): while the server serves and          *)
(* PostgreSQL stays as it is, both names come to say so and stay that way,  *)
(* whatever Redis does.                                                     *)
HealthFollowsReadiness ==
    /\ <>[](stage["grpc"] = "serving" /\ up["postgres"]) =>
            <>[](\A n \in Names : status[n] = "SERVING")
    /\ <>[](stage["grpc"] = "serving" /\ ~up["postgres"]) =>
            <>[](\A n \in Names : status[n] = "NOT_SERVING")
==============================================================================
