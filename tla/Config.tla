-------------------------------- MODULE Config -------------------------------
(****************************************************************************)
(* config.Load (internal/config/config.go): what the process makes of its   *)
(* environment variables.                                                   *)
(*                                                                          *)
(* An environment maps a variable to the text it is set to.  Of a text the  *)
(* model keeps what Load can tell: Unset, the empty string, one of blanks   *)
(* or separators only, one that does not parse or names nothing, or the     *)
(* value it stands for.  Durations are in seconds.  Secrets and their       *)
(* redaction are left out: they decide nothing.                             *)
(*                                                                          *)
(* Where two definitions of one thing stand together, the first is a        *)
(* mutation that the properties are tried against, as in Posting.           *)
(****************************************************************************)
EXTENDS Integers

CONSTANTS
    Unset,  \* the variable is not set
    Empty,  \* ""
    Blank,  \* blanks, or for a list separators, and nothing else
    Junk    \* text that is no number, duration, boolean or known name

(****************************************************************************)
(* The variables, by the helper of env that reads them, and their defaults. *)
(****************************************************************************)
IntDefaults ==
    [HTTP_PORT |-> 8080, GRPC_PORT |-> 9090, POSTGRES_PORT |-> 5432,
     POSTGRES_MAX_OPEN_CONNS |-> 25, POSTGRES_MAX_IDLE_CONNS |-> 25,
     REDIS_DB |-> 0]

DurationDefaults ==
    [HTTP_READ_TIMEOUT |-> 5, HTTP_WRITE_TIMEOUT |-> 10,
     HTTP_IDLE_TIMEOUT |-> 60, HTTP_SHUTDOWN_TIMEOUT |-> 15,
     GRPC_SHUTDOWN_TIMEOUT |-> 15, JWT_LEEWAY |-> 30,
     POSTGRES_CONN_MAX_LIFETIME |-> 1800, POSTGRES_CONNECT_TIMEOUT |-> 10,
     REDIS_DIAL_TIMEOUT |-> 3, REDIS_COMMAND_TIMEOUT |-> 1,
     IDEMPOTENCY_TTL |-> 86400, IDEMPOTENCY_PROCESSING_TTL |-> 30]

StringDefaults ==
    [APP_NAME |-> "payments-ledger", APP_ENV |-> "development",
     LOG_LEVEL |-> "info", LOG_FORMAT |-> "json",
     HTTP_HOST |-> "0.0.0.0", GRPC_HOST |-> "0.0.0.0",
     JWT_PUBLIC_KEY |-> Empty, JWT_PUBLIC_KEY_FILE |-> Empty,
     JWT_ISSUER |-> Empty, JWT_AUDIENCE |-> Empty,
     POSTGRES_HOST |-> "localhost", POSTGRES_USER |-> "ledger",
     POSTGRES_DB |-> "ledger", POSTGRES_SSLMODE |-> "disable",
     REDIS_ADDR |-> "localhost:6379", KAFKA_AUDIT_TOPIC |-> "ledger.audit.v1"]

Numbers   == DOMAIN IntDefaults \cup DOMAIN DurationDefaults
Strings   == DOMAIN StringDefaults
Variables == Numbers \cup Strings \cup {"GRPC_REFLECTION", "KAFKA_BROKERS"}

NumberDefault(n) == IF n \in DOMAIN IntDefaults THEN IntDefaults[n]
                                                 ELSE DurationDefaults[n]

(* str: a variable that is set counts, even when it is empty.               *)
str(e, n) == IF e[n] = Unset THEN StringDefaults[n] ELSE e[n]

(* intVal, boolVal and duration: unset and empty mean the default, and so   *)
(* does what does not parse, once it has been reported.                     *)
parsed(e, n, def) == IF e[n] \in {Unset, Empty, Blank, Junk} THEN def ELSE e[n]

(* list: blanks and separators alone mean the default.                      *)
list(e, n, def) == IF e[n] \in {Unset, Empty, Blank} THEN def ELSE e[n]

IsProduction(c) == c["APP_ENV"] = "production"

(* The Config that load builds.  Only reflection has a default that depends *)
(* on another variable.                                                     *)
Configuration(e) ==
    [n \in Variables |->
        IF n \in Strings THEN str(e, n)
        ELSE IF n \in Numbers THEN parsed(e, n, NumberDefault(n))
        ELSE IF n = "GRPC_REFLECTION"
        THEN parsed(e, n, str(e, "APP_ENV") # "production")
        ELSE list(e, n, "localhost:29092")]

(* env.errs: the variables reported as not an integer, boolean or duration. *)
IntegersOnly(e) == { n \in DOMAIN IntDefaults : e[n] \in {Blank, Junk} }
NotParsed(e) ==
    { n \in Numbers \cup {"GRPC_REFLECTION"} : e[n] \in {Blank, Junk} }

(****************************************************************************)
(* validate: each problem is the set of the variables that it blames.       *)
(****************************************************************************)
NotEmpty == {"HTTP_HOST", "POSTGRES_HOST", "POSTGRES_USER", "POSTGRES_DB",
             "GRPC_HOST", "REDIS_ADDR", "KAFKA_AUDIT_TOPIC"}

Valid ==
    [APP_ENV |-> {"development", "staging", "production", "test"},
     LOG_LEVEL |-> {"debug", "info", "warn", "error"},
     LOG_FORMAT |-> {"json", "text"},
     POSTGRES_SSLMODE |-> {"disable", "allow", "prefer", "require",
                           "verify-ca", "verify-full"}]

NotNegative == {"POSTGRES_MAX_IDLE_CONNS", "POSTGRES_CONN_MAX_LIFETIME",
                "REDIS_DB", "JWT_LEEWAY", "HTTP_PORT", "GRPC_PORT"}

Positive == Numbers \ NotNegative

AtMost == [HTTP_PORT |-> 65535, GRPC_PORT |-> 65535, POSTGRES_PORT |-> 65535,
           JWT_LEEWAY |-> 300]

(* The checks that look at one variable.                                    *)
OutOfRange(c) ==
    { {n} : n \in { v \in NotEmpty : c[v] = Empty }
              \cup { v \in {"APP_NAME"} : c[v] \in {Empty, Blank} }
              \cup { v \in DOMAIN Valid : c[v] \notin Valid[v] }
              \cup { v \in NotNegative : c[v] < 0 }
              \cup { v \in Positive : c[v] <= 0 }
              \cup { v \in DOMAIN AtMost : c[v] > AtMost[v] } }

(* The checks that compare two.                                             *)
Clashes(c) ==
    { p \in {{"POSTGRES_MAX_IDLE_CONNS", "POSTGRES_MAX_OPEN_CONNS"}} :
        c["POSTGRES_MAX_IDLE_CONNS"] > c["POSTGRES_MAX_OPEN_CONNS"] }
    \cup { p \in {{"GRPC_PORT", "HTTP_PORT"}} :
        c["GRPC_PORT"] # 0 /\ c["GRPC_PORT"] = c["HTTP_PORT"] }
    \cup { p \in {{"JWT_PUBLIC_KEY", "JWT_PUBLIC_KEY_FILE"}} :
        \A n \in p : c[n] # Empty }
    \cup { p \in {{"IDEMPOTENCY_PROCESSING_TTL", "IDEMPOTENCY_TTL"}} :
        c["IDEMPOTENCY_PROCESSING_TTL"] > c["IDEMPOTENCY_TTL"] }

(* The checks that only production has to pass.                             *)
Unsafe(c) ==
    { {n} : n \in { v \in {"JWT_ISSUER", "JWT_AUDIENCE"} : c[v] = Empty }
              \cup { v \in {"POSTGRES_SSLMODE"} : c[v] = "disable" }
              \cup { v \in {"GRPC_REFLECTION"} : c[v] } }
    \cup { p \in {{"JWT_PUBLIC_KEY", "JWT_PUBLIC_KEY_FILE"}} :
        \A n \in p : c[n] = Empty }

validate(c) == OutOfRange(c) \cup Clashes(c)
                 \cup IF IsProduction(c) THEN Unsafe(c) ELSE {}

(* Everything Load reports; it succeeds when there is nothing.              *)
FirstStage(e) == IF NotParsed(e) # {} THEN { {n} : n \in NotParsed(e) }
                 ELSE validate(Configuration(e))
Problems(e) == { {n} : n \in NotParsed(e) } \cup validate(Configuration(e))

Loads(e) == Problems(e) = {}
==============================================================================
