----------------------------- MODULE AccessProps -----------------------------
(****************************************************************************)
(* The correctness properties of Config, Auth and Access.                   *)
(****************************************************************************)
EXTENDS Access

(* Two environments that a deployment can be repaired from: the defaults,   *)
(* with the least that is allowed where two variables are compared, and the *)
(* same with what production asks for.                                      *)
Least == [POSTGRES_MAX_IDLE_CONNS |-> 0, HTTP_PORT |-> 0, GRPC_PORT |-> 0,
          IDEMPOTENCY_PROCESSING_TTL |-> 1]

Hardened == [APP_ENV |-> "production", JWT_ISSUER |-> Issuer,
             JWT_AUDIENCE |-> Audience, JWT_PUBLIC_KEY |-> PEM("public", IdPKey),
             POSTGRES_SSLMODE |-> "require"]

Remedy(production) ==
    [n \in Variables |-> IF n \in DOMAIN Least THEN Least[n]
                         ELSE IF production /\ n \in DOMAIN Hardened
                         THEN Hardened[n] ELSE Unset]

(* The environment e with the variables in blamed set as in s.              *)
Repaired(e, blamed, s) == [n \in Variables |-> IF n \in blamed THEN s[n] ELSE e[n]]

(* Load "returns every problem it finds rather than only the first, so a    *)
(* misconfigured deployment can be fixed in one pass" (config.go:219): when *)
(* the variables it blames are set as one of the two remedies has them, the *)
(* rest is good enough to start with.                                       *)
EveryProblemIsReported ==
    proc.state = "refused" =>
        \E production \in BOOLEAN :
            Loads(Repaired(env, UNION Problems(env), Remedy(production)))

(* A variable that is set to anything is used as it is set, or Load refuses *)
(* to start: a number, a duration or a switch that does not parse never     *)
(* silently becomes the default.                                            *)
NoSilentDefault ==
    proc.state = "up" =>
        \A n \in Variables :
            \/ env[n] \in {Unset, Empty}
            \/ n = "KAFKA_BROKERS" /\ env[n] = Blank
            \/ proc.cfg[n] = env[n]

(* A payments RPC reaches its handler only with a token that somebody       *)
(* issued for its scope, no longer ago than it is valid plus the leeway,    *)
(* and signed with the key that the process was started with; without a     *)
(* verifier none does ("a missing key can only ever close the door").       *)
ServedMeansIssued ==
    rpc # NoRPC /\ rpc.name \in Payments /\ rpc.code = "handler" =>
        /\ proc.verifier.kind = "rsa"
        /\ \E t \in tokens :
              /\ rpc.header = [bearer |-> t]
              /\ requiredScopes[rpc.name] \in t.scope \cup t.scp
              /\ rpc.at < t.nbf + TTL + proc.cfg["JWT_LEEWAY"]
              /\ t.key = proc.verifier.key

(* A process that was started from a whole development key pair serves      *)
(* every token made with that pair until it expires, whatever devtoken has  *)
(* done to the directory since.                                             *)
DevTokensWork ==
    /\ rpc # NoRPC
    /\ rpc.name \in Payments
    /\ HasToken(rpc.header)
    /\ rpc.header.bearer.key = proc.devkey
    /\ proc.cfg["JWT_PUBLIC_KEY_FILE"] = "public.pem"
    /\ proc.cfg["JWT_ISSUER"] = Issuer
    /\ proc.cfg["JWT_AUDIENCE"] = Audience
    /\ rpc.at < rpc.header.bearer.exp
    => rpc.code = IF requiredScopes[rpc.name] \in rpc.header.bearer.scope
                  THEN "handler" ELSE "PermissionDenied"
==============================================================================
