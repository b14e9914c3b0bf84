------------------------------- MODULE MCAccess ------------------------------
(****************************************************************************)
(* Small instances of Config, Auth and Access for TLC.                      *)
(****************************************************************************)
EXTENDS AccessProps, TLC

Nothing == [n \in Variables |-> Unset]

(* docs/API.md: a development process that reads the key devtoken wrote.    *)
Development ==
    "JWT_ISSUER" :> Issuer @@ "JWT_AUDIENCE" :> Audience
    @@ "JWT_PUBLIC_KEY_FILE" :> "public.pem" @@ "JWT_LEEWAY" :> 1 @@ Nothing

Production ==
    "APP_ENV" :> "production" @@ "JWT_ISSUER" :> Issuer
    @@ "JWT_AUDIENCE" :> Audience @@ "JWT_PUBLIC_KEY" :> PEM("public", IdPKey)
    @@ "JWT_LEEWAY" :> 0 @@ "POSTGRES_SSLMODE" :> "require" @@ Nothing

(* Production with the key in a file, or with something wrong.              *)
MCInhabited ==
    { Nothing, Development, Production,
      "JWT_PUBLIC_KEY_FILE" :> "public.pem"
          @@ "JWT_PUBLIC_KEY" :> Unset @@ Production,
      "JWT_PUBLIC_KEY" :> Blank @@ Production,
      "JWT_PUBLIC_KEY" :> Empty @@ Production,
      "GRPC_REFLECTION" :> TRUE @@ Production,
      "GRPC_REFLECTION" :> FALSE @@ Development }

(* What a variable may be set to, its boundaries among it.                  *)
Texts(n) ==
    IF n = "APP_ENV" THEN {"production", "staging", Empty, Junk}
    ELSE IF n = "POSTGRES_SSLMODE" THEN {"disable", "require", Empty, Junk}
    ELSE IF n \in {"LOG_LEVEL", "LOG_FORMAT"} THEN {Empty, Junk}
    ELSE IF n = "GRPC_REFLECTION" THEN {TRUE, FALSE, Empty, Junk}
    ELSE IF n = "JWT_PUBLIC_KEY" THEN {Unset, Empty, Blank, PEM("public", 1)}
    ELSE IF n = "JWT_PUBLIC_KEY_FILE" THEN {Empty, Blank, "public.pem"}
    ELSE IF n \in {"HTTP_PORT", "GRPC_PORT"}
    THEN {-1, 0, 8080, 9090, 65535, 65536, Empty, Junk}
    ELSE IF n = "JWT_LEEWAY" THEN {-1, 0, 300, 301, Junk}
    ELSE IF n \in Numbers THEN {-1, 0, 1, 26, 86401, Empty, Junk}
    ELSE {Unset, Empty, Blank, "text"}

(* The variables that a check compares with another one.                    *)
Related == {"APP_ENV", "GRPC_REFLECTION", "POSTGRES_SSLMODE", "JWT_PUBLIC_KEY",
            "JWT_PUBLIC_KEY_FILE", "JWT_ISSUER", "HTTP_PORT", "GRPC_PORT",
            "POSTGRES_MAX_OPEN_CONNS", "POSTGRES_MAX_IDLE_CONNS",
            "IDEMPOTENCY_TTL", "IDEMPOTENCY_PROCESSING_TTL"}

(* Every environment that differs from a sound one in one variable, or in   *)
(* two of the related ones.                                                 *)
MCEnvironments ==
    MCInhabited
    \cup UNION { { v :> x @@ b : x \in Texts(v) } :
                 v \in Variables, b \in {Nothing, Production} }
    \cup UNION { { v :> x @@ w :> y @@ b : x \in Texts(v), y \in Texts(w) } :
                 v \in Related, w \in Related, b \in {Nothing, Production} }

MCGrants == { {"transfers:write"}, {"accounts:read", "ledger:read"} }
==============================================================================
