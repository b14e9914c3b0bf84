--------------------------------- MODULE Auth --------------------------------
(****************************************************************************)
(* Who may call the payments API: the verifier (internal/auth) and the two  *)
(* interceptors in front of every unary handler                             *)
(* (internal/grpcapi/interceptors.go).                                      *)
(*                                                                          *)
(* A key pair is a number; a token is the set of its claims with the        *)
(* algorithm and the key that signed it.  A signature verifies with the     *)
(* public half of the key that made it and with no other.  Time is counted  *)
(* in seconds.                                                              *)
(****************************************************************************)
EXTENDS Config

(* Text that holds a PEM block: "public" an RSA key in PKIX or PKCS#1       *)
(* encoding, "private" any private key, "other" anything else.              *)
PEM(kind, k) == [holds |-> kind, key |-> k]

(****************************************************************************)
(* The verifier                                                             *)
(****************************************************************************)
NoVerifier   == [kind |-> "nil"]
BadVerifier  == [kind |-> "error"]

(* NewVerifier, parseRSAPublicKey included.                                 *)
NewVerifier(text, c) ==
    IF \/ text \in {Empty, Blank, Junk}
       \/ c["JWT_ISSUER"] = Empty
       \/ c["JWT_AUDIENCE"] = Empty
       \/ text.holds # "public"
    THEN BadVerifier
    ELSE [kind |-> "rsa", key |-> text.key, issuer |-> c["JWT_ISSUER"],
          audience |-> c["JWT_AUDIENCE"], leeway |-> c["JWT_LEEWAY"]]

(* VerifierFromConfig; files[p] is what the file at path p holds, Unset if  *)
(* it cannot be read.                                                       *)
VerifierFromConfig(c, files) ==
    LET path == c["JWT_PUBLIC_KEY_FILE"]
        text == IF path = Empty THEN c["JWT_PUBLIC_KEY"]
                ELSE IF path \in DOMAIN files THEN files[path] ELSE Unset
    IN  IF text = Unset THEN BadVerifier
        ELSE IF /\ text \in {Empty, Blank}
                /\ c["JWT_ISSUER"] = Empty
                /\ c["JWT_AUDIENCE"] = Empty
        THEN NoVerifier
        ELSE NewVerifier(text, c)

(* jwt.Parser with the options NewVerifier gives it.                        *)
Parses(v, t, now) ==
    /\ t.alg = "RS256"
    /\ t.key = v.key
    /\ t.iss = v.issuer
    /\ v.audience \in t.aud
    /\ t.exp # Unset
    /\ now < t.exp + v.leeway
    /\ t.nbf = Unset \/ now >= t.nbf - v.leeway

(* Verify: the scopes of the caller, of both spellings of the claim, or the *)
(* error.                                                                   *)
Verify(v, t, now) ==
    IF Parses(v, t, now) /\ t.sub \notin {Empty, Blank}
    THEN [error |-> "", scopes |-> t.scope \cup t.scp]
    ELSE [error |-> "ErrInvalidToken", scopes |-> {}]

(****************************************************************************)
(* The interceptors                                                         *)
(****************************************************************************)
requiredScopes ==
    [CreateAccount  |-> "accounts:write",  GetAccount  |-> "accounts:read",
     CreateTransfer |-> "transfers:write", GetTransfer |-> "transfers:read",
     ListLedgerEntriesForTransfer |-> "ledger:read"]

Payments == DOMAIN requiredScopes
isUnauthenticated(rpc) == rpc \in {"Health", "ServerReflection"}

(* TokenFromAuthorization: a header is Unset, Empty or Blank, Junk when it  *)
(* is no bearer token, or carries one.                                      *)
HasToken(header) == header \notin {Unset, Empty, Blank, Junk}

(* authenticate: the caller, or the reason there is none.                   *)
authenticate(v, header, now) ==
    IF v.kind = "nil" \/ ~HasToken(header)
    THEN [error |-> "ErrNoCredentials", scopes |-> {}]
    ELSE Verify(v, header.bearer, now)

(* authorize; a method without an entry in the table is denied.             *)
AnyScope(rpc, p)  == rpc \in Payments /\ p.scopes # {}
HasScope(rpc, p)  == rpc \in Payments /\ requiredScopes[rpc] \in p.scopes

(* The chain of interceptors: "handler" when the request gets through.      *)
Intercept(v, rpc, header, now) ==
    LET p == authenticate(v, header, now)
    IN  IF isUnauthenticated(rpc) THEN "handler"
        ELSE IF p.error # "" THEN "Unauthenticated"
        ELSE IF ~HasScope(rpc, p) THEN "PermissionDenied"
        ELSE "handler"
==============================================================================
