-------------------------------- MODULE Access -------------------------------
(****************************************************************************)
(* From the environment to an admitted request: the API process is started  *)
(* (cmd/api/main.go), keeps the configuration and the key it read then, and *)
(* decides on every RPC; cmd/devtoken writes key pairs and mints tokens     *)
(* beside it; the identity provider issues tokens; time passes.             *)
(*                                                                          *)
(* The two files of a development key pair are written one after the other: *)
(* devtoken can fail or die between them, another process can look.         *)
(****************************************************************************)
EXTENDS Auth, FiniteSets

CONSTANTS
    Environments,  \* what the process may be started with
    Inhabited,     \* bound: those with which tokens are issued and time passes
    Grants,        \* the scopes a token is issued with
    TTL,           \* how long a token is valid
    MaxNow,        \* bound: the last second
    MaxKeys,       \* bound: key pairs devtoken generates
    MaxTokens      \* bound: tokens in circulation

ASSUME BoundsAreNatural == {TTL, MaxNow, MaxKeys, MaxTokens} \subseteq Nat

VARIABLES
    env,     \* the environment of the API process
    files,   \* what private.pem and public.pem hold
    proc,    \* the API process: what it has made of env and files
    keys,    \* the number of key pairs devtoken has generated
    pair,    \* how far devtoken is with the pair it last wrote
    tokens,  \* the tokens issued
    now,     \* the time
    rpc      \* the latest request, and what became of it

accessVars == <<env, files, proc, keys, pair, tokens, now, rpc>>

Down == [state |-> "down"]
NoRPC == [name |-> "none"]

(* The identity provider's key, and the claims that devtoken and the        *)
(* provider agree on with the service.                                      *)
IdPKey == 0
Issuer == "https://dev-issuer.local"
Audience == "payments-api"

(* The texts without a meaning are four, and neither numbers nor keys nor   *)
(* one of the names that mean something here.                               *)
ASSUME FourTexts == /\ Unset \notin {Empty, Blank, Junk}
                    /\ Empty \notin {Blank, Junk}
                    /\ Blank # Junk
ASSUME NoMeaning ==
    \A x \in {Unset, Empty, Blank, Junk} :
        /\ x \notin Int
        /\ x \notin {"public.pem", Issuer, Audience, "client", "production",
                      "require"}
        /\ \A n \in NotEmpty \cup {"APP_NAME"} : x # StringDefaults[n]
        /\ \A kind \in {"private", "public"}, k \in 0 .. MaxKeys : x # PEM(kind, k)

(* A number or a duration is set to one, or to a text without a meaning.    *)
ASSUME EnvironmentsAreTexts ==
    \A e \in Environments, n \in Numbers :
        e[n] \in Int \cup {Unset, Empty, Blank, Junk}

AccessInit ==
    /\ env \in Environments
    /\ files = [p \in {"private.pem", "public.pem"} |-> Unset]
    /\ proc = Down
    /\ keys = 0
    /\ pair = "none"
    /\ tokens = {}
    /\ now = 0
    /\ rpc = NoRPC

(****************************************************************************)
(* The API process                                                          *)
(****************************************************************************)
(* run in cmd/api: Load, then VerifierFromConfig; either can refuse.  The   *)
(* process keeps what it has read.  "devkey" is a history variable: the key *)
(* in devtoken's directory at that moment, if the pair there is whole.      *)
DevKey == IF pair = "whole" THEN files["private.pem"].key ELSE Unset

StartProcess ==
    /\ proc.state # "up"
    /\ LET c == Configuration(env)
           v == VerifierFromConfig(c, files)
       IN  proc' = IF Loads(env) /\ v # BadVerifier
                   THEN [state |-> "up", cfg |-> c, verifier |-> v,
                         devkey |-> DevKey]
                   ELSE [state |-> "refused"]
    /\ rpc' = NoRPC
    /\ UNCHANGED <<env, files, keys, pair, tokens, now>>

Stop ==
    /\ proc.state = "up"
    /\ proc' = Down
    /\ rpc' = NoRPC
    /\ UNCHANGED <<env, files, keys, pair, tokens, now>>

(* A request: reflection is registered only when it is configured, the rest *)
(* goes through the interceptors.                                           *)
Request(name, header) ==
    /\ proc.state = "up"
    /\ rpc' = [name |-> name, header |-> header, at |-> now,
               code |-> IF name = "ServerReflection"
                             /\ ~proc.cfg["GRPC_REFLECTION"]
                        THEN "Unimplemented"
                        ELSE Intercept(proc.verifier, name, header, now)]
    /\ UNCHANGED <<env, files, proc, keys, pair, tokens, now>>

(****************************************************************************)
(* Those who issue tokens                                                   *)
(****************************************************************************)
InUse == env \in Inhabited

(* mint: the claims of a token signed with key k.                           *)
mint(k, scopes) ==
    [alg |-> "RS256", key |-> k, iss |-> Issuer, aud |-> {Audience},
     sub |-> "client", scope |-> scopes, scp |-> {}, nbf |-> now,
     exp |-> now + TTL]

Issue(t) ==
    /\ InUse
    /\ Cardinality(tokens) < MaxTokens
    /\ tokens' = tokens \cup {t}

(* The provider issues a token, with either spelling of the scope claim.    *)
ProviderIssues(scopes) ==
    /\ \/ Issue(mint(IdPKey, scopes))
       \/ Issue([mint(IdPKey, {}) EXCEPT !.scp = scopes])
    /\ UNCHANGED <<env, files, proc, keys, pair, now, rpc>>

(* What a write that failed can leave in a file.                            *)
Spoilt(p) == {files[p], Empty, Junk}

(* devtoken -out: it generates a key pair and writes private.pem.           *)
WritePrivate ==
    /\ InUse
    /\ pair # "half"
    /\ keys < MaxKeys
    /\ keys' = keys + 1
    /\ \/ /\ files' = [files EXCEPT !["private.pem"] =
                         PEM("private", keys + 1)]
          /\ pair' = "half"
       \/ /\ \E f \in Spoilt("private.pem") :
                files' = [files EXCEPT !["private.pem"] = f]
          /\ pair' = "broken"
    /\ UNCHANGED <<env, proc, tokens, now, rpc>>

(* It writes public.pem, and prints a token, which need not be used.        *)
KeyBefore    == keys - 1
GeneratedKey == keys

WritePublic(scopes) ==
    /\ pair = "half"
    /\ pair' = "whole"
    /\ files' = [files EXCEPT !["public.pem"] = PEM("public", GeneratedKey)]
    /\ \/ Issue(mint(GeneratedKey, scopes))
       \/ UNCHANGED tokens
    /\ UNCHANGED <<env, proc, keys, now, rpc>>

(* It cannot write public.pem, or dies: private.pem is new, public.pem may  *)
(* be of the pair before it.                                                *)
WritePublicFails ==
    /\ pair = "half"
    /\ pair' = "broken"
    /\ \E f \in Spoilt("public.pem") :
          files' = [files EXCEPT !["public.pem"] = f]
    /\ UNCHANGED <<env, proc, keys, tokens, now, rpc>>

(* devtoken -key private.pem.                                               *)
MintFromFile(scopes) ==
    /\ files["private.pem"] \notin {Unset, Empty, Junk}
    /\ Issue(mint(files["private.pem"].key, scopes))
    /\ UNCHANGED <<env, files, proc, keys, pair, now, rpc>>

Tick ==
    /\ InUse
    /\ now < MaxNow
    /\ now' = now + 1
    /\ UNCHANGED <<env, files, proc, keys, pair, tokens, rpc>>

Headers == {Unset, Blank, Junk} \cup { [bearer |-> t] : t \in tokens }

AccessNext ==
    \/ StartProcess
    \/ Stop
    \/ \E n \in Payments \cup {"Health", "ServerReflection"}, h \in Headers :
          Request(n, h)
    \/ \E s \in Grants : ProviderIssues(s)
    \/ WritePrivate
    \/ \E s \in Grants : WritePublic(s)
    \/ WritePublicFails
    \/ \E s \in Grants : MintFromFile(s)
    \/ Tick

AccessSpec == AccessInit /\ [][AccessNext]_accessVars
==============================================================================
