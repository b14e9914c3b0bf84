---------------------------------- MODULE API --------------------------------
(****************************************************************************)
(* The payments RPCs (internal/grpcapi/service.go, errors.go) over          *)
(* PostIdempotent and the tables, behind the interceptors of Auth.          *)
(*                                                                          *)
(* One call of Calls is one CreateTransfer request; one of Readers is one   *)
(* request of another kind.  ListLedgerEntriesForTransfer makes two reads,  *)
(* and the tables can change between them.  The verifier is the one the     *)
(* process was started with, and the time is one moment: Access is about    *)
(* how they change.  A client that stops waiting is one that does not look  *)
(* at its answer.                                                           *)
(*                                                                          *)
(* Where two definitions of one thing stand together, the first is a        *)
(* mutation that the properties are tried against, as in Posting.           *)
(****************************************************************************)
EXTENDS IdempotencyProps, Auth

CONSTANTS
    Readers,   \* requests other than CreateTransfer
    Verifier,  \* what VerifierFromConfig returned
    Headers,   \* the authorization headers that clients send
    Now,       \* the time of the requests
    NoReply    \* no answer yet

VARIABLES
    header,  \* header[c]: the authorization header of CreateTransfer c
    reply,   \* reply[c]: its answer
    look     \* look[r]: the request of reader r and its answer

apiVars == <<vars, header, reply, look>>

NoLook == [rpc |-> "none", at |-> "idle"]

APIInit ==
    /\ Init
    /\ header = [c \in Calls |-> Unset]
    /\ reply = [c \in Calls |-> NoReply]
    /\ look = [r \in Readers |-> NoLook]

(****************************************************************************)
(* toStatus: the codes an error can become.  "Failed" stands for a          *)
(* cancelled context, a deadline and everything unanticipated.              *)
(****************************************************************************)
toStatus(e) ==
    IF e \in {"InvalidAmount", "InvalidCurrency", "InvalidKey", "SameAccount"}
    THEN {"InvalidArgument"}
    ELSE IF e \in {"SourceNotFound", "DestinationNotFound"} THEN {"NotFound"}
    ELSE IF e \in {"InsufficientFunds", "CurrencyMismatch"}
    THEN {"FailedPrecondition"}
    ELSE IF e = "Conflict" THEN {"AlreadyExists"}
    ELSE IF e = "InProgress" THEN {"Aborted"}
    ELSE IF e = "Exhausted" THEN {"Unavailable"}
    ELSE IF e = "Failed" THEN {"Canceled", "DeadlineExceeded", "Internal"}
    ELSE {"Internal"}

(* What the client of a failed request receives.                            *)
AlwaysRetry(e) == toStatus(IF e = "Failed" THEN "Exhausted" ELSE e)
StatusOf(e)    == toStatus(e)

Status(code) == [code |-> code, transfer |-> NoTransfer, replay |-> FALSE]

(****************************************************************************)
(* CreateTransfer                                                           *)
(****************************************************************************)
(* ParseKey, parseUUID for both accounts, parseCurrency, the amount.        *)
WellFormed(k, m) ==
    /\ k \in Keys
    /\ NilID \notin {m.src, m.dst}
    /\ m.currency \in Currencies
    /\ m.amount > 0

(* What the interceptors make of a CreateTransfer request.                  *)
Authenticated(h) == IF HasToken(h) THEN "handler" ELSE "Unauthenticated"
Admitted(h)      == Intercept(Verifier, "CreateTransfer", h, Now)

CreateTransfer(c, h, k, m) ==
    /\ step[c] = "idle"
    /\ reply[c] = NoReply
    /\ header' = [header EXCEPT ![c] = h]
    /\ IF Admitted(h) # "handler"
       THEN reply' = [reply EXCEPT ![c] = Status(Admitted(h))] /\ UNCHANGED vars
       ELSE IF ~WellFormed(k, m)
       THEN /\ reply' = [reply EXCEPT ![c] = Status("InvalidArgument")]
            /\ UNCHANGED vars
       ELSE Call(c, k, m) /\ UNCHANGED reply
    /\ UNCHANGED look

(* IdempotentReplay: result.Replayed.                                       *)
NeverReplayed(c) == FALSE
IsReplay(c)      == result[c].kind = "Replayed"

(* PostIdempotent has returned.                                             *)
Respond(c) ==
    /\ step[c] = "done"
    /\ reply[c] = NoReply
    /\ IF result[c].kind \in {"Posted", "Replayed"}
       THEN reply' = [reply EXCEPT ![c] =
                        [code |-> "OK", transfer |-> result[c].transfer,
                         replay |-> IsReplay(c)]]
       ELSE \E s \in StatusOf(result[c].kind) :
              reply' = [reply EXCEPT ![c] = Status(s)]
    /\ UNCHANGED <<vars, header, look>>

(****************************************************************************)
(* The other RPCs                                                           *)
(****************************************************************************)
(* The transfers some client has been told of.                              *)
Told == { reply[c].transfer : c \in { d \in Calls : reply[d] # NoReply
                                                     /\ reply[d].code = "OK" } }

(* "told" is a history variable: what was known when the request came in.   *)
Answered(r, rpc, id, code, got) ==
    look' = [look EXCEPT ![r] = [rpc |-> rpc, at |-> "done", id |-> id,
                                 told |-> Told, code |-> code, got |-> got]]

(* A request that the interceptors refuse, whose id or currency does not    *)
(* parse, or whose first query fails; no matter which, it has read nothing. *)
Turned(r, rpc, h) ==
    /\ look[r] = NoLook
    /\ LET code == Intercept(Verifier, rpc, h, Now)
       IN  \E s \in IF code # "handler" THEN {code}
                    ELSE {"InvalidArgument"} \cup toStatus("Failed") :
              look' = [look EXCEPT ![r] =
                         [rpc |-> "any", at |-> "done", code |-> s]]
    /\ UNCHANGED <<vars, header, reply>>

Admits(r, rpc, h) ==
    /\ look[r] = NoLook
    /\ Intercept(Verifier, rpc, h, Now) = "handler"

CreateAccount(r, h, a, cur) ==
    /\ Admits(r, "CreateAccount", h)
    /\ L!CreateAccount(a, cur)
    /\ Answered(r, "CreateAccount", a, "OK", {})
    /\ UNCHANGED <<redis, late, step, ask, tries, seen, result, header, reply>>

(* The row of account a as a query sees it.                                 *)
FirstRow(a)   == Opening[a]
CurrentRow(a) == accounts[a]

GetAccount(r, h, a) ==
    /\ Admits(r, "GetAccount", h)
    /\ IF CurrentRow(a) = NoRow
       THEN Answered(r, "GetAccount", a, "NotFound", {})
       ELSE Answered(r, "GetAccount", a, "OK", {CurrentRow(a)})
    /\ UNCHANGED <<vars, header, reply>>

RowOf(id) == { t \in transfers : t.id = id }

GetTransfer(r, h, id) ==
    /\ Admits(r, "GetTransfer", h)
    /\ IF RowOf(id) = {}
       THEN Answered(r, "GetTransfer", id, "NotFound", {})
       ELSE Answered(r, "GetTransfer", id, "OK", RowOf(id))
    /\ UNCHANGED <<vars, header, reply>>

(* ListLedgerEntriesForTransfer, first the transfer ...                     *)
AnyTransfer(id) == TRUE
Exists(id)      == RowOf(id) # {}

ListEntries(r, h, id) ==
    /\ Admits(r, "ListLedgerEntriesForTransfer", h)
    /\ IF Exists(id)
       THEN look' = [look EXCEPT ![r] =
                       [rpc |-> "ListLedgerEntriesForTransfer",
                        at |-> "entries", id |-> id, told |-> Told]]
       ELSE Answered(r, "ListLedgerEntriesForTransfer", id, "NotFound", {})
    /\ UNCHANGED <<vars, header, reply>>

(* ... and then, in another query, its entries.                             *)
EntriesForTransfer(r) ==
    /\ look[r].at = "entries"
    /\ look' = [look EXCEPT ![r] =
                  [rpc |-> @.rpc, at |-> "done", id |-> @.id, told |-> @.told,
                   code |-> "OK",
                   got |-> { e \in entries : e.transfer = @.id }]]
    /\ UNCHANGED <<vars, header, reply>>

(* The query fails.                                                         *)
EntriesFail(r) ==
    /\ look[r].at = "entries"
    /\ \E s \in toStatus("Failed") :
          look' = [look EXCEPT ![r] =
                     [rpc |-> "any", at |-> "done", code |-> s]]
    /\ UNCHANGED <<vars, header, reply>>

(****************************************************************************)
(* The specification                                                        *)
(****************************************************************************)
(* A step of PostIdempotent, PostgreSQL, Redis or the operating system.     *)
Below ==
    /\ \/ \E c \in Calls : Progress(c) \/ Commit(c) \/ Crash(c)
       \/ \E k \in Keys : Vanish(k)
       \/ \E w \in late : Arrive(w)
    /\ UNCHANGED <<header, reply, look>>

APINext ==
    \/ \E c \in Calls, h \in Headers, k \in Keys \cup BadKeys, m \in Commands :
          CreateTransfer(c, h, k, m)
    \/ Below
    \/ \E c \in Calls : Respond(c)
    \/ \E r \in Readers, rpc \in Payments \ {"CreateTransfer"}, h \in Headers :
          Turned(r, rpc, h)
    \/ \E r \in Readers, h \in Headers, a \in Accounts, cur \in Currencies :
          CreateAccount(r, h, a, cur)
    \/ \E r \in Readers, h \in Headers, a \in Accounts : GetAccount(r, h, a)
    \/ \E r \in Readers, h \in Headers, id \in TransferIDs :
          GetTransfer(r, h, id) \/ ListEntries(r, h, id)
    \/ \E r \in Readers : EntriesForTransfer(r) \/ EntriesFail(r)

APISpec == APIInit /\ [][APINext]_apiVars
==============================================================================
