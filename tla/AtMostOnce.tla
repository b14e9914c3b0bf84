------------------------------ MODULE AtMostOnce -----------------------------
(****************************************************************************)
(* What PostIdempotent promises, with Redis, the ledger and every step of   *)
(* the protocol hidden: a key is paid at most once; a caller who is told of *)
(* success is told of the payment it asked for; a caller who is told        *)
(* anything else definite has not paid and never will; only "unknown"       *)
(* leaves a payment open.                                                   *)
(*                                                                          *)
(* Idempotency.tla, translated from the code, implements this               *)
(* specification.                                                           *)
(****************************************************************************)
CONSTANTS
    Callers,   \* one per request
    Keys,      \* well-formed idempotency keys
    BadKeys,   \* what ParseKey refuses
    Payments,  \* the financial content of a request
    Nobody,    \* no caller
    NotAsked   \* the request has not been made

VARIABLES
    asked,  \* asked[c]: the key and the payment of c's request
    paid,   \* the payments made
    told    \* told[c]: what c knows

vars == <<asked, paid, told>>

Nothing == [verdict |-> "nothing", by |-> Nobody]
Refused == [verdict |-> "refused", by |-> Nobody]
Unknown == [verdict |-> "unknown", by |-> Nobody]

(* The answer "the payment you asked for has been made", by d's request: a  *)
(* replay unless d is c.                                                    *)
Success(d) == [verdict |-> "success", by |-> d]

Init ==
    /\ asked = [c \in Callers |-> NotAsked]
    /\ paid = {}
    /\ told = [c \in Callers |-> Nothing]

(* A request comes in; it may be refused at once, and is when its key is    *)
(* malformed.                                                               *)
Ask(c, k, p) ==
    /\ asked[c] = NotAsked
    /\ asked' = [asked EXCEPT ![c] = [key |-> k, payment |-> p]]
    /\ \/ told' = [told EXCEPT ![c] = Refused]
       \/ k \notin BadKeys /\ UNCHANGED told
    /\ UNCHANGED paid

(* The payment of c's request is made, while c has not been told otherwise. *)
Pay(c) ==
    /\ asked[c] # NotAsked
    /\ told[c] \in {Nothing, Unknown}
    /\ \A p \in paid : p.key # asked[c].key
    /\ paid' = paid \cup {[key |-> asked[c].key,
                           payment |-> asked[c].payment, by |-> c]}
    /\ UNCHANGED <<asked, told>>

IsTrue(c, v) ==
    \/ v = Unknown
    \/ v = Refused /\ \A p \in paid : p.by # c
    \/ \E p \in paid : /\ p.key = asked[c].key
                       /\ p.payment = asked[c].payment
                       /\ v = Success(p.by)

Tell(c, v) ==
    /\ asked[c] # NotAsked
    /\ told[c] = Nothing
    /\ IsTrue(c, v)
    /\ told' = [told EXCEPT ![c] = v]
    /\ UNCHANGED <<asked, paid>>

Next ==
    \/ \E c \in Callers, k \in Keys \cup BadKeys, p \in Payments : Ask(c, k, p)
    \/ \E c \in Callers : Pay(c)
    \/ \E c \in Callers, v \in {Unknown, Refused}
                                 \cup { Success(d) : d \in Callers } : Tell(c, v)

Spec == Init /\ [][Next]_vars
==============================================================================
