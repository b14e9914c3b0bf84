--------------------------------- MODULE MCApi -------------------------------
(****************************************************************************)
(* Small instances of API for TLC.                                          *)
(****************************************************************************)
EXTENDS APIProps, TLC

Xfer(s, d, n, cur) == [src |-> s, dst |-> d, amount |-> n, currency |-> cur]

USD(n) == [currency |-> "USD", balance |-> n]

(* The source could pay twice; the third account is not open yet.           *)
MCOpening == 1 :> USD(2) @@ 2 :> USD(0) @@ 3 :> NoRow

(* A payment, one to the account that is not open yet, a malformed one.     *)
MCCommands == { Xfer(1, 2, 1, "USD"), Xfer(1, 3, 1, "USD"),
                Xfer(1, 2, 0, "USD") }

NothingLeft == {NoRecord}

MCVerifier == [kind |-> "rsa", key |-> 1, issuer |-> "iss", audience |-> "aud",
               leeway |-> 0]

Token(scopes) ==
    [bearer |-> [alg |-> "RS256", key |-> 1, iss |-> "iss", aud |-> {"aud"},
                 sub |-> "client", scope |-> scopes, scp |-> {}, nbf |-> 0,
                 exp |-> 2]]

(* No token, one that pays, and one that does everything else.              *)
MCHeaders == { Unset, Token({"transfers:write"}),
               Token({"accounts:read", "accounts:write", "transfers:read",
                      "ledger:read"}) }

Symmetry == Permutations(Calls)
==============================================================================
