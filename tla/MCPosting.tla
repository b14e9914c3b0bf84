------------------------------- MODULE MCPosting -----------------------------
(****************************************************************************)
(* Small instances of Posting for TLC.                                      *)
(****************************************************************************)
EXTENDS PostingProps, TLC

Xfer(s, d, n, cur) == [src |-> s, dst |-> d, amount |-> n, currency |-> cur]

USD(n) == [currency |-> "USD", balance |-> n]

(* Two pairs of accounts, so that two transactions with one key can be open *)
(* at once, and both directions over the first pair.                        *)
PairsOpening == 1 :> USD(1) @@ 2 :> USD(1) @@ 3 :> USD(1) @@ 4 :> USD(0)

PairsCommands == { Xfer(1, 2, 1, "USD"), Xfer(2, 1, 1, "USD"),
                   Xfer(3, 4, 1, "USD") }

(* The same pairs; one account is full, and one may be opened while calls   *)
(* run, in either currency.                                                 *)
OddOpening == 1 :> USD(1) @@ 2 :> USD(2) @@ 3 :> USD(1) @@ 4 :> NoRow

(* Every way a command can be refused or overflow.                          *)
AllCommands == PairsCommands \cup
               { Xfer(4, 3, 1, "USD"), Xfer(1, 2, 0, "USD"),
                 Xfer(1, 1, 1, "USD"), Xfer(0, 1, 1, "USD"),
                 Xfer(1, 2, 1, "XXX") }

Symmetry == Permutations(Calls)
==============================================================================
