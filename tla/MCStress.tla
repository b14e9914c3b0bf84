------------------------------- MODULE MCStress ------------------------------
(****************************************************************************)
(* Small instances of Stress for TLC.                                       *)
(****************************************************************************)
EXTENDS Stress, TLC

Xfer(s, d, n, cur) == [src |-> s, dst |-> d, amount |-> n, currency |-> cur]

USD(n) == [currency |-> "USD", balance |-> n]

(* Accounts of the service's clients, 1 and 2, and room for the tool's.     *)
MCOpening == 1 :> USD(1) @@ 2 :> USD(1) @@ 3 :> NoRow @@ 4 :> NoRow

(* What the service's clients ask for: between their own accounts, and      *)
(* into one that the tool may create.                                       *)
MCCommands == { Xfer(1, 2, 1, "USD"), Xfer(1, 3, 1, "USD") }
==============================================================================
