----------------------------- MODULE MCIdempotency ---------------------------
(****************************************************************************)
(* Small instances of Idempotency for TLC.                                  *)
(****************************************************************************)
EXTENDS IdempotencyProps, TLC

Xfer(s, d, n, cur) == [src |-> s, dst |-> d, amount |-> n, currency |-> cur]

USD(n) == [currency |-> "USD", balance |-> n]

(* The source could pay twice; the destination has nothing to pay with      *)
(* before it is paid.                                                       *)
MCOpening == 1 :> USD(2) @@ 2 :> USD(0)

(* The source pays once, and then has nothing left.                         *)
PoorOpening == 1 :> USD(1) @@ 2 :> USD(0)

(* A payment, and its reverse under the same key.                           *)
MCCommands == { Xfer(1, 2, 1, "USD"), Xfer(2, 1, 1, "USD") }

(* The same, and one that is malformed.                                     *)
OddCommands == MCCommands \cup { Xfer(1, 2, 0, "USD") }

NothingLeft == {NoRecord}

(* A record of another environment, and something that is not a record.     *)
StaleLeft ==
    { NoRecord, Corrupt,
      [state |-> "COMPLETED", fp |-> Fingerprint(Xfer(1, 2, 1, "USD")),
       transfer |-> NoTransfer, by |-> NoCall] }

Symmetry == Permutations(Calls)
==============================================================================
