----------------------------- MODULE MCReconcile -----------------------------
(****************************************************************************)
(* Small instances of Audit for TLC.                                        *)
(****************************************************************************)
EXTENDS Audit, TLC

Xfer(s, d, n, cur) == [src |-> s, dst |-> d, amount |-> n, currency |-> cur]

MCOpening == [a \in Accounts |-> [currency |-> "USD", balance |-> 2]]

MCCommands == { Xfer(s, d, n, "USD") : s, d \in Accounts, n \in 1 .. 2 }
==============================================================================
