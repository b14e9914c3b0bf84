------------------------------- MODULE MCHealth ------------------------------
(****************************************************************************)
(* Small instances of Health for TLC.                                       *)
(****************************************************************************)
EXTENDS Health

(* The wiring of cmd/api, and a second registration of one of its names.    *)
MCWiring ==
    { [name |-> "postgres", fn |-> "db", required |-> TRUE],
      [name |-> "redis", fn |-> "store", required |-> FALSE],
      [name |-> "redis", fn |-> "store", required |-> TRUE] }
==============================================================================
