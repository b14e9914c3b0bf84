------------------------------- MODULE Migrate -------------------------------
(****************************************************************************)
(* The migration runner (cmd/migrate), the migrations it applies, and the   *)
(* payments that the api process makes on the schema meanwhile.             *)
(*                                                                          *)
(* run opens the database and hands the command to golang-migrate, which is *)
(* not part of the repository: it takes an advisory lock, refuses to work   *)
(* on a dirty schema, and for each migration stores the new version as      *)
(* dirty, executes the file, and stores the version as clean.  The lock is  *)
(* the session's, so that closing the database, or dying, frees it.         *)
(*                                                                          *)
(* Of the schema the model keeps the tables, functions, triggers, columns   *)
(* and the constraint by name; of the data, the idempotency keys.           *)
(*                                                                          *)
(* Where two definitions of one thing stand together, the first is a        *)
(* mutation that the properties are tried against, as in Posting.           *)
(****************************************************************************)
EXTENDS Integers, FiniteSets

CONSTANTS
    Operators,  \* who may run cmd/migrate
    Keys,       \* idempotency keys
    NoOne,      \* nobody holds the lock
    MaxPaid     \* bound: payments made with one key

ASSUME OperatorsAssumption == NoOne \notin Operators /\ MaxPaid \in Nat \ {0}

(****************************************************************************)
(* The migrations                                                           *)
(****************************************************************************)
Latest == 5
None   == -1      \* golang-migrate's version of an empty schema

(* What each up.sql creates, by the name of its file.                       *)
create_accounts == {"accounts", "set_updated_at", "accounts_set_updated_at"}

create_transfers == {"transfers", "forbid_transfer", "transfers_immutable"}

create_ledger_entries == {"entries", "forbid_entry", "entries_append_only"}

enforce_balanced_transfers ==
    {"assert_balanced", "assert_entries", "assert_transfers",
     "entries_balance", "transfers_balance"}

add_transfer_idempotency == {"idempotency_key", "key_unique"}

Creates == << create_accounts, create_transfers, create_ledger_entries,
              enforce_balanced_transfers, add_transfer_idempotency >>

(* The tables that it refers to.                                            *)
Needs ==
    << {}, {"accounts"}, {"accounts", "transfers"}, {"entries", "transfers"},
       {"transfers"} >>

(* What each down.sql drops by name.                                        *)
LeavesColumns ==
    [v \in 1..Latest |-> Creates[v] \ {"idempotency_key"}]
Drops == Creates

(* What goes with table t when it is dropped.                               *)
On(t) ==
    CASE t = "accounts"  -> {"accounts_set_updated_at"}
      [] t = "transfers" -> {"transfers_immutable", "transfers_balance",
                             "idempotency_key", "key_unique"}
      [] t = "entries"   -> {"entries_append_only", "entries_balance"}
      [] OTHER           -> {}

(* The tables with a foreign key to t: without CASCADE they forbid DROP.    *)
Referring(t) == { r \in {"transfers", "entries"} :
                    \E v \in {2, 3} : r \in Creates[v] /\ t \in Needs[v] }

(* The schema of version v.                                                 *)
Schema(v) == UNION { Creates[i] : i \in 1..v }

VARIABLES
    objects,    \* the schema
    version,    \* schema_migrations.version
    dirty,      \* schema_migrations.dirty
    lock,       \* who holds the advisory lock
    step,       \* step[o]: where the process of o is
    cmd,        \* cmd[o]: its command
    stored,     \* the keys in transfers.idempotency_key
    paid,       \* history: paid[k], the payments made with key k
    forgotten,  \* history: the keys that a migration has dropped
    careless    \* history: a version was forced that is not the schema's

vars == <<objects, version, dirty, lock, step, cmd, stored, paid,
          forgotten, careless>>

Commands == {"up", "down", "down-all"}

Init ==
    /\ objects = {}
    /\ version = None
    /\ dirty = FALSE
    /\ lock = NoOne
    /\ step = [o \in Operators |-> "idle"]
    /\ cmd = [o \in Operators |-> "up"]
    /\ stored = {}
    /\ paid = [k \in Keys |-> 0]
    /\ forgotten = {}
    /\ careless = FALSE

Goto(o, to) == step' = [step EXCEPT ![o] = to]

(****************************************************************************)
(* run                                                                      *)
(****************************************************************************)
(* run loads the configuration and opens the database; when it cannot, it   *)
(* returns an error and has done nothing.                                   *)
Invoke(o, c) ==
    /\ step[o] = "idle"
    /\ Goto(o, "lock")
    /\ cmd' = [cmd EXCEPT ![o] = c]
    /\ UNCHANGED <<objects, version, dirty, lock, stored, paid, forgotten,
                   careless>>

(* The version that the next migration of o leads to.                       *)
Above == IF version = None THEN 1 ELSE version + 1
Below == IF version = 1 THEN None ELSE version - 1
Target(o) == IF cmd[o] = "up" THEN Above ELSE Below

(* Version v is that of a file, or of an empty schema.                      *)
Exists(v) == v = None \/ v \in 1..Latest

(* Up, Steps(-1) and Down have something to do.                             *)
Pending(o) == IF cmd[o] = "up" THEN version # Latest ELSE version # None

(* Steps(-1) ends after one migration.                                      *)
Another(o) == cmd[o] # "down" /\ Pending(o)

(* The lock is taken and the version read.  A dirty schema, and a version   *)
(* that no file has, are refused; with nothing to do, up and down-all       *)
(* report no change and down fails.                                         *)
Lock(o) ==
    /\ step[o] = "lock"
    /\ lock = NoOne
    /\ IF ~dirty /\ Exists(version) /\ Pending(o)
       THEN Goto(o, "set") /\ lock' = o
       ELSE Goto(o, "idle") /\ UNCHANGED lock
    /\ UNCHANGED <<objects, version, dirty, cmd, stored, paid, forgotten,
                   careless>>

(* m.Version() only reads; force stores any version from -1 up as clean.    *)
ForceVersion(o, v) ==
    /\ step[o] = "idle"
    /\ lock = NoOne
    /\ version' = v
    /\ dirty' = FALSE
    /\ careless' = (careless \/ ~Exists(v) \/ objects # Schema(v))
    /\ UNCHANGED <<objects, lock, step, cmd, stored, paid, forgotten>>

(* The new version is stored, dirty.                                        *)
SetDirty(o) ==
    /\ step[o] = "set"
    /\ version' = Target(o)
    /\ dirty' = TRUE
    /\ Goto(o, "file")
    /\ UNCHANGED <<objects, lock, cmd, stored, paid, forgotten, careless>>

(* The migration whose file o executes, now that the target is stored.      *)
File(o) == IF cmd[o] = "up" THEN version
           ELSE IF version = None THEN 1 ELSE version + 1

(* Its statements succeed.                                                  *)
Applicable(o) ==
    LET v == File(o)
    IN  IF cmd[o] = "up"
        THEN Creates[v] \cap objects = {} /\ Needs[v] \subseteq objects
        ELSE /\ \A t \in Drops[v] : Referring(t) \cap objects = {}
             /\ v = 5 => "transfers" \in objects

Applied(o) ==
    IF cmd[o] = "up" THEN objects \cup Creates[File(o)]
    ELSE objects \ UNION { {t} \cup On(t) : t \in Drops[File(o)] }

(* Closing the database frees the lock, whatever happened.                  *)
Done(o) == Goto(o, "idle") /\ lock' = NoOne

(* The file commits as a whole.  The keys go with their column.             *)
Execute(o) ==
    /\ step[o] = "file"
    /\ Applicable(o)
    /\ objects' = Applied(o)
    /\ IF "idempotency_key" \in objects'
       THEN UNCHANGED <<stored, forgotten>>
       ELSE /\ stored' = {}
            /\ forgotten' = forgotten \cup stored
    /\ Goto(o, "clear")
    /\ UNCHANGED <<version, dirty, lock, cmd, paid, careless>>

(* What a file leaves behind that does not get to its COMMIT.               *)
SomeStatements(o) == objects \cup (IF cmd[o] = "up" THEN {"accounts"} ELSE {})
NoStatement(o)    == objects

(* A statement fails, or the connection is lost: the command ends with an   *)
(* error, and the version stays as it was stored last.                      *)
Fail(o) ==
    /\ step[o] \in {"set", "file", "clear"}
    /\ objects' = IF step[o] = "file" THEN NoStatement(o) ELSE objects
    /\ Done(o)
    /\ UNCHANGED <<version, dirty, cmd, stored, paid, forgotten, careless>>

(* The version is stored as clean; the command goes on or ends.             *)
SetClean(o) ==
    /\ step[o] = "clear"
    /\ dirty' = FALSE
    /\ IF Another(o) THEN Goto(o, "set") /\ UNCHANGED lock ELSE Done(o)
    /\ UNCHANGED <<objects, version, cmd, stored, paid, forgotten,
                   careless>>

(* The lock does not come free in time.                                     *)
LockTimeout(o) ==
    /\ step[o] = "lock"
    /\ lock # NoOne
    /\ Goto(o, "idle")
    /\ UNCHANGED <<objects, version, dirty, lock, cmd, stored, paid,
                   forgotten, careless>>

(****************************************************************************)
(* The api process, which never migrates                                    *)
(****************************************************************************)
(* A payment with key k.  The INSERT names the key column at every version, *)
(* and meets the constraint when there is one.                              *)
Post(k) ==
    /\ {"accounts", "transfers", "entries", "idempotency_key"} \subseteq objects
    /\ "key_unique" \in objects => k \notin stored
    /\ paid[k] < MaxPaid
    /\ stored' = stored \cup {k}
    /\ paid' = [paid EXCEPT ![k] = @ + 1]
    /\ UNCHANGED <<objects, version, dirty, lock, step, cmd, forgotten,
                   careless>>

Next ==
    \/ \E o \in Operators :
          \/ \E c \in Commands : Invoke(o, c)
          \/ \E v \in {None} \cup 0..(Latest + 1) : ForceVersion(o, v)
          \/ Lock(o) \/ LockTimeout(o) \/ SetDirty(o) \/ Execute(o)
          \/ SetClean(o) \/ Fail(o)
    \/ \E k \in Keys : Post(k)

Spec == Init /\ [][Next]_vars

(****************************************************************************)
(* Properties                                                               *)
(****************************************************************************)
(* The stored version is true, whatever two operators ran at the same time  *)
(* and wherever one of them failed or died, as long as nobody forced a      *)
(* version that was not the schema's: a clean one is the schema's, and a    *)
(* dirty one is that or next to it, since "a migration that fails partway   *)
(* leaves nothing behind" (migrations/README.md), so that force repairs it. *)
VersionIsTrue ==
    ~careless =>
        \E v \in IF dirty THEN {version, Above, Below} ELSE {version} :
            Exists(v) /\ objects = Schema(v)

(* "Migrations must be reversible" (TestMigrationsRoundTrip): in whatever   *)
(* order ups and downs follow each other, also after failures that were     *)
(* repaired, the file that is executed next fits the schema.                *)
MigrationsReverse ==
    ~careless => \A o \in Operators : step[o] = "file" => Applicable(o)

(* "at most one financial transfer per idempotency key"                     *)
(* (000005_add_transfer_idempotency.up.sql): while operators migrate in     *)
(* both directions, fail and force any version, a key that paid twice is    *)
(* one that a migration had dropped in between.                             *)
OncePerKey == \A k \in Keys : paid[k] > 1 => k \in forgotten
==============================================================================
