---------------------------- MODULE MigrateProofs ----------------------------
(****************************************************************************)
(* The migration runner, proved for every set of operators and keys: the    *)
(* stored version is true, the next file fits the schema, and a key that    *)
(* paid twice is one that a migration had dropped in between.               *)
(*                                                                          *)
(* The argument: the advisory lock makes the operator that holds it the     *)
(* only one that changes the version or the schema, and at each of its      *)
(* steps the schema is that of the stored version or of the one it came     *)
(* from; the key column and its constraint come and go together, so that    *)
(* while keys are stored none of them can pay again.                        *)
(****************************************************************************)
EXTENDS Migrate, TLAPS

(****************************************************************************)
(* The inductive invariant                                                  *)
(****************************************************************************)
MigrateTypeOK ==
    /\ version \in {None} \cup 0..(Latest + 1)
    /\ dirty \in BOOLEAN
    /\ careless \in BOOLEAN
    /\ lock \in Operators \cup {NoOne}
    /\ step \in [Operators -> {"idle", "lock", "set", "file", "clear"}]
    /\ cmd \in [Operators -> Commands]
    /\ stored \subseteq Keys
    /\ paid \in [Keys -> Nat]
    /\ forgotten \subseteq Keys

(* Who migrates holds the lock, and nobody else does.                       *)
LockInv ==
    \A o \in Operators : lock = o <=> step[o] \in {"set", "file", "clear"}

(* What the operator that migrates knows of the stored version.             *)
RunInv(o) ==
    /\ step[o] = "set" => ~dirty /\ Exists(version) /\ Pending(o)
    /\ step[o] = "file" =>
            /\ dirty
            /\ IF cmd[o] = "up" THEN version # None ELSE version # Latest
    /\ step[o] = "clear" => dirty

(* The version that the migration of o started from.                        *)
Origin(o) == IF cmd[o] = "up" THEN Below ELSE Above

(* The schema has the version that is stored, or the one before the         *)
(* migration that is under way or has failed.                               *)
SchemaInv ==
    /\ Exists(version)
    /\ ~dirty => objects = Schema(version)
    /\ \A o \in Operators :
          /\ step[o] = "file" => objects = Schema(Origin(o))
          /\ step[o] = "clear" => objects = Schema(version)
    /\ dirty => \E v \in {version, Above, Below} :
                   Exists(v) /\ objects = Schema(v)

(* The column and its constraint stand and fall together; without the       *)
(* column no key is stored; a key that has paid is stored or was dropped.   *)
KeyInv ==
    /\ "key_unique" \in objects <=> "idempotency_key" \in objects
    /\ "idempotency_key" \notin objects => stored = {}
    /\ \A k \in Keys : paid[k] > 0 => k \in stored \cup forgotten
    /\ OncePerKey

MigrateInv ==
    /\ MigrateTypeOK
    /\ LockInv
    /\ \A o \in Operators : RunInv(o)
    /\ dirty => Exists(version)
    /\ ~careless => SchemaInv
    /\ KeyInv

(****************************************************************************)
(* The migrations                                                           *)
(****************************************************************************)
(* What the down file of version v removes.                                 *)
Dropped(v) == UNION { {t} \cup On(t) : t \in Drops[v] }

(* The version before v.                                                    *)
Prior(v) == IF v = 1 THEN None ELSE v - 1

(* The versions that have a file, and none.                                 *)
LEMMA VersionsAre == \A v : Exists(v) <=> v \in {-1, 1, 2, 3, 4, 5}
  BY DEF Exists, None, Latest

(* What the up file of each version creates.                                *)
LEMMA CreatesAre ==
  /\ Creates[1] = create_accounts
  /\ Creates[2] = create_transfers
  /\ Creates[3] = create_ledger_entries
  /\ Creates[4] = enforce_balanced_transfers
  /\ Creates[5] = add_transfer_idempotency
  BY DEF Creates

(* Each version adds its file to the schema of the version before.          *)
LEMMA SchemaGrows ==
  /\ Schema(None) = {}
  /\ \A v \in 1..Latest : Schema(v) = Schema(Prior(v)) \cup Creates[v]
  <1>1. Schema(None) = {}
    BY DEF Schema, None
  <1>2. ASSUME NEW v \in 1..Latest
        PROVE  Schema(v) = Schema(Prior(v)) \cup Creates[v]
    <2>1. CASE v = 1
      <3>1. 1..1 = {1} /\ Prior(v) = None
        BY <2>1 DEF Prior
      <3> QED BY <1>1, <2>1, <3>1 DEF Schema
    <2>2. CASE v # 1
      <3>1. Prior(v) = v - 1 /\ 1..v = (1..(v - 1)) \cup {v}
        BY <1>2, <2>2 DEF Prior, Latest
      <3> QED BY <3>1 DEF Schema
    <2> QED BY <2>1, <2>2
  <1> QED BY <1>1, <1>2

(* The schema of each version.                                              *)
LEMMA SchemasAre ==
  /\ Schema(1) = create_accounts
  /\ Schema(2) = Schema(1) \cup create_transfers
  /\ Schema(3) = Schema(2) \cup create_ledger_entries
  /\ Schema(4) = Schema(3) \cup enforce_balanced_transfers
  /\ Schema(5) = Schema(4) \cup add_transfer_idempotency
  <1>1. 1 \in 1..Latest /\ 2 \in 1..Latest /\ 3 \in 1..Latest
          /\ 4 \in 1..Latest /\ 5 \in 1..Latest
    BY DEF Latest
  <1>2. Prior(1) = None /\ Prior(2) = 1 /\ Prior(3) = 2 /\ Prior(4) = 3
          /\ Prior(5) = 4
    BY DEF Prior
  <1> QED BY <1>1, <1>2, SchemaGrows, CreatesAre

(* The up file of v fits the schema of the version before.                  *)
LEMMA UpFits ==
  ASSUME NEW v \in 1..Latest
  PROVE  /\ Creates[v] \cap Schema(Prior(v)) = {}
         /\ Needs[v] \subseteq Schema(Prior(v))
  <1> USE DEF create_accounts, create_transfers, create_ledger_entries,
              enforce_balanced_transfers, add_transfer_idempotency
  <1>1. CASE v = 1
    BY <1>1, SchemaGrows DEF Prior, Needs
  <1>2. CASE v = 2
    BY <1>2, SchemasAre, CreatesAre DEF Prior, Needs
  <1>3. CASE v = 3
    BY <1>3, SchemasAre, CreatesAre DEF Prior, Needs
  <1>4. CASE v = 4
    BY <1>4, SchemasAre, CreatesAre DEF Prior, Needs
  <1>5. CASE v = 5
    BY <1>5, SchemasAre, CreatesAre DEF Prior, Needs
  <1> QED BY <1>1, <1>2, <1>3, <1>4, <1>5 DEF Latest

(* What the down file of each version drops.                                *)
LEMMA DroppedAre ==
  /\ Dropped(1) = create_accounts
  /\ Dropped(2) = create_transfers \cup
                    {"transfers_balance", "idempotency_key", "key_unique"}
  /\ Dropped(3) = create_ledger_entries \cup {"entries_balance"}
  /\ Dropped(4) = enforce_balanced_transfers
  /\ Dropped(5) = add_transfer_idempotency
  <1> USE DEF create_accounts, create_transfers, create_ledger_entries,
              enforce_balanced_transfers, add_transfer_idempotency
  <1>1. /\ On("accounts") = {"accounts_set_updated_at"}
        /\ On("transfers") = {"transfers_immutable", "transfers_balance",
                              "idempotency_key", "key_unique"}
        /\ On("entries") = {"entries_append_only", "entries_balance"}
    BY DEF On
  <1>2. \A t : t \notin {"accounts", "transfers", "entries"} => On(t) = {}
    BY DEF On
  <1>3. \A v : Dropped(v) = Creates[v] \cup UNION { On(t) : t \in Creates[v] }
    BY DEF Dropped, Drops
  <1>4. Dropped(1) = create_accounts
    <2>1. UNION { On(t) : t \in create_accounts } = On("accounts")
      BY <1>2
    <2> QED BY <1>1, <1>3, <2>1, CreatesAre
  <1>5. Dropped(2) = create_transfers \cup
                       {"transfers_balance", "idempotency_key", "key_unique"}
    <2>1. UNION { On(t) : t \in create_transfers } = On("transfers")
      BY <1>2
    <2> QED BY <1>1, <1>3, <2>1, CreatesAre
  <1>6. Dropped(3) = create_ledger_entries \cup {"entries_balance"}
    <2>1. UNION { On(t) : t \in create_ledger_entries } = On("entries")
      BY <1>2
    <2> QED BY <1>1, <1>3, <2>1, CreatesAre
  <1>7. Dropped(4) = enforce_balanced_transfers
    BY <1>2, <1>3, CreatesAre
  <1>8. Dropped(5) = add_transfer_idempotency
    BY <1>2, <1>3, CreatesAre
  <1> QED BY <1>4, <1>5, <1>6, <1>7, <1>8

(* The down file of v fits the schema of v, and takes it back to the schema *)
(* of the version before.                                                   *)
LEMMA DownFits ==
  ASSUME NEW v \in 1..Latest
  PROVE  /\ Schema(v) \ Dropped(v) = Schema(Prior(v))
         /\ \A t \in Drops[v] : Referring(t) \cap Schema(v) = {}
         /\ v = 5 => "transfers" \in Schema(v)
  <1> USE DEF create_accounts, create_transfers, create_ledger_entries,
              enforce_balanced_transfers, add_transfer_idempotency
  <1>1. Schema(v) \ Dropped(v) = Schema(Prior(v))
    <2>0. Schema(v) = Schema(Prior(v)) \cup Creates[v]
      BY SchemaGrows
    <2>1. Creates[v] \subseteq Dropped(v)
      BY DEF Dropped, Drops
    <2>2. Dropped(v) \cap Schema(Prior(v)) = {}
      <3>1. CASE v = 1
        BY <3>1, SchemaGrows DEF Prior
      <3>2. CASE v = 2
        BY <3>2, SchemasAre, DroppedAre DEF Prior
      <3>3. CASE v = 3
        BY <3>3, SchemasAre, DroppedAre DEF Prior
      <3>4. CASE v = 4
        BY <3>4, SchemasAre, DroppedAre DEF Prior
      <3>5. CASE v = 5
        BY <3>5, SchemasAre, DroppedAre DEF Prior
      <3> QED BY <3>1, <3>2, <3>3, <3>4, <3>5 DEF Latest
    <2> QED BY <2>0, <2>1, <2>2
  <1>2. \A t \in Drops[v] : Referring(t) \cap Schema(v) = {}
    <2>0. /\ Referring("accounts") \subseteq {"transfers", "entries"}
          /\ Referring("transfers") \subseteq {"entries"}
          /\ \A t : t \notin {"accounts", "transfers"} => Referring(t) = {}
      BY CreatesAre DEF Referring, Needs
    <2>1. CASE v = 1
      BY <2>0, <2>1, SchemasAre, CreatesAre DEF Drops
    <2>2. CASE v = 2
      BY <2>0, <2>2, SchemasAre, CreatesAre DEF Drops
    <2>3. CASE v \in {3, 4, 5}
      BY <2>0, <2>3, CreatesAre DEF Drops
    <2> QED BY <2>1, <2>2, <2>3 DEF Latest
  <1>3. v = 5 => "transfers" \in Schema(v)
    BY SchemasAre
  <1> QED BY <1>1, <1>2, <1>3

(****************************************************************************)
(* The steps                                                                *)
(****************************************************************************)
(* The invariant holds of an empty database.                                *)
LEMMA InitInv == Init => MigrateInv
  <1> SUFFICES ASSUME Init PROVE MigrateInv
    OBVIOUS
  <1> USE DEF Init
  <1>1. MigrateTypeOK
    BY DEF MigrateTypeOK, Commands, None, Latest
  <1>2. LockInv /\ \A o \in Operators : RunInv(o)
    BY OperatorsAssumption DEF LockInv, RunInv
  <1>3. SchemaInv
    BY SchemaGrows DEF SchemaInv, Exists
  <1>4. KeyInv
    BY DEF KeyInv, OncePerKey
  <1> QED BY <1>1, <1>2, <1>3, <1>4 DEF MigrateInv

(* Who does not migrate while another does has nothing to lose: the steps   *)
(* of o leave what RunInv and SchemaInv say of the others alone.            *)
LEMMA OnlyHolder ==
  ASSUME MigrateInv, NEW o \in Operators,
         step[o] \in {"set", "file", "clear"} \/ lock = NoOne,
         NEW p \in Operators \ {o}
  PROVE  step[p] \in {"idle", "lock"}
  BY OperatorsAssumption DEF MigrateInv, MigrateTypeOK, LockInv

(* An operator starts a command.                                            *)
LEMMA InvokeInv ==
  ASSUME MigrateInv, NEW o \in Operators, NEW c \in Commands, Invoke(o, c)
  PROVE  MigrateInv'
  <1> USE DEF MigrateInv, Invoke, Goto
  <1>1. MigrateTypeOK'
    BY DEF MigrateTypeOK
  <1>2. \A p \in Operators :
          /\ step'[p] \in {"set", "file", "clear"} =>
                step'[p] = step[p] /\ cmd'[p] = cmd[p]
          /\ step[p] \in {"set", "file", "clear"} => step'[p] = step[p]
    BY DEF MigrateTypeOK
  <1>3. LockInv'
    BY <1>2 DEF LockInv
  <1>4. \A p \in Operators : RunInv(p)'
    BY <1>2 DEF RunInv, Pending
  <1>5. ~careless' => SchemaInv'
    BY <1>2 DEF SchemaInv, Origin, Above, Below
  <1>6. KeyInv'
    BY DEF KeyInv, OncePerKey
  <1> QED BY <1>1, <1>3, <1>4, <1>5, <1>6

(* A command takes the advisory lock and reads the version.                 *)
LEMMA LockTakenInv ==
  ASSUME MigrateInv, NEW o \in Operators, Lock(o) \/ LockTimeout(o)
  PROVE  MigrateInv'
  <1> USE DEF MigrateInv
  <1>0. UNCHANGED <<objects, version, dirty, cmd, stored, paid, forgotten,
                    careless>>
    BY DEF Lock, LockTimeout
  <1>1. MigrateTypeOK'
    BY <1>0 DEF MigrateTypeOK, Lock, LockTimeout, Goto
  <1>2. CASE step'[o] = "set"
    <2>1. /\ step' = [step EXCEPT ![o] = "set"] /\ lock = NoOne /\ lock' = o
          /\ ~dirty /\ Exists(version) /\ Pending(o)
      BY <1>2 DEF Lock, LockTimeout, Goto, MigrateTypeOK
    <2>2. \A p \in Operators \ {o} : step'[p] = step[p]
                                       /\ step[p] \in {"idle", "lock"}
      BY <2>1, OnlyHolder DEF MigrateTypeOK
    <2>3. LockInv'
      BY <1>2, <2>1, <2>2 DEF LockInv
    <2>4. \A p \in Operators : RunInv(p)'
      BY <1>0, <1>2, <2>1, <2>2 DEF RunInv, Pending, Exists
    <2>5. ~careless' => SchemaInv'
      BY <1>0, <1>2, <2>1, <2>2 DEF SchemaInv, Exists
    <2>6. KeyInv'
      BY <1>0 DEF KeyInv, OncePerKey
    <2> QED BY <1>0, <1>1, <2>3, <2>4, <2>5, <2>6 DEF Exists
  <1>3. CASE step'[o] # "set"
    <2>1. /\ step[o] = "lock" /\ step' = [step EXCEPT ![o] = "idle"]
          /\ lock' = lock
      BY <1>3 DEF Lock, LockTimeout, Goto, MigrateTypeOK
    <2>2. \A p \in Operators : p # o => step'[p] = step[p]
      BY <2>1 DEF MigrateTypeOK
    <2>3. step'[o] = "idle"
      BY <2>1 DEF MigrateTypeOK
    <2>4. LockInv'
      BY <2>1, <2>2, <2>3 DEF LockInv
    <2>5. \A p \in Operators : RunInv(p)'
      BY <1>0, <2>2, <2>3 DEF RunInv, Pending, Exists
    <2>6. ~careless' => SchemaInv'
      BY <1>0, <2>2, <2>3 DEF SchemaInv, Exists, Origin, Above, Below
    <2>7. KeyInv'
      BY <1>0 DEF KeyInv, OncePerKey
    <2> QED BY <1>0, <1>1, <2>4, <2>5, <2>6, <2>7 DEF Exists
  <1> QED BY <1>2, <1>3

(* force stores a version.                                                  *)
LEMMA ForceInv ==
  ASSUME MigrateInv, NEW o \in Operators,
         NEW v \in {None} \cup 0..(Latest + 1), ForceVersion(o, v)
  PROVE  MigrateInv'
  <1> USE DEF MigrateInv, ForceVersion
  <1>1. MigrateTypeOK'
    BY DEF MigrateTypeOK
  <1>2. \A p \in Operators : step'[p] = step[p] /\ step[p] \in {"idle", "lock"}
    BY OnlyHolder
  <1>3. LockInv' /\ \A p \in Operators : RunInv(p)'
    BY <1>2 DEF LockInv, RunInv
  <1>4. ~careless' => SchemaInv'
    BY <1>2 DEF SchemaInv, Exists, Schema
  <1>5. KeyInv'
    BY DEF KeyInv, OncePerKey
  <1> QED BY <1>1, <1>3, <1>4, <1>5

(* The version a migration leads to is that of a file or of an empty        *)
(* schema, and the migration can be told from it.                           *)
LEMMA TargetFacts ==
  ASSUME NEW o \in Operators, cmd[o] \in Commands, Exists(version), Pending(o)
  PROVE  /\ Exists(Target(o))
         /\ IF cmd[o] = "up" THEN Target(o) # None /\ version = Prior(Target(o))
            ELSE Target(o) # Latest /\ Target(o) = Prior(version)
                   /\ version \in 1..Latest
  BY VersionsAre DEF Target, Above, Below, Pending, Prior, None, Latest

(* A version is stored as dirty.                                            *)
LEMMA SetDirtyInv ==
  ASSUME MigrateInv, NEW o \in Operators, SetDirty(o)
  PROVE  MigrateInv'
  <1> USE DEF MigrateInv
  <1>0. /\ step' = [step EXCEPT ![o] = "file"] /\ step[o] = "set"
        /\ version' = Target(o) /\ dirty'
        /\ UNCHANGED <<objects, lock, cmd, stored, paid, forgotten, careless>>
    BY DEF SetDirty, Goto
  <1>1. ~dirty /\ Exists(version) /\ Pending(o) /\ cmd[o] \in Commands
    BY <1>0 DEF RunInv, MigrateTypeOK
  <1>2. /\ Exists(Target(o))
        /\ IF cmd[o] = "up" THEN Target(o) # None /\ version = Prior(Target(o))
           ELSE Target(o) # Latest /\ Target(o) = Prior(version)
                  /\ version \in 1..Latest
    BY <1>1, TargetFacts
  <1>3. /\ step'[o] = "file"
        /\ \A p \in Operators \ {o} : step'[p] = step[p]
                                        /\ step[p] \in {"idle", "lock"}
    BY <1>0, OnlyHolder DEF MigrateTypeOK
  <1>4. MigrateTypeOK'
    BY <1>0, <1>2, VersionsAre DEF MigrateTypeOK, None, Latest
  <1>5. LockInv'
    BY <1>0, <1>3 DEF LockInv
  <1>6. \A p \in Operators : RunInv(p)'
    BY <1>0, <1>2, <1>3 DEF RunInv
  <1>7. Exists(version)'
    BY <1>0, <1>2 DEF Exists
  <1>8. Origin(o)' = version
    BY <1>0, <1>1, <1>2, VersionsAre
       DEF Origin, Above, Below, Prior, None, Latest, Target
  <1>9. ~careless' => SchemaInv'
    <2> SUFFICES ASSUME ~careless PROVE SchemaInv'
      BY <1>0
    <2>1. objects' = Schema(version)
      BY <1>0, <1>1 DEF SchemaInv
    <2>2. objects' = Schema(Origin(o)')
      BY <1>8, <2>1
    <2>3. Origin(o)' \in {version', Above', Below'} /\ Exists(Origin(o)')
      BY <1>1, <1>8 DEF Origin
    <2> QED BY <1>0, <1>3, <1>7, <2>2, <2>3 DEF SchemaInv, Schema, Exists
  <1>10. KeyInv'
    BY <1>0 DEF KeyInv, OncePerKey
  <1> QED BY <1>4, <1>5, <1>6, <1>7, <1>9, <1>10

(* A command fails or dies.                                                 *)
LEMMA FailInv ==
  ASSUME MigrateInv, NEW o \in Operators, Fail(o)
  PROVE  MigrateInv'
  <1> USE DEF MigrateInv
  <1>0. /\ step' = [step EXCEPT ![o] = "idle"] /\ lock' = NoOne
        /\ step[o] \in {"set", "file", "clear"}
        /\ UNCHANGED <<objects, version, dirty, cmd, stored, paid, forgotten,
                       careless>>
    BY DEF Fail, Done, Goto, NoStatement
  <1>1. /\ step'[o] = "idle"
        /\ \A p \in Operators \ {o} : step'[p] = step[p]
                                        /\ step[p] \in {"idle", "lock"}
    BY <1>0, OnlyHolder DEF MigrateTypeOK
  <1>2. MigrateTypeOK'
    BY <1>0 DEF MigrateTypeOK
  <1>3. LockInv' /\ \A p \in Operators : RunInv(p)'
    BY <1>0, <1>1, OperatorsAssumption DEF LockInv, RunInv
  <1>4. ~careless' => SchemaInv'
    BY <1>0, <1>1 DEF SchemaInv, Exists, Above, Below, Schema
  <1>5. KeyInv'
    BY <1>0 DEF KeyInv, OncePerKey
  <1> QED BY <1>0, <1>2, <1>3, <1>4, <1>5 DEF Exists

(* A version is stored as clean.                                            *)
LEMMA SetCleanInv ==
  ASSUME MigrateInv, NEW o \in Operators, SetClean(o)
  PROVE  MigrateInv'
  <1> USE DEF MigrateInv
  <1>0. /\ step[o] = "clear" /\ dirty' = FALSE
        /\ \/ /\ step' = [step EXCEPT ![o] = "set"] /\ lock' = lock
              /\ Pending(o)
           \/ step' = [step EXCEPT ![o] = "idle"] /\ lock' = NoOne
        /\ UNCHANGED <<objects, version, cmd, stored, paid, forgotten,
                       careless>>
    BY DEF SetClean, Done, Goto, Another
  <1>1. /\ \/ step'[o] = "set" /\ lock' = lock /\ Pending(o)
           \/ step'[o] = "idle" /\ lock' = NoOne
        /\ \A p \in Operators \ {o} : step'[p] = step[p]
                                        /\ step[p] \in {"idle", "lock"}
    BY <1>0, OnlyHolder DEF MigrateTypeOK
  <1>e. Exists(version)
    BY <1>0 DEF RunInv
  <1>2. MigrateTypeOK'
    BY <1>0 DEF MigrateTypeOK
  <1>3. LockInv'
    BY <1>0, <1>1, OperatorsAssumption DEF LockInv
  <1>4. \A p \in Operators : RunInv(p)'
    BY <1>0, <1>1, <1>e DEF RunInv, Pending, Exists
  <1>5. ~careless' => SchemaInv'
    BY <1>0, <1>1 DEF SchemaInv, Exists, Schema
  <1>6. KeyInv'
    BY <1>0 DEF KeyInv, OncePerKey
  <1> QED BY <1>0, <1>2, <1>3, <1>4, <1>5, <1>6

(* The constraint refuses a key that is stored, so that the second payment  *)
(* with a key comes after a migration that dropped the first.               *)
LEMMA PostInv ==
  ASSUME MigrateInv, NEW k \in Keys, Post(k)
  PROVE  MigrateInv'
  <1> USE DEF MigrateInv
  <1>0. /\ k \notin stored /\ stored' = stored \cup {k}
        /\ paid' = [paid EXCEPT ![k] = @ + 1]
        /\ "idempotency_key" \in objects
        /\ UNCHANGED <<objects, version, dirty, lock, step, cmd, forgotten,
                       careless>>
    BY DEF Post, KeyInv
  <1>1. MigrateTypeOK'
    BY <1>0 DEF MigrateTypeOK
  <1>2. LockInv' /\ \A p \in Operators : RunInv(p)'
    BY <1>0 DEF LockInv, RunInv, Pending, Exists
  <1>3. ~careless' => SchemaInv'
    BY <1>0 DEF SchemaInv, Exists, Above, Below, Schema, Origin
  <1>4. KeyInv'
    <2>1. paid'[k] = paid[k] + 1 /\ \A j \in Keys \ {k} : paid'[j] = paid[j]
      BY <1>0 DEF MigrateTypeOK
    <2>2. paid[k] > 0 => k \in forgotten
      BY <1>0 DEF KeyInv
    <2>3. paid[k] \in Nat
      BY DEF MigrateTypeOK
    <2> QED BY <1>0, <2>1, <2>2, <2>3 DEF KeyInv, OncePerKey
  <1> QED BY <1>0, <1>1, <1>2, <1>3, <1>4 DEF Exists

(* The file that is executed is one of the five, and the stored version is  *)
(* the one it leads to.                                                     *)
LEMMA FileFacts ==
  ASSUME MigrateInv, NEW o \in Operators, step[o] = "file"
  PROVE  /\ File(o) \in 1..Latest
         /\ IF cmd[o] = "up"
            THEN version = File(o) /\ Origin(o) = Prior(File(o))
            ELSE version = Prior(File(o)) /\ Origin(o) = File(o)
  <1>1. /\ Exists(version)
        /\ IF cmd[o] = "up" THEN version # None ELSE version # Latest
    BY DEF MigrateInv, RunInv
  <1> QED BY <1>1, VersionsAre
          DEF File, Origin, Above, Below, Prior, None, Latest

(* Unless a version was forced that is not the schema's, the file fits, and *)
(* it makes the schema that of the stored version.                          *)
LEMMA FileFits ==
  ASSUME MigrateInv, NEW o \in Operators, step[o] = "file", ~careless
  PROVE  Applicable(o) /\ Applied(o) = Schema(version)
  <1>1. objects = Schema(Origin(o))
    BY DEF MigrateInv, SchemaInv
  <1>2. CASE cmd[o] = "up"
    BY <1>1, <1>2, FileFacts, UpFits, SchemaGrows DEF Applicable, Applied
  <1>3. CASE cmd[o] # "up"
    BY <1>1, <1>3, FileFacts, DownFits DEF Applicable, Applied, Dropped
  <1> QED BY <1>2, <1>3

(* Every file brings the key column and its constraint together, or takes   *)
(* them away together, or leaves both alone.                                *)
LEMMA KeyColumn ==
  ASSUME NEW v \in 1..Latest
  PROVE  /\ "key_unique" \in Creates[v] <=> "idempotency_key" \in Creates[v]
         /\ "key_unique" \in Dropped(v) <=> "idempotency_key" \in Dropped(v)
  <1> USE DEF create_accounts, create_transfers, create_ledger_entries,
              enforce_balanced_transfers, add_transfer_idempotency
  <1>1. "key_unique" \in Creates[v] <=> "idempotency_key" \in Creates[v]
    BY CreatesAre DEF Latest
  <1>2. "key_unique" \in Dropped(v) <=> "idempotency_key" \in Dropped(v)
    BY DroppedAre DEF Latest
  <1> QED BY <1>1, <1>2

(* A file is executed.                                                      *)
LEMMA ExecuteInv ==
  ASSUME MigrateInv, NEW o \in Operators, Execute(o)
  PROVE  MigrateInv'
  <1> USE DEF MigrateInv
  <1>0. /\ step[o] = "file" /\ step' = [step EXCEPT ![o] = "clear"]
        /\ objects' = Applied(o)
        /\ UNCHANGED <<version, dirty, lock, cmd, paid, careless>>
        /\ IF "idempotency_key" \in objects'
           THEN UNCHANGED <<stored, forgotten>>
           ELSE stored' = {} /\ forgotten' = forgotten \cup stored
    BY DEF Execute, Goto
  <1>1. /\ step'[o] = "clear"
        /\ \A p \in Operators \ {o} : step'[p] = step[p]
                                        /\ step[p] \in {"idle", "lock"}
    BY <1>0, OnlyHolder DEF MigrateTypeOK
  <1>2. MigrateTypeOK'
    BY <1>0 DEF MigrateTypeOK
  <1>3. LockInv'
    BY <1>0, <1>1 DEF LockInv
  <1>4. \A p \in Operators : RunInv(p)'
    BY <1>0, <1>1 DEF RunInv
  <1>5. ~careless' => SchemaInv'
    <2> SUFFICES ASSUME ~careless PROVE SchemaInv'
      BY <1>0
    <2>1. objects' = Schema(version) /\ dirty /\ Exists(version)
      BY <1>0, FileFits DEF RunInv, SchemaInv
    <2> QED BY <1>0, <1>1, <2>1 DEF SchemaInv, Schema, Exists
  <1>6. KeyInv'
    <2>1. "key_unique" \in objects' <=> "idempotency_key" \in objects'
      <3>1. "key_unique" \in objects <=> "idempotency_key" \in objects
        BY DEF KeyInv
      <3>2. File(o) \in 1..Latest
        BY <1>0, FileFacts
      <3>3. objects' = IF cmd[o] = "up" THEN objects \cup Creates[File(o)]
                       ELSE objects \ Dropped(File(o))
        BY <1>0 DEF Applied, Dropped
      <3> QED BY <3>1, <3>2, <3>3, KeyColumn
    <2> QED BY <1>0, <2>1 DEF KeyInv, OncePerKey
  <1> QED BY <1>0, <1>2, <1>3, <1>4, <1>5, <1>6 DEF Exists

(* Every step keeps the invariant.                                          *)
LEMMA NextInv == MigrateInv /\ [Next]_vars => MigrateInv'
  <1> SUFFICES ASSUME MigrateInv, [Next]_vars PROVE MigrateInv'
    OBVIOUS
  <1>1. CASE UNCHANGED vars
    BY <1>1 DEF vars, MigrateInv, MigrateTypeOK, LockInv, RunInv, Pending,
       Exists, SchemaInv, Schema, Above, Below, Origin, KeyInv, OncePerKey
  <1>2. CASE Next
    BY <1>2, InvokeInv, ForceInv, LockTakenInv, SetDirtyInv, ExecuteInv,
       SetCleanInv, FailInv, PostInv DEF Next
  <1> QED BY <1>1, <1>2

(****************************************************************************)
(* The theorems                                                             *)
(****************************************************************************)
(* The invariant holds for any number of operators and keys, in any order   *)
(* of commands, failures, forced versions and payments.                     *)
THEOREM Invariance == Spec => []MigrateInv
  BY InitInv, NextInv, PTL DEF Spec

(* The version in schema_migrations is true, or next to the truth while it  *)
(* is dirty, unless somebody forced a version that was not the schema's.    *)
THEOREM VersionTrue == Spec => []VersionIsTrue
  <1>1. MigrateInv => VersionIsTrue
    BY DEF MigrateInv, SchemaInv, VersionIsTrue
  <1> QED BY <1>1, Invariance, PTL

(* Ups and downs can follow each other in any order, also after failures    *)
(* and repairs: the next file of cmd/migrate always fits the schema.        *)
THEOREM Reversible == Spec => []MigrationsReverse
  <1>1. MigrateInv => MigrationsReverse
    BY FileFits DEF MigrationsReverse
  <1> QED BY <1>1, Invariance, PTL

(* A key that paid twice is one whose column a migration had dropped in     *)
(* between, whatever versions were forced.                                  *)
THEOREM PaidOncePerKey == Spec => []OncePerKey
  <1>1. MigrateInv => OncePerKey
    BY DEF MigrateInv, KeyInv
  <1> QED BY <1>1, Invariance, PTL
==============================================================================
