------------------------------- MODULE Schema -------------------------------
(* Opening the database: Store::open and Store::migrate (litrpg-store).    *)
(* Every command of the CLI, the engine and the daemon open the same file, *)
(* and whoever comes first brings its schema up to date. A batch of DDL is *)
(* not a transaction and user_version is written after the last batch, so  *)
(* a process may die, or meet another, between any two statements. No      *)
(* migration begins with a statement that can be run twice.                *)
EXTENDS Naturals, Sequences

CONSTANTS
  Processes,
  MIGRATIONS    \* the number of DDL statements of each, backfills included

ASSUME MigrationsAssumption == MIGRATIONS \in Seq(Nat \ {0})

VARIABLES
  userVersion,  \* PRAGMA user_version
  objects,      \* the statements the database has seen, as <<migration, statement>>
  opening       \* of each process: where it is in Store::open

schemaVars == <<userVersion, objects, opening>>

TARGET_VERSION == Len(MIGRATIONS)
UpTo(v) == UNION {{m} \X (1..MIGRATIONS[m]) : m \in 1..v}

Closed == [at |-> "closed", next |-> <<0, 0>>]
Opened == [at |-> "open", next |-> <<0, 0>>]
Failed == [at |-> "failed", next |-> <<0, 0>>]
Open(p) == opening[p] = Opened

(* A fresh database, or one that an older or a newer build has left.       *)
SchemaInit ==
  /\ userVersion \in 0..(TARGET_VERSION + 1)
  /\ objects = UpTo(IF userVersion > TARGET_VERSION THEN TARGET_VERSION ELSE userVersion)
  /\ opening = [p \in Processes |-> Closed]

(* Mutant: the version is written first, so that nobody else migrates.     *)
OpenStore_StampFirst(p) ==
  /\ opening[p] = Closed
  /\ opening' = [opening EXCEPT ![p] =
       CASE userVersion > TARGET_VERSION -> Failed
         [] userVersion = TARGET_VERSION -> Opened
         [] OTHER -> [at |-> "migrating", next |-> <<userVersion + 1, 1>>]]
  /\ userVersion' = (IF userVersion > TARGET_VERSION THEN userVersion ELSE TARGET_VERSION)
  /\ UNCHANGED objects

(* migrate reads user_version; a newer schema is refused.                  *)
OpenStore(p) ==
  /\ opening[p] = Closed
  /\ opening' = [opening EXCEPT ![p] =
       CASE userVersion > TARGET_VERSION -> Failed
         [] userVersion = TARGET_VERSION -> Opened
         [] OTHER -> [at |-> "migrating", next |-> <<userVersion + 1, 1>>]]
  /\ UNCHANGED <<userVersion, objects>>

After(m, i) == IF i < MIGRATIONS[m] THEN <<m, i + 1>> ELSE <<m + 1, 1>>

(* One statement of one batch; what is there already cannot be made again. *)
Migrate(p) ==
  /\ opening[p].at = "migrating"
  /\ LET next == opening[p].next IN
     /\ next[1] <= TARGET_VERSION
     /\ objects' = objects \cup {next}
     /\ opening' = [opening EXCEPT ![p] =
          IF next \in objects THEN Failed ELSE [@ EXCEPT !.next = After(next[1], next[2])]]
  /\ UNCHANGED userVersion

StampVersion(p) ==
  /\ opening[p].at = "migrating" /\ opening[p].next[1] > TARGET_VERSION
  /\ userVersion' = TARGET_VERSION
  /\ opening' = [opening EXCEPT ![p] = Opened]
  /\ UNCHANGED objects

(* The process ends, of itself or not, wherever it is.                     *)
CloseStore(p) ==
  /\ opening' = [opening EXCEPT ![p] = Closed]
  /\ UNCHANGED <<userVersion, objects>>

Opens(p) == OpenStore(p) \/ Migrate(p) \/ StampVersion(p)

-----------------------------------------------------------------------------
(* Whoever has opened the database works on the whole schema, whoever made *)
(* it, whatever died or was still at it in between (lib.rs, migrate).      *)
OpenedIsMigrated ==
  \A p \in Processes : Open(p) => objects = UpTo(TARGET_VERSION)

=============================================================================
