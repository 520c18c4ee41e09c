----------------------------- MODULE Migrations -----------------------------
(***************************************************************************)
(* The migration runner (frances-storage: lib.rs, and the list of schemas  *)
(* of frances-session: store.rs).  Every schema owns a list of migrations; *)
(* what has been applied is recorded in the table _migrations.  A program  *)
(* opens the database with the lists it declares, refuses it when they do  *)
(* not continue what is recorded, and else applies the rest, each in a     *)
(* transaction together with its record.  The program may be of another    *)
(* version every time, may fail, and may die at any moment.                *)
(*                                                                         *)
(* A migration is its name and its body; the checksum is the body itself   *)
(* (collisions are left out).                                              *)
(***************************************************************************)
EXTENDS Bounds, Sequences, SequencesExt

CONSTANTS
  Schemas,   \* the schemas, in the order in which apply_migrations runs them
  Programs,  \* what the versions of the program declare: [schemas -> lists]
  Installed  \* the program that is there at first

Names == ToSet(Schemas)
Text == STRING
Migration == [name : Text, sql : Text]

ASSUME MigrationAssumption ==
  /\ Schemas \in Seq(Names) /\ Schemas # <<>>
  /\ \A i, j \in DOMAIN Schemas : Schemas[i] = Schemas[j] => i = j
  /\ Installed \in [Names -> Seq(Migration)]
  /\ Programs \subseteq [Names -> Seq(Migration)]

VARIABLES
  applied,   \* _migrations: the rows of each schema by version
  made,      \* history: the bodies whose effect is in the database, by schema
  program,   \* what the running program declares
  boot,      \* how far its start is
  schema,    \* the schema in hand, an index of Schemas
  index,     \* run: the migration in hand
  tx         \* the transaction: its last statement, the bodies and rows it holds

migrationVars == <<applied, made, program, boot, schema, index, tx>>

Boot == {"down", "check", "apply", "refused", "ready"}
NoTx == [at |-> "none", bodies |-> <<>>, rows |-> <<>>]

MigrationInit ==
  /\ applied = [s \in Names |-> <<>>] /\ made = [s \in Names |-> <<>>]
  /\ program = Installed
  /\ boot = "down" /\ schema = 1 /\ index = 1 /\ tx = NoTx

Row(version, migration) ==
  [version |-> version, name |-> migration.name, checksum |-> migration.sql]

Current == Schemas[schema]
Declared == program[Current]
Recorded == applied[Current]

\* store::open, by a program of the same or of another version.
Start ==
  /\ boot = "down"
  /\ \/ UNCHANGED <<program, left>>
     \/ program' \in Programs \ {program} /\ Spend("versions")
  /\ boot' = "check" /\ schema' = 1 /\ index' = 1
  /\ UNCHANGED <<applied, made, tx>>

\* DeclaredShrunk, VersionMismatch, Renamed and ChecksumMismatch are its negation.
Continues ==
  /\ Len(Recorded) <= Len(Declared)
  /\ \A i \in DOMAIN Recorded : Recorded[i] = Row(i - 1, Declared[i])

Check ==
  /\ boot = "check"
  /\ boot' = IF Continues THEN "apply" ELSE "refused"
  /\ index' = Len(Recorded) + 1
  /\ UNCHANGED <<applied, made, program, schema, tx, left>>

InTransaction(before, after) ==
  /\ boot = "apply" /\ tx.at = before
  /\ tx' = after
  /\ UNCHANGED <<applied, program, boot, schema, left>>

Begin ==
  /\ index <= Len(Declared)
  /\ InTransaction("none", [tx EXCEPT !.at = "begun"])
  /\ UNCHANGED <<made, index>>

\* Mutant: the body is executed on the connection, outside the transaction.
RunBodyAtOnce ==
  /\ InTransaction("begun", [tx EXCEPT !.at = "body"])
  /\ made' = [made EXCEPT ![Current] = Append(@, Declared[index].sql)]
  /\ UNCHANGED index

RunBody ==
  /\ InTransaction("begun", [tx EXCEPT !.at = "body", !.bodies = <<Declared[index].sql>>])
  /\ UNCHANGED <<made, index>>

RunRecord ==
  /\ InTransaction("body", [tx EXCEPT !.at = "record", !.rows = <<Row(index - 1, Declared[index])>>])
  /\ UNCHANGED <<made, index>>

Commit ==
  /\ boot = "apply" /\ tx.at = "record"
  /\ made' = [made EXCEPT ![Current] = @ \o tx.bodies]
  /\ applied' = [applied EXCEPT ![Current] = @ \o tx.rows]
  /\ tx' = NoTx /\ index' = index + 1
  /\ UNCHANGED <<program, boot, schema, left>>

\* The loop of run is over; run_all goes on to the next schema.
SchemaDone ==
  /\ boot = "apply" /\ tx = NoTx /\ index > Len(Declared)
  /\ IF schema < Len(Schemas) THEN schema' = schema + 1 /\ boot' = "check"
                              ELSE UNCHANGED schema /\ boot' = "ready"
  /\ UNCHANGED <<applied, made, program, index, tx, left>>

\* A statement fails: the transaction is rolled back and run_all gives up.
StatementFails ==
  /\ boot = "apply" /\ tx # NoTx /\ Spend("faults")
  /\ tx' = NoTx /\ boot' = "refused"
  /\ UNCHANGED <<applied, made, program, schema, index>>

\* The process ends, by itself after a refusal or by a crash at any time.
MigrationsEnd == boot' = "down" /\ tx' = NoTx /\ UNCHANGED <<applied, made, program, schema, index>>

Migrate == Start \/ Check \/ Begin \/ RunBody \/ RunRecord \/ Commit \/ SchemaDone \/ StatementFails
-----------------------------------------------------------------------------
\* The record is the truth about the database (the runner's doc, lib.rs:250-261): whatever
\* crashes and fails, the rows of a schema are its versions from 0 on, without a gap, and
\* name exactly the bodies whose effect is there, in the order in which they ran.  And a
\* program that gets its database finds its own rows there and no other program's,
\* whichever versions have opened it before.
Rows(list) == [i \in DOMAIN list |-> Row(i - 1, list[i])]
RecordIsExact ==
  \A s \in Names :
    /\ made[s] = [i \in DOMAIN applied[s] |-> applied[s][i].checksum]
    /\ \A i \in DOMAIN applied[s] : applied[s][i].version = i - 1
    /\ boot = "ready" => applied[s] = Rows(program[s])
=============================================================================
