------------------------------- MODULE MCOrm --------------------------------
(***************************************************************************)
(* The ORM's parts, one at a time: which says which of them a              *)
(* behaviour is about, and the variables of the others stay at Unused.     *)
(***************************************************************************)
EXTENDS Integers, Sequences, TLC

CONSTANTS MaxConds, BaseLen, DefaultRows, MaxRows, NFilters, MaxCalls, Programs,
          NMigrations, NStatements, MaxCommands, MaxTroubles

\* A condition is built of something, there are statements in a migration, and
\* filters may be none.
ASSUME OrmAssumption ==
  /\ BaseLen \in Nat \ {0} /\ NFilters \in Nat /\ NMigrations \in Nat /\ NStatements \in Nat \ {0}

VARIABLES which,
          rel, arr, conds, ideal, forked, question, answer, form, kind, rows, broken,
          cnt, acc, cont, status, struct, fields, pk, state, decl, orders, info,
          round, left, err, linked, frames, panicking, tx, calls, verdict, own, cut,
          tolerant, migrated, recorded, cmd, commands, troubles, downs, again, alone

Query == INSTANCE OrmQuery
Results == INSTANCE OrmRead
FieldsOf == INSTANCE OrmFields
Registry == INSTANCE OrmRegistry
Filters == INSTANCE OrmFilter
Migrate == INSTANCE Migration

Unused == <<>>
QueryOff ==
  /\ rel = Unused /\ arr = Unused /\ conds = Unused /\ ideal = Unused
  /\ forked = Unused /\ question = Unused /\ answer = Unused
ReadOff ==
  /\ form = Unused /\ kind = Unused /\ rows = Unused /\ broken = Unused
  /\ cnt = Unused /\ acc = Unused /\ cont = Unused /\ status = Unused
FieldsOfOff ==
  /\ struct = Unused /\ fields = Unused /\ pk = Unused /\ state = Unused
RegistryOff ==
  /\ decl = Unused /\ orders = Unused /\ info = Unused /\ round = Unused
  /\ left = Unused /\ err = Unused /\ linked = Unused
FiltersOff ==
  /\ frames = Unused /\ panicking = Unused /\ tx = Unused /\ calls = Unused
  /\ verdict = Unused /\ own = Unused /\ cut = Unused
MigrateOff ==
  /\ tolerant = Unused /\ migrated = Unused /\ recorded = Unused /\ cmd = Unused
  /\ commands = Unused /\ troubles = Unused /\ downs = Unused /\ again = Unused
  /\ alone = Unused

queryVars == <<rel, arr, conds, ideal, forked, question, answer>>
readVars == <<form, kind, rows, broken, cnt, acc, cont, status>>
fieldsVars == <<struct, fields, pk, state>>
registryVars == <<decl, orders, info, round, left, err, linked>>
filterVars == <<frames, panicking, tx, calls, verdict, own, cut>>
migrationVars ==
  <<tolerant, migrated, recorded, cmd, commands, troubles, downs, again, alone>>
ormVars ==
  <<which, queryVars, readVars, fieldsVars, registryVars, filterVars, migrationVars>>

OrmInit ==
  \/ /\ which = "query" /\ Query!Init
     /\ ReadOff /\ FieldsOfOff /\ RegistryOff /\ FiltersOff /\ MigrateOff
  \/ /\ which = "read" /\ Results!Init
     /\ QueryOff /\ FieldsOfOff /\ RegistryOff /\ FiltersOff /\ MigrateOff
  \/ /\ which = "fields" /\ FieldsOf!Init
     /\ QueryOff /\ ReadOff /\ RegistryOff /\ FiltersOff /\ MigrateOff
  \/ /\ which = "registry" /\ Registry!Init
     /\ QueryOff /\ ReadOff /\ FieldsOfOff /\ FiltersOff /\ MigrateOff
  \/ /\ which = "filter" /\ Filters!Init
     /\ QueryOff /\ ReadOff /\ FieldsOfOff /\ RegistryOff /\ MigrateOff
  \/ /\ which = "migration" /\ Migrate!Init
     /\ QueryOff /\ ReadOff /\ FieldsOfOff /\ RegistryOff /\ FiltersOff

OrmNext ==
  \/ /\ which = "query" /\ Query!Next
     /\ UNCHANGED <<which, readVars, fieldsVars, registryVars, filterVars, migrationVars>>
  \/ /\ which = "read" /\ Results!Next
     /\ UNCHANGED <<which, queryVars, fieldsVars, registryVars, filterVars, migrationVars>>
  \/ /\ which = "fields" /\ FieldsOf!Next
     /\ UNCHANGED <<which, queryVars, readVars, registryVars, filterVars, migrationVars>>
  \/ /\ which = "registry" /\ Registry!Next
     /\ UNCHANGED <<which, queryVars, readVars, fieldsVars, filterVars, migrationVars>>
  \/ /\ which = "filter" /\ Filters!Next
     /\ UNCHANGED <<which, queryVars, readVars, fieldsVars, registryVars, migrationVars>>
  \/ /\ which = "migration" /\ Migrate!Next
     /\ UNCHANGED <<which, queryVars, readVars, fieldsVars, registryVars, filterVars>>

OrmSpec == OrmInit /\ [][OrmNext]_ormVars

\* See OrmQuery: conditions, joins, Count and All agree.
QuerySound == which = "query" => Query!QuerySound
\* See OrmRead: a container holds one answer, or what it held.
ReadSound == which = "read" => Results!ReadSound
\* See OrmFields: an accepted model has one key and sane columns.
FieldsSound == which = "fields" => FieldsOf!FieldsSound
\* See OrmRegistry: the ends of relations belong together.
LinksSound == which = "registry" => Registry!LinksSound
\* See OrmFilter: DoTx ends its transaction, through its filters.
TxSound == which = "filter" => Filters!TxSound
\* See Migration: the table says what was done to the schema.
MigrationSound == which = "migration" => Migrate!MigrationSound

OrmSymmetry == Permutations(Programs)
=============================================================================
