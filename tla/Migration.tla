------------------------------ MODULE Migration -------------------------------
(***************************************************************************)
(* Database migrations (client/orm/migration/migration.go): programs that  *)
(* upgrade, roll back, reset and refresh the same database, whose          *)
(* statements and records are not in a transaction, with statements that   *)
(* fail and programs that stop between any two of them.                    *)
(***************************************************************************)
EXTENDS Integers, Sequences

CONSTANTS Programs,    \* running programs, with the same migrations
          NMigrations, \* migrations, numbered in the order of Created
          NStatements, \* statements of an Up, and of a Down
          MaxCommands, \* commands: a bound
          MaxTroubles  \* failures: a bound

VARIABLES tolerant,  \* the statements say IF (NOT) EXISTS
          migrated,  \* the statements of each migration that are in effect
          recorded,      \* table migrations: the statuses with each name, by id
          cmd,       \* the command each program is in
          commands, troubles,  \* bounds
          downs,     \* history: migrations of which a Down has begun
          again,     \* history: migrations of which an Up has begun since the last record of a Down
          alone      \* history: no two commands have overlapped

migrationVars == <<tolerant, migrated, recorded, cmd, commands, troubles, downs, again, alone>>

Migrations == 1 .. NMigrations
Statements == 1 .. NStatements
Whole == Statements

NoCommand == [what |-> "none", at |-> 0, stmt |-> 0, then |-> FALSE, migs |-> {}]

Init ==
  /\ tolerant \in BOOLEAN
  /\ migrated = [m \in Migrations |-> {}] /\ recorded = [m \in Migrations |-> <<>>]
  /\ cmd = [p \in Programs |-> NoCommand]
  /\ commands = 0 /\ troubles = 0 /\ downs = {} /\ again = {} /\ alone = TRUE

Names == {m \in Migrations : recorded[m] # <<>>}

\* The outcomes of reading or writing the table.
Trouble == troubles < MaxTroubles /\ troubles' = troubles + 1
Fine == troubles' = troubles

-----------------------------------------------------------------------------
(* Commands.                                                               *)

Start(p, c) ==
  /\ cmd[p] = NoCommand /\ commands < MaxCommands /\ commands' = commands + 1
  /\ cmd' = [cmd EXCEPT ![p] = c]
  /\ alone' = (alone /\ \A q \in Programs : cmd[q] = NoCommand)
  /\ UNCHANGED <<tolerant, migrated, recorded, troubles, downs, again>>

\* Upgrade and getAllMigrations, the error of which is ignored.
GetAllMigrations(p) ==
  /\ cmd[p].what = "read"
  /\ \E migs \in {Names, {}} :
       /\ IF migs = Names THEN Fine ELSE Trouble
       /\ cmd' = [cmd EXCEPT ![p] = [@ EXCEPT !.what = "up", !.at = 1, !.migs = migs]]
  /\ UNCHANGED <<tolerant, migrated, recorded, commands, downs, again, alone>>

Upgrade(p) == Start(p, [NoCommand EXCEPT !.what = "read"])

\* Rollback of a name that is registered.
Rollback(p) == \E m \in Migrations : Start(p, [NoCommand EXCEPT !.what = "rollback", !.at = m, !.stmt = NStatements])

\* Reset, or Refresh, which is Reset and then Upgrade.
Reset(p) == \E then \in BOOLEAN : Start(p, [NoCommand EXCEPT !.what = "reset", !.at = NMigrations, !.then = then])

\* The command is over.
Return(p) == cmd' = [cmd EXCEPT ![p] = NoCommand]

Crash(p) ==
  /\ cmd[p] # NoCommand /\ Trouble /\ Return(p)
  /\ UNCHANGED <<tolerant, migrated, recorded, commands, downs, again, alone>>

\* The next migration of Upgrade: one without a record; or the end.
UpNext(p) ==
  LET c == cmd[p] IN
  /\ c.what = "up" /\ c.stmt = 0 /\ Fine
  /\ IF c.at > NMigrations THEN Return(p)
     ELSE cmd' = [cmd EXCEPT ![p] = IF c.at \in c.migs THEN [c EXCEPT !.at = @ + 1] ELSE [c EXCEPT !.stmt = 1]]
  /\ UNCHANGED <<tolerant, migrated, recorded, commands, downs, again, alone>>

\* isRollBack, FALSE if the table cannot be read.
IsRollBack(m) == recorded[m] # <<>> /\ recorded[m][Len(recorded[m])] = "rollback"

\* The next migration of Reset; or the end of it.
DownNext(p) ==
  LET c == cmd[p] IN
  /\ c.what = "reset" /\ c.stmt = 0
  /\ CASE c.at = 0 /\ ~c.then -> Fine /\ Return(p)
       [] c.at = 0 /\ c.then -> Fine /\ cmd' = [cmd EXCEPT ![p].what = "read"]
       [] OTHER -> \E skip \in {IsRollBack(c.at), FALSE} :
                     /\ IF skip = IsRollBack(c.at) THEN Fine ELSE Trouble
                     /\ cmd' = [cmd EXCEPT ![p] = IF skip THEN [c EXCEPT !.at = @ - 1] ELSE [c EXCEPT !.stmt = NStatements]]
  /\ UNCHANGED <<tolerant, migrated, recorded, commands, downs, again, alone>>

-----------------------------------------------------------------------------
(* Exec.                                                                   *)

\* Mutant: the Up goes on behind a statement that failed.
UpGoesOn(p) ==
  LET c == cmd[p] m == c.at IN
  /\ c.what = "up" /\ c.stmt \in Statements
  /\ again' = again \cup {m}
  /\ \/ Fine /\ migrated' = [migrated EXCEPT ![m] = @ \cup {c.stmt}]
     \/ Trouble /\ UNCHANGED migrated
  /\ cmd' = [cmd EXCEPT ![p].stmt = @ + 1]
  /\ UNCHANGED <<tolerant, recorded, commands, downs, alone>>

\* One statement of an Up.  A database refuses to create what is there, unless
\* the statement is tolerant.
Up(p) ==
  LET c == cmd[p] m == c.at IN
  /\ c.what = "up" /\ c.stmt \in Statements
  /\ again' = again \cup {m}
  /\ \/ /\ tolerant \/ c.stmt \notin migrated[m]
        /\ Fine /\ migrated' = [migrated EXCEPT ![m] = @ \cup {c.stmt}]
        /\ cmd' = [cmd EXCEPT ![p].stmt = @ + 1]
     \/ ~tolerant /\ c.stmt \in migrated[m] /\ Fine /\ UNCHANGED migrated /\ Return(p)
     \/ Trouble /\ UNCHANGED migrated /\ Return(p)
  /\ UNCHANGED <<tolerant, recorded, commands, downs, alone>>

\* One statement of a Down.
Down(p) ==
  LET c == cmd[p] m == c.at IN
  /\ c.what \in {"reset", "rollback"} /\ c.stmt \in Statements
  /\ downs' = downs \cup {m}
  /\ \/ /\ tolerant \/ c.stmt \in migrated[m]
        /\ Fine /\ migrated' = [migrated EXCEPT ![m] = @ \ {c.stmt}]
        /\ cmd' = [cmd EXCEPT ![p].stmt = IF @ = 1 THEN NStatements + 1 ELSE @ - 1]
     \/ ~tolerant /\ c.stmt \notin migrated[m] /\ Fine /\ UNCHANGED migrated /\ Return(p)
     \/ Trouble /\ UNCHANGED migrated /\ Return(p)
  /\ UNCHANGED <<tolerant, recorded, commands, again, alone>>

\* The migration of c is through: the next one.
Onwards(p, c) ==
  CASE c.what = "up" -> cmd' = [cmd EXCEPT ![p] = [c EXCEPT !.at = @ + 1, !.stmt = 0]]
    [] c.what = "reset" -> cmd' = [cmd EXCEPT ![p] = [c EXCEPT !.at = @ - 1, !.stmt = 0]]
    [] c.what = "rollback" -> Return(p)

\* What is written: an Up inserts a row, a Down updates the rows there are.
Record(c) ==
  IF c.what = "up"
  THEN recorded' = [recorded EXCEPT ![c.at] = Append(@, "update")] /\ UNCHANGED again
  ELSE recorded' = [recorded EXCEPT ![c.at] = [i \in DOMAIN @ |-> "rollback"]] /\ again' = again \ {c.at}

\* addOrUpdateRecord.  A Down says nothing if its statement could not be
\* prepared.
AddOrUpdateRecord(p) ==
  LET c == cmd[p] IN
  /\ c.what # "none" /\ c.stmt = NStatements + 1
  /\ \/ Fine /\ Record(c) /\ Onwards(p, c)
     \/ Trouble /\ UNCHANGED <<recorded, again>> /\ Return(p)
     \/ c.what # "up" /\ Trouble /\ UNCHANGED <<recorded, again>> /\ Onwards(p, c)
  /\ UNCHANGED <<tolerant, migrated, commands, downs, alone>>

Next ==
  \E p \in Programs :
    \/ Upgrade(p) \/ GetAllMigrations(p) \/ Rollback(p) \/ Reset(p) \/ Crash(p)
    \/ UpNext(p) \/ DownNext(p) \/ Up(p) \/ Down(p) \/ AddOrUpdateRecord(p)

Spec == Init /\ [][Next]_migrationVars

-----------------------------------------------------------------------------
(* Properties.                                                             *)

\* The loop of Upgrade is through.
Upgraded(p) == cmd[p].what = "up" /\ cmd[p].at > NMigrations

\* When Upgrade returns without an error, every migration of which no Down was
\* ever begun is in effect as a whole, whatever was half done before, by this
\* program or another one.
UpgradeComplete ==
  \A p \in Programs : Upgraded(p) => \A m \in Migrations \ downs : migrated[m] = Whole

\* While the statements of an Up run, or are in effect without a record because
\* something failed, every earlier migration has a record.
UpInOrder ==
  \A m \in Migrations :
    (\E p \in Programs : cmd[p].what = "up" /\ cmd[p].at = m /\ cmd[p].stmt # 0) \/ migrated[m] # {}
      => \A k \in 1 .. m - 1 : recorded[k] # <<>>

\* Nothing is left of a migration whose record says rollback, unless its Up was
\* begun again, as long as the commands do not overlap.
RollbackClean ==
  alone => \A m \in Migrations : IsRollBack(m) => migrated[m] = {} \/ m \in again

\* "Refresh first Reset, then Upgrade" (migration.go): afterwards everything is
\* in effect.
Refreshed ==
  alone => \A p \in Programs : cmd[p].then /\ Upgraded(p) => \A m \in Migrations : migrated[m] = Whole

\* What the migrations table says is what was done to the schema, in order.
MigrationSound == UpgradeComplete /\ UpInOrder /\ RollbackClean

=============================================================================
