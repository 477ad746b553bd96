---------------------------- MODULE OrmPartsProofs ----------------------------
(***************************************************************************)
(* Safety of the ORM's smaller parts, for every value of their constants:  *)
(* migrations, conditions, reading into a container, the fields of a model *)
(* and DoTx under the filters.                                             *)
(*                                                                         *)
(* What each needs beyond its property: for migrations, what a command has *)
(* read and done so far (CmdOk); the start of each array of a condition    *)
(* (CondOk); what a row was read into (ReadInv); the flags of a field      *)
(* after each correction (Flagged, Typed, Keyed); and the frames of DoTx   *)
(* on the stack (FilterInv).                                               *)
(***************************************************************************)
EXTENDS MCOrm, FiniteSetTheorems, SequenceTheorems, TLAPS

-----------------------------------------------------------------------------
(* Migrations.                                                             *)

MigCmds ==
  [what : {"none", "read", "up", "rollback", "reset"}, at : 0 .. NMigrations + 1, stmt : 0 .. NStatements + 1,
   then : BOOLEAN, migs : SUBSET Migrate!Migrations]

\* A command c: what it has read is recorded; an Upgrade has a record of every
\* migration before the one it is at, and has executed its statements so far.
CmdOk(c, rec, mig, dn) ==
  /\ c \in MigCmds
  /\ \A m \in c.migs : rec[m] # <<>>
  /\ c.what = "read" => c.stmt = 0
  /\ c.what = "up" => c.at # 0 /\ \A k \in 1 .. c.at - 1 : rec[k] # <<>>
  /\ c.what = "up" /\ c.stmt # 0 => c.at # NMigrations + 1 /\ (c.at \notin dn => 1 .. c.stmt - 1 \subseteq mig[c.at])
  /\ c.what \in {"reset", "rollback"} => c.at # NMigrations + 1 /\ (c.stmt # 0 => c.at # 0)

\* A Down that nobody disturbs has undone the statements so far.
DownOk(c, mig) ==
  c.what \in {"reset", "rollback"} =>
    /\ c.stmt \in 1 .. NStatements => mig[c.at] \cap (c.stmt + 1 .. NStatements) = {}
    /\ c.stmt = NStatements + 1 => mig[c.at] = {}

MigTypes ==
  /\ tolerant \in BOOLEAN /\ alone \in BOOLEAN
  /\ migrated \in [Migrate!Migrations -> SUBSET Migrate!Statements]
  /\ recorded \in [Migrate!Migrations -> Seq({"update", "rollback"})]
  /\ downs \in SUBSET Migrate!Migrations
  /\ DOMAIN cmd = Programs /\ \A p \in Programs : CmdOk(cmd[p], recorded, migrated, downs)
MigRecords == \A m \in Migrate!Migrations \ downs : recorded[m] # <<>> => migrated[m] = Migrate!Whole
MigOrder == \A m \in Migrate!Migrations : migrated[m] # {} => \A k \in 1 .. m - 1 : recorded[k] # <<>>
MigAlone ==
  alone =>
    /\ \A p, q \in Programs : cmd[p] # Migrate!NoCommand /\ cmd[q] # Migrate!NoCommand => p = q
    /\ \A p \in Programs : DownOk(cmd[p], migrated)
    /\ Migrate!RollbackClean
MigInv == MigTypes /\ MigRecords /\ MigOrder /\ MigAlone

\* What a command does to the table and the schema keeps the others right: a
\* name stays recorded, and only what a Down was begun of is undone.
LEMMA CmdKept ==
  ASSUME NEW c, NEW rec, NEW mig, NEW dn, CmdOk(c, rec, mig, dn), NEW rec2, NEW mig2, NEW dn2,
         \A m \in Migrate!Migrations : rec[m] # <<>> => rec2[m] # <<>>,
         dn \subseteq dn2, \A m \in Migrate!Migrations \ dn2 : mig[m] \subseteq mig2[m]
  PROVE  CmdOk(c, rec2, mig2, dn2)
<1>1. c \in MigCmds BY DEF CmdOk
<1>2. c.migs \subseteq Migrate!Migrations /\ c.at \in 0 .. NMigrations + 1 BY <1>1 DEF MigCmds
<1>3. c.what = "up" => \A k \in 1 .. c.at - 1 : k \in Migrate!Migrations
  BY <1>2, OrmAssumption DEF OrmAssumption, Migrate!Migrations
<1>4. c.what = "up" /\ c.stmt # 0 => c.at \in Migrate!Migrations
  BY <1>2, OrmAssumption DEF OrmAssumption, CmdOk, Migrate!Migrations
<1> QED BY <1>1, <1>2, <1>3, <1>4 DEF CmdOk

LEMMA NoCommandOk ==
  LET b == Migrate!NoCommand IN
  /\ CmdOk(b, recorded, migrated, downs) /\ DownOk(b, migrated)
  /\ b \in MigCmds /\ b.what = "none" /\ b.at = 0 /\ b.stmt = 0 /\ b.migs = {}
<1>1. Migrate!NoCommand = [what |-> "none", at |-> 0, stmt |-> 0, then |-> FALSE, migs |-> {}] BY DEF Migrate!NoCommand
<1>2. Migrate!NoCommand \in MigCmds BY <1>1, OrmAssumption DEF OrmAssumption, MigCmds
<1> QED BY <1>1, <1>2 DEF CmdOk, DownOk

\* A step of a command, when what it does to the table and the schema is right.
LEMMA MigStep ==
  ASSUME MigInv, NEW p \in Programs, NEW c, cmd' = [cmd EXCEPT ![p] = c], cmd[p] # Migrate!NoCommand,
         UNCHANGED <<tolerant, alone>>,
         migrated' \in [Migrate!Migrations -> SUBSET Migrate!Statements],
         recorded' \in [Migrate!Migrations -> Seq({"update", "rollback"})],
         downs \subseteq downs', downs' \subseteq Migrate!Migrations,
         \A m \in Migrate!Migrations : recorded[m] # <<>> => recorded'[m] # <<>>,
         \A m \in Migrate!Migrations \ downs' : migrated[m] \subseteq migrated'[m],
         CmdOk(c, recorded', migrated', downs'), MigRecords', MigOrder',
         alone => DownOk(c, migrated') /\ (Migrate!RollbackClean)'
  PROVE  MigInv'
<1>1. DOMAIN cmd' = Programs /\ cmd'[p] = c /\ \A q \in Programs \ {p} : cmd'[q] = cmd[q] BY DEF MigInv, MigTypes
<1>2. ASSUME NEW q \in Programs \ {p} PROVE CmdOk(cmd'[q], recorded', migrated', downs')
  <2>1. CmdOk(cmd[q], recorded, migrated, downs) BY DEF MigInv, MigTypes
  <2>2. CmdOk(cmd[q], recorded', migrated', downs') BY <2>1, CmdKept
  <2> QED BY <1>1, <2>2
<1>3. MigTypes' BY <1>1, <1>2 DEF MigInv, MigTypes
<1>4. ASSUME alone', NEW q \in Programs \ {p} PROVE cmd'[q] = Migrate!NoCommand
  BY <1>1, <1>4 DEF MigInv, MigAlone
<1>5. DownOk(Migrate!NoCommand, migrated') BY NoCommandOk DEF DownOk
<1>6. MigAlone' BY <1>1, <1>4, <1>5 DEF MigAlone
<1> QED BY <1>3, <1>6 DEF MigInv

\* A step that writes neither the table nor the schema.
LEMMA MigQuiet ==
  ASSUME MigInv, NEW p \in Programs, NEW c, cmd' = [cmd EXCEPT ![p] = c],
         UNCHANGED <<tolerant, migrated, recorded, alone>>, again \subseteq again',
         downs \subseteq downs', downs' \subseteq Migrate!Migrations,
         CmdOk(c, recorded, migrated, downs'), DownOk(c, migrated), cmd[p] # Migrate!NoCommand
  PROVE  MigInv'
<1>1. MigRecords' /\ MigOrder' BY DEF MigInv, MigRecords, MigOrder
<1>2. alone => (Migrate!RollbackClean)' BY DEF MigInv, MigAlone, Migrate!RollbackClean, Migrate!IsRollBack
<1>3. migrated' \in [Migrate!Migrations -> SUBSET Migrate!Statements] /\ recorded' \in [Migrate!Migrations -> Seq({"update", "rollback"})]
  BY DEF MigInv, MigTypes
<1>4. CmdOk(c, recorded', migrated', downs') /\ DownOk(c, migrated') OBVIOUS
<1>5. \A m \in Migrate!Migrations : (recorded[m] # <<>> => recorded'[m] # <<>>) /\ migrated[m] \subseteq migrated'[m] OBVIOUS
<1>6. UNCHANGED <<tolerant, alone>> OBVIOUS
<1> QED BY <1>1, <1>2, <1>3, <1>4, <1>5, <1>6, MigStep

LEMMA MigStart ==
  ASSUME MigInv, NEW p \in Programs, NEW c, Migrate!Start(p, c), CmdOk(c, recorded, migrated, downs), DownOk(c, migrated)
  PROVE  MigInv'
<1>1. DOMAIN cmd' = Programs /\ cmd'[p] = c /\ \A q \in Programs \ {p} : cmd'[q] = cmd[q] BY DEF MigInv, MigTypes, Migrate!Start
<1>2. UNCHANGED <<tolerant, migrated, recorded, downs, again>>
      /\ alone' = (alone /\ \A q \in Programs : cmd[q] = Migrate!NoCommand) BY DEF Migrate!Start
<1>3. MigTypes' BY <1>1, <1>2 DEF MigInv, MigTypes
<1>4. (MigRecords /\ MigOrder)' BY <1>2 DEF MigInv, MigRecords, MigOrder
<1>5. MigAlone' BY <1>1, <1>2 DEF MigInv, MigAlone, Migrate!RollbackClean, Migrate!IsRollBack
<1> QED BY <1>3, <1>4, <1>5 DEF MigInv

LEMMA MigUpgrade ==
  ASSUME MigInv, NEW p \in Programs, Migrate!Upgrade(p) 
  PROVE  MigInv'
<1> DEFINE c == [Migrate!NoCommand EXCEPT !.what = "read"]
<1>1. c \in MigCmds /\ c.what = "read" /\ c.at = 0 /\ c.stmt = 0 /\ c.migs = {} BY NoCommandOk DEF MigCmds
<1>2. Migrate!Start(p, c) BY DEF Migrate!Upgrade
<1> HIDE DEF c
<1>4. CmdOk(c, recorded, migrated, downs) /\ DownOk(c, migrated) BY <1>1 DEF CmdOk, DownOk
<1> QED BY <1>2, <1>4, MigStart

LEMMA MigRollback ==
  ASSUME MigInv, NEW p \in Programs, Migrate!Rollback(p) 
  PROVE  MigInv'
<1>0. PICK m \in Migrate!Migrations : Migrate!Start(p, [Migrate!NoCommand EXCEPT !.what = "rollback", !.at = m, !.stmt = NStatements])
  BY DEF Migrate!Rollback
<1> DEFINE c == [Migrate!NoCommand EXCEPT !.what = "rollback", !.at = m, !.stmt = NStatements]
<1>1. c \in MigCmds /\ c.what = "rollback" /\ c.at = m /\ c.stmt = NStatements /\ c.migs = {}
  <2>1. m \in 0 .. NMigrations + 1 /\ NStatements \in 0 .. NStatements + 1 BY OrmAssumption DEF OrmAssumption, Migrate!Migrations
  <2> QED BY <2>1, NoCommandOk DEF MigCmds
<1>2. Migrate!Start(p, c) BY <1>0
<1> HIDE DEF c
<1>3. m # 0 /\ m # NMigrations + 1 BY OrmAssumption DEF OrmAssumption, Migrate!Migrations
<1>4. NStatements + 1 .. NStatements = {} BY OrmAssumption DEF OrmAssumption
<1>5. CmdOk(c, recorded, migrated, downs) BY <1>1, <1>3 DEF CmdOk
<1>6. DownOk(c, migrated) BY <1>1, <1>4, OrmAssumption DEF OrmAssumption, DownOk
<1> QED BY <1>2, <1>5, <1>6, MigStart

LEMMA MigReset ==
  ASSUME MigInv, NEW p \in Programs, Migrate!Reset(p) 
  PROVE  MigInv'
<1>0. PICK b \in BOOLEAN : Migrate!Start(p, [Migrate!NoCommand EXCEPT !.what = "reset", !.at = NMigrations, !.then = b])
  BY DEF Migrate!Reset
<1> DEFINE c == [Migrate!NoCommand EXCEPT !.what = "reset", !.at = NMigrations, !.then = b]
<1>1. c \in MigCmds /\ c.what = "reset" /\ c.at = NMigrations /\ c.stmt = 0 /\ c.migs = {}
  <2>1. NMigrations \in 0 .. NMigrations + 1 BY OrmAssumption DEF OrmAssumption
  <2> QED BY <2>1, NoCommandOk DEF MigCmds
<1>2. Migrate!Start(p, c) BY <1>0
<1> HIDE DEF c
<1>3. NMigrations # NMigrations + 1 BY OrmAssumption DEF OrmAssumption
<1>5. CmdOk(c, recorded, migrated, downs) BY <1>1, <1>3 DEF CmdOk
<1>6. DownOk(c, migrated) BY <1>1, OrmAssumption DEF OrmAssumption, DownOk
<1> QED BY <1>2, <1>5, <1>6, MigStart

LEMMA MigRead ==
  ASSUME MigInv, NEW p \in Programs, Migrate!GetAllMigrations(p)
  PROVE  MigInv'
<1>0. PICK ms \in {Migrate!Names, {}} : cmd' = [cmd EXCEPT ![p] = [cmd[p] EXCEPT !.what = "up", !.at = 1, !.migs = ms]]
  BY DEF Migrate!GetAllMigrations, MigInv, MigTypes
<1> DEFINE b == cmd[p]  c == [b EXCEPT !.what = "up", !.at = 1, !.migs = ms]
<1>1. b \in MigCmds /\ b.what = "read" /\ b.stmt = 0 BY DEF Migrate!GetAllMigrations, MigInv, MigTypes, CmdOk
<1>2. cmd' = [cmd EXCEPT ![p] = c] BY <1>0
<1>3. b # Migrate!NoCommand BY <1>1, NoCommandOk
<1> HIDE DEF b
<1>4. ms \subseteq Migrate!Migrations /\ \A m \in ms : recorded[m] # <<>> BY DEF Migrate!Names
<1>5. c \in MigCmds
  <2>1. 1 \in 0 .. NMigrations + 1 BY OrmAssumption DEF OrmAssumption
  <2>2. ms \in SUBSET Migrate!Migrations BY <1>4
  <2> QED BY <1>1, <2>1, <2>2 DEF MigCmds
<1>6. c.what = "up" /\ c.at = 1 /\ c.migs = ms /\ c.stmt = 0 BY <1>1 DEF MigCmds
<1> HIDE DEF c
<1>7. CmdOk(c, recorded, migrated, downs) BY <1>4, <1>5, <1>6 DEF CmdOk
<1>8. DownOk(c, migrated) BY <1>6 DEF DownOk
<1>9. UNCHANGED <<tolerant, migrated, recorded, downs, again, alone>> /\ downs \subseteq Migrate!Migrations
  BY DEF Migrate!GetAllMigrations, MigInv, MigTypes
<1> QED BY <1>2, <1>3, <1>7, <1>8, <1>9, MigQuiet DEF b

LEMMA MigReturn ==
  ASSUME MigInv, NEW p \in Programs, Migrate!Return(p), cmd[p] # Migrate!NoCommand,
         UNCHANGED <<tolerant, migrated, recorded, alone>>, again \subseteq again',
         downs \subseteq downs', downs' \subseteq Migrate!Migrations
  PROVE  MigInv'
<1>1. CmdOk(Migrate!NoCommand, recorded, migrated, downs') /\ DownOk(Migrate!NoCommand, migrated)
  BY NoCommandOk DEF CmdOk
<1>2. cmd' = [cmd EXCEPT ![p] = Migrate!NoCommand] BY DEF Migrate!Return
<1> QED BY <1>1, <1>2, MigQuiet

LEMMA MigUpNext ==
  ASSUME MigInv, NEW p \in Programs, Migrate!UpNext(p)
  PROVE  MigInv'
<1> DEFINE b == cmd[p]
<1>1. b \in MigCmds /\ b.what = "up" /\ b.stmt = 0 /\ CmdOk(b, recorded, migrated, downs) BY DEF Migrate!UpNext, MigInv, MigTypes, CmdOk
<1>2. b # Migrate!NoCommand BY <1>1, NoCommandOk
<1>3. UNCHANGED <<tolerant, migrated, recorded, downs, again, alone>> /\ downs \subseteq Migrate!Migrations
  BY DEF Migrate!UpNext, MigInv, MigTypes
<1>4. \/ Migrate!Return(p)
      \/ b.at <= NMigrations /\ b.at \in b.migs /\ cmd' = [cmd EXCEPT ![p] = [b EXCEPT !.at = b.at + 1]]
      \/ b.at <= NMigrations /\ cmd' = [cmd EXCEPT ![p] = [b EXCEPT !.stmt = 1]]
  <2>1. b.at \in Nat BY <1>1, OrmAssumption DEF OrmAssumption, MigCmds
  <2>2. \/ Migrate!Return(p) 
        \/ ~(b.at > NMigrations) /\ cmd' = [cmd EXCEPT ![p] = IF b.at \in b.migs THEN [b EXCEPT !.at = @ + 1] ELSE [b EXCEPT !.stmt = 1]]
    BY DEF Migrate!UpNext
  <2> HIDE DEF b
  <2>3. [b EXCEPT !.at = @ + 1] = [b EXCEPT !.at = b.at + 1] BY <1>1 DEF MigCmds
  <2> QED BY <2>1, <2>2, <2>3, OrmAssumption DEF OrmAssumption
<1> HIDE DEF b
<1>5. CASE b.at <= NMigrations /\ b.at \in b.migs /\ cmd' = [cmd EXCEPT ![p] = [b EXCEPT !.at = b.at + 1]]
  <2> DEFINE c == [b EXCEPT !.at = b.at + 1]
  <2>1. c \in MigCmds /\ c.what = "up" /\ c.stmt = 0 /\ c.at = b.at + 1 /\ c.migs = b.migs /\ b.at \in 1 .. NMigrations
    BY <1>1, <1>5, OrmAssumption DEF OrmAssumption, MigCmds, CmdOk
  <2>2. cmd' = [cmd EXCEPT ![p] = c] BY <1>5
  <2> HIDE DEF c
  <2>3. \A k \in 1 .. c.at - 1 : k \in 1 .. b.at - 1 \/ k \in b.migs BY <1>5, <2>1
  <2>4. CmdOk(c, recorded, migrated, downs) BY <1>1, <2>1, <2>3 DEF CmdOk
  <2>5. DownOk(c, migrated) BY <2>1 DEF DownOk
  <2> QED BY <1>2, <1>3, <2>2, <2>4, <2>5, MigQuiet DEF b
<1>6. CASE b.at <= NMigrations /\ cmd' = [cmd EXCEPT ![p] = [b EXCEPT !.stmt = 1]]
  <2> DEFINE c == [b EXCEPT !.stmt = 1]
  <2>1. c \in MigCmds /\ c.what = "up" /\ c.stmt = 1 /\ c.at = b.at /\ c.migs = b.migs /\ b.at # NMigrations + 1
    BY <1>1, <1>6, OrmAssumption DEF OrmAssumption, MigCmds, CmdOk
  <2>2. cmd' = [cmd EXCEPT ![p] = c] BY <1>6
  <2> HIDE DEF c
  <2>3. 1 .. c.stmt - 1 = {} BY <2>1
  <2>4. CmdOk(c, recorded, migrated, downs) BY <1>1, <2>1, <2>3 DEF CmdOk
  <2>5. DownOk(c, migrated) BY <2>1 DEF DownOk
  <2> QED BY <1>2, <1>3, <2>2, <2>4, <2>5, MigQuiet DEF b
<1>7. CASE Migrate!Return(p) BY <1>2, <1>3, <1>7, MigReturn DEF b
<1> QED BY <1>4, <1>5, <1>6, <1>7

LEMMA MigDownNext ==
  ASSUME MigInv, NEW p \in Programs, Migrate!DownNext(p)
  PROVE  MigInv'
<1> DEFINE b == cmd[p]
<1>1. b \in MigCmds /\ b.what = "reset" /\ b.stmt = 0 /\ CmdOk(b, recorded, migrated, downs) BY DEF Migrate!DownNext, MigInv, MigTypes, CmdOk
<1>2. b # Migrate!NoCommand BY <1>1, NoCommandOk
<1>3. UNCHANGED <<tolerant, migrated, recorded, downs, again, alone>> /\ downs \subseteq Migrate!Migrations
  BY DEF Migrate!DownNext, MigInv, MigTypes
<1>4. \/ Migrate!Return(p)
      \/ cmd' = [cmd EXCEPT ![p] = [b EXCEPT !.what = "read"]]
      \/ b.at # 0 /\ cmd' = [cmd EXCEPT ![p] = [b EXCEPT !.at = b.at - 1]]
      \/ b.at # 0 /\ cmd' = [cmd EXCEPT ![p] = [b EXCEPT !.stmt = NStatements]]
  <2>0. DOMAIN cmd = Programs BY DEF MigInv, MigTypes
  <2>1. CASE b.at = 0 /\ ~b.then BY <2>1 DEF Migrate!DownNext
  <2>2. CASE b.at = 0 /\ b.then
    <3>1. cmd' = [cmd EXCEPT ![p].what = "read"] BY <2>2 DEF Migrate!DownNext
    <3> QED BY <2>0, <3>1
  <2>3. CASE b.at # 0
    <3>1. \E skip : cmd' = [cmd EXCEPT ![p] = IF skip THEN [b EXCEPT !.at = @ - 1] ELSE [b EXCEPT !.stmt = NStatements]]
      BY <2>3 DEF Migrate!DownNext
    <3> HIDE DEF b
    <3>2. [b EXCEPT !.at = @ - 1] = [b EXCEPT !.at = b.at - 1] BY <1>1 DEF MigCmds
    <3> QED BY <2>3, <3>1, <3>2
  <2>4. b.then \in BOOLEAN BY <1>1 DEF MigCmds
  <2> QED BY <2>1, <2>2, <2>3, <2>4
<1> HIDE DEF b
<1>5. CASE cmd' = [cmd EXCEPT ![p] = [b EXCEPT !.what = "read"]]
  <2> DEFINE c == [b EXCEPT !.what = "read"]
  <2>1. c \in MigCmds /\ c.what = "read" /\ c.stmt = 0 /\ c.migs = b.migs BY <1>1 DEF MigCmds
  <2>2. cmd' = [cmd EXCEPT ![p] = c] BY <1>5
  <2> HIDE DEF c
  <2>4. CmdOk(c, recorded, migrated, downs) BY <1>1, <2>1 DEF CmdOk
  <2>5. DownOk(c, migrated) BY <2>1 DEF DownOk
  <2> QED BY <1>2, <1>3, <2>2, <2>4, <2>5, MigQuiet DEF b
<1>6. CASE b.at # 0 /\ cmd' = [cmd EXCEPT ![p] = [b EXCEPT !.at = b.at - 1]]
  <2> DEFINE c == [b EXCEPT !.at = b.at - 1]
  <2>1. c \in MigCmds /\ c.what = "reset" /\ c.stmt = 0 /\ c.migs = b.migs /\ c.at # NMigrations + 1
    BY <1>1, <1>6, OrmAssumption DEF OrmAssumption, MigCmds, CmdOk
  <2>2. cmd' = [cmd EXCEPT ![p] = c] BY <1>6
  <2> HIDE DEF c
  <2>4. CmdOk(c, recorded, migrated, downs) BY <1>1, <2>1 DEF CmdOk
  <2>5. DownOk(c, migrated) BY <2>1, OrmAssumption DEF OrmAssumption, DownOk
  <2> QED BY <1>2, <1>3, <2>2, <2>4, <2>5, MigQuiet DEF b
<1>7. CASE b.at # 0 /\ cmd' = [cmd EXCEPT ![p] = [b EXCEPT !.stmt = NStatements]]
  <2> DEFINE c == [b EXCEPT !.stmt = NStatements]
  <2>1. c \in MigCmds /\ c.what = "reset" /\ c.stmt = NStatements /\ c.migs = b.migs /\ c.at = b.at
    BY <1>1, OrmAssumption DEF OrmAssumption, MigCmds
  <2>2. cmd' = [cmd EXCEPT ![p] = c] BY <1>7
  <2> HIDE DEF c
  <2>3. NStatements + 1 .. NStatements = {} BY OrmAssumption DEF OrmAssumption
  <2>4. CmdOk(c, recorded, migrated, downs) BY <1>1, <1>7, <2>1 DEF CmdOk
  <2>5. DownOk(c, migrated) BY <2>1, <2>3, OrmAssumption DEF OrmAssumption, DownOk
  <2> QED BY <1>2, <1>3, <2>2, <2>4, <2>5, MigQuiet DEF b
<1>8. CASE Migrate!Return(p) BY <1>2, <1>3, <1>8, MigReturn DEF b
<1> QED BY <1>4, <1>5, <1>6, <1>7, <1>8

LEMMA MigCrash ==
  ASSUME MigInv, NEW p \in Programs, Migrate!Crash(p)
  PROVE  MigInv'
<1>1. downs \subseteq Migrate!Migrations BY DEF MigInv, MigTypes
<1>2. cmd[p] # Migrate!NoCommand /\ Migrate!Return(p) /\ UNCHANGED <<tolerant, migrated, recorded, downs, again, alone>> BY DEF Migrate!Crash
<1> QED BY <1>1, <1>2, MigReturn

LEMMA MigUp ==
  ASSUME MigInv, NEW p \in Programs, Migrate!Up(p)
  PROVE  MigInv'
<1> DEFINE b == cmd[p]  m == b.at
<1>1. b \in MigCmds /\ b.what = "up" /\ b.stmt \in 1 .. NStatements /\ CmdOk(b, recorded, migrated, downs)
  BY DEF Migrate!Up, Migrate!Statements, MigInv, MigTypes, CmdOk
<1>2. b # Migrate!NoCommand BY <1>1, NoCommandOk
<1>3. m \in 1 .. NMigrations /\ m # 0 /\ m # NMigrations + 1 BY <1>1, OrmAssumption DEF OrmAssumption, CmdOk, MigCmds
<1>4. UNCHANGED <<tolerant, recorded, downs, alone>> /\ again' = again \cup {m} /\ downs \subseteq Migrate!Migrations
  BY DEF Migrate!Up, MigInv, MigTypes
<1>5. DOMAIN migrated = Migrate!Migrations /\ DOMAIN cmd = Programs BY DEF MigInv, MigTypes
<1>6. \/ migrated' = [migrated EXCEPT ![m] = @ \cup {b.stmt}] /\ cmd' = [cmd EXCEPT ![p].stmt = @ + 1]
      \/ UNCHANGED migrated /\ Migrate!Return(p)
  BY DEF Migrate!Up
<1>7. CASE UNCHANGED migrated /\ Migrate!Return(p) BY <1>2, <1>4, <1>7, MigReturn
<1>8. CASE migrated' = [migrated EXCEPT ![m] = @ \cup {b.stmt}] /\ cmd' = [cmd EXCEPT ![p].stmt = @ + 1]
  <2> DEFINE c == [b EXCEPT !.stmt = b.stmt + 1]
  <2>1. cmd' = [cmd EXCEPT ![p] = c] BY <1>5, <1>8
  <2>2. m \in Migrate!Migrations BY <1>3 DEF Migrate!Migrations
  <2>3. migrated'[m] = migrated[m] \cup {b.stmt} /\ \A k \in Migrate!Migrations \ {m} : migrated'[k] = migrated[k]
    BY <1>5, <1>8, <2>2
  <2>4. migrated' \in [Migrate!Migrations -> SUBSET Migrate!Statements]
    <3>1. migrated[m] \cup {b.stmt} \in SUBSET Migrate!Statements BY <1>1, <2>2 DEF MigInv, MigTypes, Migrate!Statements
    <3> HIDE DEF m, b
    <3> QED BY <1>8, <3>1 DEF MigInv, MigTypes
  <2> HIDE DEF b
  <2>5. c \in MigCmds /\ c.what = "up" /\ c.stmt = b.stmt + 1 /\ c.at = m /\ c.migs = b.migs
    <3>1. b.stmt + 1 \in 0 .. NStatements + 1 BY <1>1, OrmAssumption DEF OrmAssumption
    <3> QED BY <1>1, <3>1 DEF MigCmds
  <2> HIDE DEF c, m
  <2>6. 1 .. c.stmt - 1 = (1 .. b.stmt - 1) \cup {b.stmt} BY <1>1, <2>5
  <2>7. m \notin downs => 1 .. c.stmt - 1 \subseteq migrated'[m] BY <1>1, <2>3, <2>6 DEF CmdOk, m
  <2>8. c.at # 0 /\ (\A k \in 1 .. c.at - 1 : recorded'[k] # <<>>) /\ (\A k \in c.migs : recorded'[k] # <<>>)
    BY <1>1, <1>3, <1>4, <2>5 DEF CmdOk, m
  <2>9. CmdOk(c, recorded', migrated', downs') BY <1>3, <1>4, <2>5, <2>7, <2>8 DEF CmdOk
  <2>10. DownOk(c, migrated') BY <2>5 DEF DownOk
  <2>11. \A k \in Migrate!Migrations : migrated[k] \subseteq migrated'[k] /\ (recorded[k] # <<>> => recorded'[k] # <<>>) BY <1>4, <2>3
  <2>12. MigRecords' BY <1>4, <2>4, <2>11 DEF MigInv, MigRecords, Migrate!Whole
  <2>13. MigOrder' BY <1>4, <2>3, <2>5, <2>8 DEF MigInv, MigOrder
  <2>14. alone => (Migrate!RollbackClean)'
    BY <1>4, <2>3 DEF MigInv, MigAlone, Migrate!RollbackClean, Migrate!IsRollBack
  <2>15. recorded' \in [Migrate!Migrations -> Seq({"update", "rollback"})] BY <1>4 DEF MigInv, MigTypes
  <2>16. cmd[p] # Migrate!NoCommand BY <1>2 DEF b
  <2> QED BY <1>4, <2>1, <2>4, <2>9, <2>10, <2>11, <2>12, <2>13, <2>14, <2>15, <2>16, MigStep
<1> QED BY <1>6, <1>7, <1>8

LEMMA MigDown ==
  ASSUME MigInv, NEW p \in Programs, Migrate!Down(p)
  PROVE  MigInv'
<1> DEFINE b == cmd[p]  m == b.at
<1>1. b \in MigCmds /\ b.what \in {"reset", "rollback"} /\ b.stmt \in 1 .. NStatements /\ CmdOk(b, recorded, migrated, downs)
  BY DEF Migrate!Down, Migrate!Statements, MigInv, MigTypes, CmdOk
<1>2. b # Migrate!NoCommand BY <1>1, NoCommandOk
<1>3. m \in 1 .. NMigrations /\ m # 0 /\ m # NMigrations + 1 /\ m \in Migrate!Migrations
  BY <1>1, OrmAssumption DEF OrmAssumption, CmdOk, MigCmds, Migrate!Migrations
<1>4. UNCHANGED <<tolerant, recorded, again, alone>> /\ downs' = downs \cup {m} /\ downs \subseteq Migrate!Migrations /\ downs' \subseteq Migrate!Migrations
  BY <1>3 DEF Migrate!Down, MigInv, MigTypes
<1>5. DOMAIN migrated = Migrate!Migrations /\ DOMAIN cmd = Programs BY DEF MigInv, MigTypes
<1>6. \/ migrated' = [migrated EXCEPT ![m] = @ \ {b.stmt}] /\ cmd' = [cmd EXCEPT ![p].stmt = IF @ = 1 THEN NStatements + 1 ELSE @ - 1]
      \/ UNCHANGED migrated /\ Migrate!Return(p)
  BY DEF Migrate!Down
<1>7. CASE UNCHANGED migrated /\ Migrate!Return(p) BY <1>2, <1>4, <1>7, MigReturn
<1>8. CASE migrated' = [migrated EXCEPT ![m] = @ \ {b.stmt}] /\ cmd' = [cmd EXCEPT ![p].stmt = IF @ = 1 THEN NStatements + 1 ELSE @ - 1]
  <2> DEFINE s == IF b.stmt = 1 THEN NStatements + 1 ELSE b.stmt - 1
             c == [b EXCEPT !.stmt = s]
  <2>1. cmd' = [cmd EXCEPT ![p] = c] BY <1>5, <1>8
  <2>3. migrated'[m] = migrated[m] \ {b.stmt} /\ \A k \in Migrate!Migrations \ {m} : migrated'[k] = migrated[k]
    BY <1>5, <1>8, <1>3
  <2>4. migrated' \in [Migrate!Migrations -> SUBSET Migrate!Statements]
    <3>1. migrated[m] \ {b.stmt} \in SUBSET Migrate!Statements BY <1>3 DEF MigInv, MigTypes
    <3> HIDE DEF m, b
    <3> QED BY <1>8, <3>1 DEF MigInv, MigTypes
  <2>5. alone => DownOk(b, migrated) /\ migrated[m] \in SUBSET (1 .. NStatements)
    BY <1>3 DEF MigInv, MigAlone, MigTypes, Migrate!Statements
  <2> HIDE DEF b
  <2>6. s \in 1 .. NStatements + 1 /\ (b.stmt = 1 <=> s = NStatements + 1) /\ (b.stmt # 1 => s = b.stmt - 1)
    BY <1>1, OrmAssumption DEF OrmAssumption
  <2> HIDE DEF s
  <2>7. c \in MigCmds /\ c.what = b.what /\ c.stmt = s /\ c.at = m /\ c.migs = b.migs
    <3>1. s \in 0 .. NStatements + 1 BY <2>6
    <3> QED BY <1>1, <3>1 DEF MigCmds
  <2> HIDE DEF c, m
  <2>8. CmdOk(c, recorded', migrated', downs') BY <1>1, <1>3, <1>4, <2>7 DEF CmdOk
  <2>9. ASSUME alone PROVE DownOk(c, migrated')
    <3>1. migrated[m] \cap (b.stmt + 1 .. NStatements) = {} /\ migrated[m] \subseteq 1 .. NStatements
      BY <1>1, <2>5, <2>9 DEF DownOk, m
    <3>2. migrated'[m] \cap (b.stmt .. NStatements) = {}
      <4>1. \A x \in b.stmt .. NStatements : x = b.stmt \/ x \in b.stmt + 1 .. NStatements BY <1>1, OrmAssumption DEF OrmAssumption
      <4> QED BY <2>3, <3>1, <4>1
    <3>3. CASE b.stmt = 1
      <4>1. migrated'[m] \subseteq 1 .. NStatements BY <2>3, <3>1
      <4>2. migrated'[m] = {} BY <3>2, <3>3, <4>1
      <4>3. c.stmt = NStatements + 1 BY <2>6, <2>7, <3>3
      <4> QED BY <2>7, <4>2, <4>3, OrmAssumption DEF OrmAssumption, DownOk
    <3>4. CASE b.stmt # 1
      <4>1. c.stmt + 1 = b.stmt /\ c.stmt # NStatements + 1 BY <1>1, <2>6, <2>7, <3>4
      <4> QED BY <2>7, <3>2, <4>1 DEF DownOk
    <3> QED BY <3>3, <3>4
  <2>10. \A k \in Migrate!Migrations : recorded[k] # <<>> => recorded'[k] # <<>> BY <1>4
  <2>11. \A k \in Migrate!Migrations \ downs' : migrated[k] \subseteq migrated'[k] BY <1>4, <2>3
  <2>12. MigRecords' BY <1>4, <2>3 DEF MigInv, MigRecords, Migrate!Whole
  <2>13. MigOrder' BY <1>4, <2>3 DEF MigInv, MigOrder
  <2>14. alone => (Migrate!RollbackClean)'
    BY <1>4, <2>3 DEF MigInv, MigAlone, Migrate!RollbackClean, Migrate!IsRollBack
  <2>15. recorded' \in [Migrate!Migrations -> Seq({"update", "rollback"})] BY <1>4 DEF MigInv, MigTypes
  <2>16. cmd[p] # Migrate!NoCommand BY <1>2 DEF b
  <2>17. downs \subseteq downs' BY <1>4
  <2> QED BY <1>4, <2>1, <2>4, <2>8, <2>9, <2>10, <2>11, <2>12, <2>13, <2>14, <2>15, <2>16, <2>17, MigStep
<1> QED BY <1>6, <1>7, <1>8

\* The records an Up adds, or a Down marks.
LEMMA RecordShape ==
  ASSUME NEW r \in Seq({"update", "rollback"})
  PROVE  /\ Append(r, "update") \in Seq({"update", "rollback"}) /\ Append(r, "update") # <<>>
         /\ Append(r, "update")[Len(Append(r, "update"))] = "update"
         /\ [i \in DOMAIN r |-> "rollback"] \in Seq({"update", "rollback"})
         /\ r # <<>> => [i \in DOMAIN r |-> "rollback"] # <<>>
<1>1. Len(r) \in Nat /\ DOMAIN r = 1 .. Len(r) BY LenProperties
<1>2. /\ Append(r, "update") \in Seq({"update", "rollback"}) /\ Len(Append(r, "update")) = Len(r) + 1
      /\ Append(r, "update")[Len(r) + 1] = "update"
  BY AppendProperties
<1>3. Append(r, "update") # <<>> BY <1>1, <1>2
<1> DEFINE f == [i \in 1 .. Len(r) |-> "rollback"]
<1>4. f \in Seq({"update", "rollback"}) /\ Len(f) = Len(r) BY <1>1
<1>5. r # <<>> => Len(r) # 0 BY EmptySeq
<1>6. r # <<>> => f # <<>> BY <1>4, <1>5
<1> QED BY <1>1, <1>2, <1>3, <1>4, <1>6

LEMMA MigRecord ==
  ASSUME MigInv, NEW p \in Programs, Migrate!AddOrUpdateRecord(p)
  PROVE  MigInv'
<1> DEFINE b == cmd[p]  m == b.at
<1>1. b \in MigCmds /\ b.what # "none" /\ b.stmt = NStatements + 1 /\ CmdOk(b, recorded, migrated, downs)
  BY DEF Migrate!AddOrUpdateRecord, MigInv, MigTypes, CmdOk
<1>2. b # Migrate!NoCommand /\ b.what \in {"up", "reset", "rollback"} BY <1>1, NoCommandOk, OrmAssumption DEF OrmAssumption, CmdOk, MigCmds
<1>3. m \in 1 .. NMigrations /\ m # 0 /\ m # NMigrations + 1 /\ m \in Migrate!Migrations /\ b.stmt # 0
  BY <1>1, <1>2, OrmAssumption DEF OrmAssumption, CmdOk, MigCmds, Migrate!Migrations
<1>4. UNCHANGED <<tolerant, migrated, downs, alone>> /\ downs \subseteq Migrate!Migrations
  BY DEF Migrate!AddOrUpdateRecord, MigInv, MigTypes
<1>5. DOMAIN recorded = Migrate!Migrations /\ recorded[m] \in Seq({"update", "rollback"}) BY <1>3 DEF MigInv, MigTypes
<1>6. \/ Migrate!Record(b) /\ Migrate!Onwards(p, b)
      \/ UNCHANGED <<recorded, again>> /\ Migrate!Return(p)
      \/ b.what # "up" /\ UNCHANGED <<recorded, again>> /\ Migrate!Onwards(p, b)
  BY DEF Migrate!AddOrUpdateRecord
<1>7. CASE UNCHANGED <<recorded, again>> /\ Migrate!Return(p) BY <1>2, <1>4, <1>7, MigReturn
<1>8. CASE \/ Migrate!Record(b) /\ Migrate!Onwards(p, b)
           \/ b.what # "up" /\ UNCHANGED <<recorded, again>> /\ Migrate!Onwards(p, b)
  \* The record.
  <2>1. /\ recorded' \in [Migrate!Migrations -> Seq({"update", "rollback"})]
        /\ \A k \in Migrate!Migrations : recorded[k] # <<>> => recorded'[k] # <<>>
        /\ b.what = "up" => recorded'[m] # <<>> /\ recorded'[m][Len(recorded'[m])] = "update" /\ again' = again
        /\ b.what # "up" => (recorded'[m] # <<>> => recorded[m] # <<>>)
        /\ \A k \in Migrate!Migrations \ {m} : recorded'[k] = recorded[k] /\ (k \in again => k \in again')
    <3> HIDE DEF b, m
    <3>1. CASE Migrate!Record(b) /\ b.what = "up"
      <4>1. recorded' = [recorded EXCEPT ![m] = Append(@, "update")] /\ again' = again BY <3>1 DEF Migrate!Record, m
      <4>2. recorded'[m] = Append(recorded[m], "update") /\ \A k \in Migrate!Migrations \ {m} : recorded'[k] = recorded[k]
        BY <1>3, <1>5, <4>1
      <4> QED BY <1>3, <1>5, <3>1, <4>1, <4>2, RecordShape DEF MigInv, MigTypes
    <3>2. CASE Migrate!Record(b) /\ b.what # "up"
      <4>1. recorded' = [recorded EXCEPT ![m] = [i \in DOMAIN recorded[m] |-> "rollback"]] /\ again' = again \ {m}
        BY <1>3, <1>5, <3>2 DEF Migrate!Record, m
      <4>2. recorded'[m] = [i \in DOMAIN recorded[m] |-> "rollback"] /\ \A k \in Migrate!Migrations \ {m} : recorded'[k] = recorded[k]
        BY <1>3, <1>5, <4>1
      <4>3. recorded[m] = <<>> => recorded'[m] = <<>> BY <4>2
      <4>4. [i \in DOMAIN recorded[m] |-> "rollback"] \in Seq({"update", "rollback"}) 
            /\ (recorded[m] # <<>> => recorded'[m] # <<>>) BY <1>5, <4>2, RecordShape
      <4>5. recorded' \in [Migrate!Migrations -> Seq({"update", "rollback"})] BY <4>1, <4>4 DEF MigInv, MigTypes
      <4>6. \A k \in Migrate!Migrations : recorded[k] # <<>> => recorded'[k] # <<>> BY <4>2, <4>4
      <4>7. \A k \in Migrate!Migrations \ {m} : recorded'[k] = recorded[k] /\ (k \in again => k \in again') BY <4>1, <4>2
      <4> HIDE DEF m
      <4> QED BY <3>2, <4>3, <4>5, <4>6, <4>7
    <3>3. CASE b.what # "up" /\ UNCHANGED <<recorded, again>> BY <3>3 DEF MigInv, MigTypes
    <3> QED BY <1>8, <3>1, <3>2, <3>3
  \* What is left of the command.
  <2>2. \E c : /\ cmd' = [cmd EXCEPT ![p] = c] /\ CmdOk(c, recorded', migrated', downs')
               /\ DownOk(c, migrated')
    <3>1. CASE b.what = "up"
      <4> DEFINE c == [b EXCEPT !.at = b.at + 1, !.stmt = 0]
      <4>1. cmd' = [cmd EXCEPT ![p] = c]
        <5>1. Migrate!Onwards(p, b) BY <1>8
        <5>2. cmd' = [cmd EXCEPT ![p] = [b EXCEPT !.at = @ + 1, !.stmt = 0]] BY <3>1, <5>1 DEF Migrate!Onwards
        <5> HIDE DEF b
        <5>3. [b EXCEPT !.at = @ + 1, !.stmt = 0] = c BY <1>1 DEF MigCmds
        <5> QED BY <5>2, <5>3
      <4> HIDE DEF b
      <4>2. c \in MigCmds /\ c.what = "up" /\ c.at = m + 1 /\ c.stmt = 0 /\ c.migs = b.migs
        <5>1. b.at + 1 \in 0 .. NMigrations + 1 /\ 0 \in 0 .. NStatements + 1 BY <1>3, OrmAssumption DEF OrmAssumption
        <5> QED BY <1>1, <3>1, <5>1 DEF MigCmds
      <4> HIDE DEF c, m
      <4>3. \A k \in 1 .. c.at - 1 : k = m \/ k \in 1 .. m - 1 BY <1>3, <4>2
      <4>4. \A k \in 1 .. m - 1 : k \in Migrate!Migrations /\ recorded[k] # <<>>
        BY <1>1, <1>3, <3>1, OrmAssumption DEF OrmAssumption, CmdOk, m, Migrate!Migrations
      <4>5. \A k \in 1 .. c.at - 1 : recorded'[k] # <<>> BY <2>1, <3>1, <4>3, <4>4
      <4>6. \A k \in c.migs : recorded'[k] # <<>> 
        <5>1. c.migs \subseteq Migrate!Migrations BY <4>2 DEF MigCmds
        <5>2. \A k \in c.migs : recorded[k] # <<>> BY <1>1, <4>2 DEF CmdOk
        <5> QED BY <2>1, <5>1, <5>2
      <4>7. c.at # 0 BY <1>3, <4>2
      <4>8. CmdOk(c, recorded', migrated', downs') BY <4>2, <4>5, <4>6, <4>7 DEF CmdOk
      <4>9. DownOk(c, migrated') BY <4>2 DEF DownOk
      <4> QED BY <4>1, <4>8, <4>9
    <3>2. CASE b.what = "reset"
      <4> DEFINE c == [b EXCEPT !.at = b.at - 1, !.stmt = 0]
      <4>1. cmd' = [cmd EXCEPT ![p] = c]
        <5>1. Migrate!Onwards(p, b) BY <1>8
        <5>2. cmd' = [cmd EXCEPT ![p] = [b EXCEPT !.at = @ - 1, !.stmt = 0]] BY <3>2, <5>1 DEF Migrate!Onwards
        <5> HIDE DEF b
        <5>3. [b EXCEPT !.at = @ - 1, !.stmt = 0] = c BY <1>1 DEF MigCmds
        <5> QED BY <5>2, <5>3
      <4> HIDE DEF b
      <4>2. c \in MigCmds /\ c.what = "reset" /\ c.at = m - 1 /\ c.stmt = 0 /\ c.migs = b.migs
        <5>1. b.at - 1 \in 0 .. NMigrations + 1 /\ 0 \in 0 .. NStatements + 1 BY <1>3, OrmAssumption DEF OrmAssumption
        <5> QED BY <1>1, <3>2, <5>1 DEF MigCmds
      <4> HIDE DEF c, m
      <4>6. \A k \in c.migs : recorded'[k] # <<>> 
        <5>1. c.migs \subseteq Migrate!Migrations BY <4>2 DEF MigCmds
        <5>2. \A k \in c.migs : recorded[k] # <<>> BY <1>1, <4>2 DEF CmdOk
        <5> QED BY <2>1, <5>1, <5>2
      <4>7. c.at # NMigrations + 1 BY <1>3, <4>2, OrmAssumption DEF OrmAssumption
      <4>8. CmdOk(c, recorded', migrated', downs') BY <4>2, <4>6, <4>7 DEF CmdOk
      <4>9. DownOk(c, migrated') BY <4>2, OrmAssumption DEF OrmAssumption, DownOk
      <4> QED BY <4>1, <4>8, <4>9
    <3>3. CASE b.what = "rollback"
      <4>1. Migrate!Onwards(p, b) BY <1>8
      <4>2. cmd' = [cmd EXCEPT ![p] = Migrate!NoCommand] BY <3>3, <4>1 DEF Migrate!Onwards, Migrate!Return
      <4>3. CmdOk(Migrate!NoCommand, recorded', migrated', downs') /\ DownOk(Migrate!NoCommand, migrated')
        BY NoCommandOk DEF CmdOk, DownOk
      <4> QED BY <4>2, <4>3
    <3> QED BY <1>2, <3>1, <3>2, <3>3
  <2>3. PICK c : cmd' = [cmd EXCEPT ![p] = c] /\ CmdOk(c, recorded', migrated', downs') /\ DownOk(c, migrated') BY <2>2
  <2>4. MigRecords'
    <3>1. ASSUME NEW k \in Migrate!Migrations \ downs, recorded'[k] # <<>> PROVE migrated[k] = Migrate!Whole
      <4>1. CASE k # m \/ b.what # "up" BY <2>1, <3>1, <4>1 DEF MigInv, MigRecords
      <4>2. CASE k = m /\ b.what = "up"
        <5>1. 1 .. b.stmt - 1 \subseteq migrated[m] BY <1>1, <1>3, <3>1, <4>2 DEF CmdOk
        <5>2. b.stmt - 1 = NStatements BY <1>1, OrmAssumption DEF OrmAssumption
        <5>3. migrated[m] \subseteq 1 .. NStatements BY <1>3 DEF MigInv, MigTypes, Migrate!Statements
        <5> QED BY <4>2, <5>1, <5>2, <5>3 DEF Migrate!Whole, Migrate!Statements
      <4> QED BY <4>1, <4>2
    <3> QED BY <1>4, <3>1 DEF MigRecords
  <2>5. MigOrder'
    <3>1. \A n \in Migrate!Migrations : \A k \in 1 .. n - 1 : k \in Migrate!Migrations BY OrmAssumption DEF OrmAssumption, Migrate!Migrations
    <3> QED BY <1>4, <2>1, <3>1 DEF MigInv, MigOrder
  <2>6. ASSUME alone PROVE (Migrate!RollbackClean)'
    <3> SUFFICES ASSUME NEW k \in Migrate!Migrations, recorded'[k] # <<>>, recorded'[k][Len(recorded'[k])] = "rollback"
                 PROVE  migrated'[k] = {} \/ k \in again'
      BY DEF Migrate!RollbackClean, Migrate!IsRollBack
    <3>1. CASE k # m BY <1>4, <2>1, <2>6, <3>1 DEF MigInv, MigAlone, Migrate!RollbackClean, Migrate!IsRollBack
    <3>2. CASE k = m
      <4>1. b.what \in {"reset", "rollback"} BY <1>2, <2>1, <3>2
      <4>2. DownOk(b, migrated) BY <2>6 DEF MigInv, MigAlone
      <4>3. migrated[m] = {} BY <1>1, <4>1, <4>2 DEF DownOk
      <4> QED BY <1>4, <3>2, <4>3
    <3> QED BY <3>1, <3>2
  <2>7. migrated' \in [Migrate!Migrations -> SUBSET Migrate!Statements] BY <1>4 DEF MigInv, MigTypes
  <2>8. downs' = downs /\ UNCHANGED <<tolerant, alone>> /\ \A k \in Migrate!Migrations : migrated[k] \subseteq migrated'[k] BY <1>4
  <2> QED BY <1>2, <1>4, <2>1, <2>3, <2>4, <2>5, <2>6, <2>7, <2>8, MigStep
<1> QED BY <1>6, <1>7, <1>8

LEMMA MigInit ==
  ASSUME Migrate!Init
  PROVE  MigInv
<1>1. MigTypes
  <2>1. <<>> \in Seq({"update", "rollback"}) OBVIOUS
  <2>2. DOMAIN cmd = Programs /\ \A p \in Programs : CmdOk(cmd[p], recorded, migrated, downs) BY NoCommandOk DEF Migrate!Init
  <2> QED BY <2>1, <2>2 DEF Migrate!Init, MigTypes
<1>2. MigRecords /\ MigOrder BY DEF Migrate!Init, MigRecords, MigOrder
<1>3. MigAlone BY NoCommandOk DEF Migrate!Init, MigAlone, Migrate!RollbackClean, Migrate!IsRollBack
<1> QED BY <1>1, <1>2, <1>3 DEF MigInv

LEMMA MigSound ==
  ASSUME MigInv
  PROVE  Migrate!MigrationSound
<1>1. Migrate!UpgradeComplete
  <2> SUFFICES ASSUME NEW p \in Programs, cmd[p].what = "up", cmd[p].at > NMigrations, NEW m \in Migrate!Migrations \ downs
               PROVE  migrated[m] = Migrate!Whole
    BY DEF Migrate!UpgradeComplete, Migrate!Upgraded
  <2>1. CmdOk(cmd[p], recorded, migrated, downs) BY DEF MigInv, MigTypes
  <2>2. cmd[p].at = NMigrations + 1 BY <2>1, OrmAssumption DEF OrmAssumption, CmdOk, MigCmds
  <2>3. m \in 1 .. cmd[p].at - 1 BY <2>2, OrmAssumption DEF OrmAssumption, Migrate!Migrations
  <2>4. recorded[m] # <<>> BY <2>1, <2>3 DEF CmdOk
  <2> QED BY <2>4 DEF MigInv, MigRecords
<1>2. Migrate!UpInOrder
  <2> SUFFICES ASSUME NEW p \in Programs, cmd[p].what = "up", NEW k \in 1 .. cmd[p].at - 1 PROVE recorded[k] # <<>>
    BY DEF Migrate!UpInOrder, MigInv, MigOrder
  <2> QED BY DEF MigInv, MigTypes, CmdOk
<1>3. Migrate!RollbackClean BY DEF MigInv, MigAlone, Migrate!RollbackClean
<1> QED BY <1>1, <1>2, <1>3 DEF Migrate!MigrationSound

LEMMA MigNext ==
  ASSUME MigInv, Migrate!Next
  PROVE  MigInv'
BY MigUpgrade, MigRead, MigRollback, MigReset, MigCrash, MigUpNext, MigDownNext, MigUp, MigDown, MigRecord DEF Migrate!Next

\* What the table migrations says is what was done to the schema, in order,
\* for any number of programs, migrations and statements: every recorded
\* migration of which no Down was begun is in effect as a whole, an Up begins
\* only behind recorded ones, and a record of a rollback is the truth unless
\* commands overlap.
THEOREM MigrationSafety == OrmSpec => []MigrationSound
<1> DEFINE I == which = "migration" => MigInv
<1>1. OrmInit => I BY MigInit DEF OrmInit
<1>2. I /\ [OrmNext]_ormVars => I'
  <2> SUFFICES ASSUME I, [OrmNext]_ormVars, which' = "migration" PROVE MigInv' OBVIOUS
  <2>1. CASE which = "migration" /\ Migrate!Next BY <2>1, MigNext
  <2>2. CASE UNCHANGED <<tolerant, migrated, recorded, cmd, downs, again, alone>> /\ which = "migration"
    BY <2>2 DEF MigInv, MigTypes, MigRecords, MigOrder, MigAlone, Migrate!RollbackClean, Migrate!IsRollBack
  <2>3. which' = which BY DEF OrmNext, ormVars
  <2>4. \/ which = "migration" /\ Migrate!Next
        \/ UNCHANGED migrationVars
    BY DEF OrmNext, ormVars
  <2> QED BY <2>1, <2>2, <2>3, <2>4 DEF migrationVars
<1>3. I => MigrationSound BY MigSound DEF MigrationSound
<1> QED BY <1>1, <1>2, <1>3, PTL DEF OrmSpec

-----------------------------------------------------------------------------
(* Conditions and their arrays.                                            *)

\* Expressions, as they are written into the arrays.
Expressions == [not : BOOLEAN, or : BOOLEAN, on : Query!Atoms \cup {"sub", "blank"}, sub : Nat]

Lists == Seq(Expressions)
Marks == [a : Nat, n : Nat]

\* A condition k that was built of e lies within its array, and an array nobody
\* forked has, from its start, what each of its conditions was built of.
CondOk(k, e, arrays, fk) ==
  /\ k.n > 0 => k.a \in DOMAIN arrays /\ k.n <= Len(arrays[k.a])
  /\ k.n = 0 => e = <<>> /\ k.a = 0
  /\ k.n > 0 /\ k.a \notin fk => Len(e) = k.n /\ \A i \in 1 .. k.n : arrays[k.a][i] = e[i]

QueryTypes ==
  /\ arr \in Seq(Lists) /\ forked \subseteq DOMAIN arr
  /\ conds \in Seq(Marks) /\ ideal \in Seq(Lists) /\ Len(ideal) = Len(conds)
QueryInv == QueryTypes /\ \A c \in DOMAIN conds : CondOk(conds[c], ideal[c], arr, forked)

LEMMA QueryFacts ==
  ASSUME QueryInv, NEW c \in DOMAIN conds
  PROVE  /\ conds[c].a \in Nat /\ conds[c].n \in Nat /\ ideal[c] \in Lists /\ CondOk(conds[c], ideal[c], arr, forked)
         /\ conds[c].a \in DOMAIN arr => arr[conds[c].a] \in Lists
<1>1. conds[c] \in Marks /\ ideal[c] \in Lists BY DEF QueryInv, QueryTypes
<1>2. conds[c].a \in DOMAIN arr => arr[conds[c].a] \in Lists BY DEF QueryInv, QueryTypes
<1> QED BY <1>1, <1>2 DEF QueryInv, Marks

\* The array a new condition gets, of twice the size.
LEMMA GrownRight ==
  ASSUME NEW old \in Seq(Expressions), NEW new \in Expressions
  PROVE  /\ Query!Grown(old, new) \in Seq(Expressions) /\ Len(Query!Grown(old, new)) > Len(old)
         /\ \A i \in 1 .. Len(old) : Query!Grown(old, new)[i] = old[i]
         /\ Query!Grown(old, new)[Len(old) + 1] = new
<1> DEFINE m == Query!Capacity(Len(old)) - Len(old) - 1
           x == Append(old, new)
           y == [i \in 1 .. m |-> Query!Blank]
<1>1. m \in Nat
  <2>1. CASE Len(old) = 0 BY <2>1 DEF Query!Capacity
  <2>2. CASE Len(old) # 0
    <3>1. Len(old) \in Nat /\ Query!Capacity(Len(old)) = 2 * Len(old) BY <2>2 DEF Query!Capacity
    <3> QED BY <2>2, <3>1
  <2> QED BY <2>1, <2>2
<1>2. Query!Blank \in Expressions BY DEF Query!Blank, Expressions
<1> HIDE DEF m
<1>3. y \in Seq(Expressions) /\ Len(y) = m BY <1>1, <1>2
<1>4. x \in Seq(Expressions) /\ Len(x) = Len(old) + 1 /\ x[Len(old) + 1] = new /\ \A i \in 1 .. Len(old) : x[i] = old[i] OBVIOUS
<1>5. Query!Grown(old, new) = x \o y BY DEF Query!Grown, m
<1> HIDE DEF x, y
<1>6. /\ x \o y \in Seq(Expressions) /\ Len(x \o y) = Len(x) + m /\ \A i \in 1 .. Len(x) : (x \o y)[i] = x[i]
  <2>1. Len(x) \in Nat /\ m \in Nat BY <1>1, <1>4
  <2>2. /\ x \o y \in Seq(Expressions) /\ Len(x \o y) = Len(x) + Len(y)
        /\ \A i \in 1 .. Len(x) + Len(y) : (x \o y)[i] = IF i <= Len(x) THEN x[i] ELSE y[i - Len(x)]
    BY <1>3, <1>4, ConcatProperties
  <2> QED BY <1>3, <2>1, <2>2
<1> QED BY <1>1, <1>4, <1>5, <1>6

\* The expressions of a condition.
LEMMA ParamsRight ==
  ASSUME QueryInv, NEW c \in DOMAIN conds
  PROVE  /\ Query!Params(c) \in Seq(Expressions) /\ Len(Query!Params(c)) = conds[c].n
         /\ \A i \in 1 .. conds[c].n : Query!Params(c)[i] = arr[conds[c].a][i]
<1> DEFINE n == conds[c].n
           s == arr[conds[c].a]
<1>1. n \in Nat BY QueryFacts
<1>2. CASE n = 0 BY <1>1, <1>2 DEF Query!Params
<1>3. CASE n # 0
  <2>1. s \in Seq(Expressions) /\ n <= Len(s) BY <1>1, <1>3, QueryFacts DEF CondOk, Lists
  <2>2. Query!Params(c) = SubSeq(s, 1, n) BY <1>3 DEF Query!Params
  <2> HIDE DEF n, s
  <2>3. SubSeq(s, 1, n) \in Seq(Expressions) /\ Len(SubSeq(s, 1, n)) = n /\ \A i \in 1 .. n : SubSeq(s, 1, n)[i] = s[i]
    BY <1>1, <1>3, <2>1
  <2> QED BY <2>2, <2>3 DEF n, s
<1> QED BY <1>2, <1>3

\* What a new condition was built of.
LEMMA NewIdeal ==
  ASSUME QueryInv, NEW c \in DOMAIN conds, NEW p \in Expressions, ideal' = Append(ideal, Append(ideal[c], p)),
         NEW k \in Marks, conds' = Append(conds, k)
  PROVE  /\ ideal' \in Seq(Lists) /\ conds' \in Seq(Marks) /\ Len(ideal') = Len(conds')
         /\ DOMAIN conds' = DOMAIN conds \cup {Len(conds) + 1}
         /\ conds'[Len(conds) + 1] = k /\ ideal'[Len(conds) + 1] = Append(ideal[c], p)
         /\ \A d \in DOMAIN conds : conds'[d] = conds[d] /\ ideal'[d] = ideal[d]
<1> DEFINE e == Append(ideal[c], p)
<1>1. ideal[c] \in Lists BY QueryFacts
<1>2. e \in Lists BY <1>1 DEF Lists
<1> HIDE DEF e
<1>3. ideal \in Seq(Lists) /\ conds \in Seq(Marks) /\ Len(ideal) = Len(conds) BY DEF QueryInv, QueryTypes
<1>4. /\ ideal' = Append(ideal, e) /\ ideal' \in Seq(Lists) /\ Len(ideal') = Len(ideal) + 1 /\ ideal'[Len(ideal) + 1] = e
      /\ \A d \in 1 .. Len(ideal) : ideal'[d] = ideal[d]
  BY <1>2, <1>3 DEF e
<1>5. /\ conds' \in Seq(Marks) /\ Len(conds') = Len(conds) + 1 /\ conds'[Len(conds) + 1] = k
      /\ \A d \in 1 .. Len(conds) : conds'[d] = conds[d]
      /\ DOMAIN conds' = DOMAIN conds \cup {Len(conds) + 1} /\ DOMAIN conds = 1 .. Len(conds)
  BY <1>3
<1> QED BY <1>3, <1>4, <1>5 DEF e

\* The expressions of c, and one more, are those of the condition that is new.
LEMMA OneMore ==
  ASSUME NEW e \in Lists, NEW p \in Expressions, NEW g, NEW n \in Nat, Len(e) = n, \A i \in 1 .. n : g[i] = e[i], g[n + 1] = p
  PROVE  Len(Append(e, p)) = n + 1 /\ \A i \in 1 .. n + 1 : g[i] = Append(e, p)[i]
<1>1. e \in Seq(Expressions) BY DEF Lists
<1>2. Len(Append(e, p)) = n + 1 /\ Append(e, p)[n + 1] = p /\ \A i \in 1 .. n : Append(e, p)[i] = e[i] BY <1>1
<1>3. \A i \in 1 .. n + 1 : i \in 1 .. n \/ i = n + 1 OBVIOUS
<1> QED BY <1>2, <1>3

\* append into a copy: the other arrays are as they were.
LEMMA AppendCopies ==
  ASSUME QueryInv, NEW c \in DOMAIN conds, NEW p \in Expressions,
         arr' = Append(arr, Query!Grown(Query!Params(c), p)),
         conds' = Append(conds, [a |-> Len(arr) + 1, n |-> conds[c].n + 1]), Query!CopyForked(c),
         ideal' = Append(ideal, Append(ideal[c], p))
  PROVE  QueryInv'
<1> DEFINE ac == conds[c].a
           nc == conds[c].n
           new == Len(arr) + 1
           g == Query!Grown(Query!Params(c), p)
           k == [a |-> new, n |-> nc + 1]
           last == Len(conds) + 1
           e == Append(ideal[c], p)
<1>1. arr \in Seq(Lists) /\ forked \subseteq DOMAIN arr BY DEF QueryInv, QueryTypes
<1>2. ac \in Nat /\ nc \in Nat /\ ideal[c] \in Lists /\ CondOk(conds[c], ideal[c], arr, forked) BY QueryFacts
<1>3. k \in Marks /\ k.a = new /\ k.n = nc + 1 BY <1>1, <1>2 DEF Marks
<1>4. g \in Lists /\ Len(g) >= nc + 1 /\ g[nc + 1] = p /\ \A i \in 1 .. nc : g[i] = arr[ac][i]
  <2> DEFINE old == Query!Params(c)
  <2>1. old \in Seq(Expressions) /\ Len(old) = nc /\ \A i \in 1 .. nc : old[i] = arr[ac][i] BY ParamsRight
  <2>2. g = Query!Grown(old, p) OBVIOUS
  <2> HIDE DEF old, g, nc, ac
  <2>3. g \in Seq(Expressions) /\ Len(g) > Len(old) /\ (\A i \in 1 .. Len(old) : g[i] = old[i]) /\ g[Len(old) + 1] = p
    BY <2>1, <2>2, GrownRight
  <2> QED BY <1>2, <2>1, <2>3 DEF Lists
<1>5. conds' = Append(conds, k) /\ arr' = Append(arr, g) /\ ideal' = Append(ideal, e) OBVIOUS
<1> HIDE DEF k, g
<1>6. /\ ideal' \in Seq(Lists) /\ conds' \in Seq(Marks) /\ Len(ideal') = Len(conds')
      /\ DOMAIN conds' = DOMAIN conds \cup {last} /\ conds'[last] = k /\ ideal'[last] = e
      /\ \A d \in DOMAIN conds : conds'[d] = conds[d] /\ ideal'[d] = ideal[d]
  BY <1>3, <1>5, NewIdeal
<1>7. /\ arr' \in Seq(Lists) /\ DOMAIN arr' = DOMAIN arr \cup {new} /\ new \notin DOMAIN arr /\ arr'[new] = g
      /\ \A m \in DOMAIN arr : arr'[m] = arr[m]
  BY <1>1, <1>4, <1>5
<1>8. forked' = (IF ac \in forked THEN forked \cup {new} ELSE forked) BY DEF Query!CopyForked
<1>9. forked' \subseteq DOMAIN arr' /\ forked \subseteq forked' BY <1>1, <1>7, <1>8
<1>10. QueryTypes' BY <1>6, <1>7, <1>9 DEF QueryTypes
<1>11. ASSUME NEW d \in DOMAIN conds PROVE CondOk(conds'[d], ideal'[d], arr', forked')
  <2>1. conds'[d] = conds[d] /\ ideal'[d] = ideal[d] /\ CondOk(conds[d], ideal[d], arr, forked) BY <1>6, QueryFacts
  <2>2. conds[d].a \in DOMAIN arr => arr'[conds[d].a] = arr[conds[d].a] /\ conds[d].a \in DOMAIN arr' BY <1>7
  <2>3. CondOk(conds[d], ideal[d], arr', forked') BY <1>9, <2>1, <2>2 DEF CondOk
  <2> QED BY <2>1, <2>3
<1>12. ac \in forked \/ (Len(ideal[c]) = nc /\ \A i \in 1 .. nc : g[i] = ideal[c][i])
  <2>1. CASE nc = 0
    <3>1. ideal[c] = <<>> BY <1>2, <2>1 DEF CondOk
    <3> QED BY <2>1, <3>1
  <2>2. CASE nc # 0 BY <1>2, <1>4, <2>2 DEF CondOk
  <2> QED BY <2>1, <2>2
<1> HIDE DEF ac, nc, new
<1>13. new \notin forked' => Len(e) = nc + 1 /\ \A i \in 1 .. nc + 1 : g[i] = e[i]
  <2> SUFFICES ASSUME new \notin forked' PROVE Len(e) = nc + 1 /\ \A i \in 1 .. nc + 1 : g[i] = e[i] OBVIOUS
  <2> DEFINE b == ideal[c]
  <2>1. b \in Lists /\ Len(b) = nc /\ (\A i \in 1 .. nc : g[i] = b[i]) /\ g[nc + 1] = p /\ nc \in Nat
    BY <1>2, <1>4, <1>8, <1>12 DEF nc
  <2> HIDE DEF b, e
  <2>2. Len(Append(b, p)) = nc + 1 /\ \A i \in 1 .. nc + 1 : g[i] = Append(b, p)[i] BY ONLY p \in Expressions, <2>1, OneMore
  <2> QED BY <2>2 DEF b, e
<1> HIDE DEF e, last
<1>14. CondOk(conds'[last], ideal'[last], arr', forked')
  <2>1. conds'[last] = k /\ ideal'[last] = e /\ arr'[new] = g /\ new \in DOMAIN arr' BY <1>6, <1>7
  <2>2. nc + 1 > 0 /\ nc + 1 # 0 BY <1>2 DEF nc
  <2>3. CondOk(k, e, arr', forked') BY <1>3, <1>4, <1>13, <2>1, <2>2 DEF CondOk, nc
  <2> QED BY <2>1, <2>3
<1> QED BY <1>6, <1>10, <1>11, <1>14 DEF QueryInv

\* append in place, into the slot behind the condition: if no condition on the
\* array is longer than that, none of them sees it.
LEMMA AppendInPlace ==
  ASSUME QueryInv, NEW c \in DOMAIN conds, NEW p \in Expressions, Query!Fits(c),
         arr' = [arr EXCEPT ![conds[c].a][conds[c].n + 1] = p],
         conds' = Append(conds, [a |-> conds[c].a, n |-> conds[c].n + 1]),
         forked' = (IF \E d \in DOMAIN conds : d # c /\ conds[d].a = conds[c].a /\ conds[d].n > conds[c].n
                    THEN forked \cup {conds[c].a} ELSE forked),
         ideal' = Append(ideal, Append(ideal[c], p))
  PROVE  QueryInv'
<1> DEFINE ac == conds[c].a
           nc == conds[c].n
           s == arr[ac]
           g == [s EXCEPT ![nc + 1] = p]
           k == [a |-> ac, n |-> nc + 1]
           last == Len(conds) + 1
           e == Append(ideal[c], p)
<1>1. arr \in Seq(Lists) /\ forked \subseteq DOMAIN arr BY DEF QueryInv, QueryTypes
<1>2. ac \in Nat /\ nc \in Nat /\ ideal[c] \in Lists /\ CondOk(conds[c], ideal[c], arr, forked) BY QueryFacts
<1>3. nc > 0 /\ nc < Len(s) BY DEF Query!Fits
<1>4. ac \in DOMAIN arr BY <1>2, <1>3 DEF CondOk
<1>5. s \in Lists BY <1>4, QueryFacts
<1>6. k \in Marks /\ k.a = ac /\ k.n = nc + 1 BY <1>2 DEF Marks
<1>7. conds' = Append(conds, k) /\ arr' = [arr EXCEPT ![ac] = g] /\ ideal' = Append(ideal, e) OBVIOUS
<1>8. /\ forked \subseteq forked' /\ forked' \subseteq DOMAIN arr
      /\ (ac \notin forked' => \A d \in DOMAIN conds : d # c /\ conds[d].a = ac => ~(conds[d].n > nc))
  BY <1>1, <1>4
<1> HIDE DEF k
<1>10. /\ ideal' \in Seq(Lists) /\ conds' \in Seq(Marks) /\ Len(ideal') = Len(conds')
       /\ DOMAIN conds' = DOMAIN conds \cup {last} /\ conds'[last] = k /\ ideal'[last] = e
       /\ \A d \in DOMAIN conds : conds'[d] = conds[d] /\ ideal'[d] = ideal[d]
  BY <1>6, NewIdeal DEF k
<1> HIDE DEF s, nc
<1>9. g \in Lists /\ Len(g) = Len(s) /\ g[nc + 1] = p /\ \A i \in 1 .. nc : g[i] = s[i]
  BY <1>2, <1>3, <1>5 DEF Lists
<1> HIDE DEF g, ac
<1>11. /\ arr' \in Seq(Lists) /\ DOMAIN arr' = DOMAIN arr /\ arr'[ac] = g
       /\ \A m \in DOMAIN arr \ {ac} : arr'[m] = arr[m]
  <2>1. arr' = [arr EXCEPT ![ac] = g] BY <1>7
  <2>2. ac \in 1 .. Len(arr) /\ DOMAIN arr = 1 .. Len(arr) BY <1>1, <1>4
  <2>4. arr \in [1 .. Len(arr) -> Lists] /\ Len(arr) \in Nat BY <1>1
  <2>5. arr' \in [1 .. Len(arr) -> Lists] BY <1>9, <2>1, <2>2, <2>4
  <2>3. arr' \in Seq(Lists) BY SMTT(30), <2>4, <2>5
  <2> QED BY <1>4, <2>1, <2>3
<1>12. QueryTypes' BY <1>8, <1>10, <1>11 DEF QueryTypes
<1>13. ASSUME NEW d \in DOMAIN conds PROVE CondOk(conds'[d], ideal'[d], arr', forked')
  <2>1. conds'[d] = conds[d] /\ ideal'[d] = ideal[d] /\ CondOk(conds[d], ideal[d], arr, forked) /\ conds[d].n \in Nat
    BY <1>10, QueryFacts
  <2>2. CASE conds[d].a # ac
    <3>1. conds[d].a \in DOMAIN arr => arr'[conds[d].a] = arr[conds[d].a] /\ conds[d].a \in DOMAIN arr' BY <1>11, <2>2
    <3>2. CondOk(conds[d], ideal[d], arr', forked') BY <1>8, <2>1, <3>1 DEF CondOk
    <3> QED BY <2>1, <3>2
  <2>3. CASE conds[d].a = ac
    <3>1. ac \notin forked' => conds[d].n <= nc
      <4>1. CASE d = c BY <1>2, <4>1 DEF nc
      <4>2. CASE d # c
        <5>1. ac \notin forked' => ~(conds[d].n > nc) BY <1>8, <2>3, <4>2
        <5> QED BY <1>2, <2>1, <5>1
      <4> QED BY <4>1, <4>2
    <3>2. ac \notin forked' => \A i \in 1 .. conds[d].n : g[i] = s[i] BY <1>2, <1>9, <2>1, <3>1
    <3>3. arr'[conds[d].a] = g /\ arr[conds[d].a] = s /\ Len(g) = Len(s) /\ conds[d].a \in DOMAIN arr'
      BY <1>4, <1>9, <1>11, <2>3 DEF s
    <3>4. CondOk(conds[d], ideal[d], arr', forked') BY <1>8, <2>1, <2>3, <3>2, <3>3 DEF CondOk
    <3> QED BY <2>1, <3>4
  <2> QED BY <2>2, <2>3
<1>14. ac \notin forked' => Len(ideal[c]) = nc /\ \A i \in 1 .. nc : g[i] = ideal[c][i]
  BY <1>2, <1>3, <1>8, <1>9 DEF CondOk, ac, nc, s
<1>15. ac \notin forked' => Len(e) = nc + 1 /\ \A i \in 1 .. nc + 1 : g[i] = e[i]
  <2> SUFFICES ASSUME ac \notin forked' PROVE Len(e) = nc + 1 /\ \A i \in 1 .. nc + 1 : g[i] = e[i] OBVIOUS
  <2> DEFINE b == ideal[c]
  <2>1. b \in Lists /\ Len(b) = nc /\ (\A i \in 1 .. nc : g[i] = b[i]) /\ g[nc + 1] = p /\ nc \in Nat
    BY <1>2, <1>9, <1>14 DEF nc
  <2> HIDE DEF b
  <2>2. Len(Append(b, p)) = nc + 1 /\ \A i \in 1 .. nc + 1 : g[i] = Append(b, p)[i] BY <2>1, OneMore
  <2> QED BY <2>2 DEF b
<1> HIDE DEF e, last
<1>16. CondOk(conds'[last], ideal'[last], arr', forked')
  <2>1. conds'[last] = k /\ ideal'[last] = e /\ arr'[ac] = g /\ ac \in DOMAIN arr' BY <1>4, <1>10, <1>11
  <2>2. nc + 1 > 0 /\ nc + 1 # 0 /\ nc \in Nat BY <1>2 DEF nc
  <2>3. nc + 1 <= Len(g)
    <3>1. Len(s) \in Nat BY <1>5 DEF Lists
    <3> QED BY <1>3, <1>9, <2>2, <3>1
  <2>4. CondOk(k, e, arr', forked') BY <1>6, <1>15, <2>1, <2>2, <2>3 DEF CondOk
  <2> QED BY <2>1, <2>4
<1> QED BY <1>10, <1>12, <1>13, <1>16 DEF QueryInv

LEMMA QueryInit ==
  ASSUME Query!Init
  PROVE  QueryInv
<1>1. PICK ps \in [1 .. BaseLen -> [not : {FALSE}, or : BOOLEAN, on : Query!Atoms, sub : {0}]] :
        /\ arr = <<Query!Grown(SubSeq(ps, 1, BaseLen - 1), ps[BaseLen])>>
        /\ conds = <<[a |-> 0, n |-> 0], [a |-> 1, n |-> BaseLen]>> /\ ideal = << <<>>, ps >>
  BY DEF Query!Init
<1>2. forked = {} BY DEF Query!Init
<1>3. ps \in [1 .. BaseLen -> Expressions]
  <2>1. ASSUME NEW e \in [not : {FALSE}, or : BOOLEAN, on : Query!Atoms, sub : {0}] PROVE e \in Expressions
    <3>1. e = [not |-> e.not, or |-> e.or, on |-> e.on, sub |-> e.sub] OBVIOUS
    <3>2. e.not \in BOOLEAN /\ e.or \in BOOLEAN OBVIOUS
    <3>3. e.on \in Query!Atoms \cup {"sub", "blank"} OBVIOUS
    <3>4. e.sub \in Nat OBVIOUS
    <3> QED BY <3>1, <3>2, <3>3, <3>4 DEF Expressions
  <2> QED BY <2>1
<1>4. BaseLen \in Nat \ {0} BY OrmAssumption DEF OrmAssumption
<1>5. ps \in Seq(Expressions) /\ Len(ps) = BaseLen BY <1>3, <1>4
<1> DEFINE old == SubSeq(ps, 1, BaseLen - 1)
           new == ps[BaseLen]
           g == Query!Grown(old, new)
<1>6. old \in Seq(Expressions) /\ Len(old) = BaseLen - 1 /\ (\A i \in 1 .. BaseLen - 1 : old[i] = ps[i]) /\ new \in Expressions
  BY <1>4, <1>5
<1> HIDE DEF old
<1>7. /\ g \in Seq(Expressions) /\ Len(g) >= BaseLen
      /\ (\A i \in 1 .. BaseLen - 1 : g[i] = old[i]) /\ g[BaseLen] = new
  <2>1. /\ g \in Seq(Expressions) /\ Len(g) > Len(old) /\ (\A i \in 1 .. Len(old) : g[i] = old[i]) /\ g[Len(old) + 1] = new
    BY <1>6, GrownRight
  <2> HIDE DEF g, new
  <2> QED BY <1>4, <1>6, <2>1
<1>8. \A i \in 1 .. BaseLen : g[i] = ps[i] BY <1>4, <1>6, <1>7
<1>9. arr = <<g>> BY <1>1 DEF old
<1> HIDE DEF g
<1>10. arr \in Seq(Lists) /\ DOMAIN arr = {1} /\ arr[1] = g
  <2>1. g \in Lists BY <1>7 DEF Lists
  <2> QED BY <1>9, <2>1
<1>11. conds \in Seq(Marks) /\ DOMAIN conds = {1, 2} /\ Len(conds) = 2
  <2>1. [a |-> 0, n |-> 0] \in Marks /\ [a |-> 1, n |-> BaseLen] \in Marks BY <1>4 DEF Marks
  <2> QED BY <1>1, <2>1
<1>12. conds[1].a = 0 /\ conds[1].n = 0 /\ conds[2].a = 1 /\ conds[2].n = BaseLen BY <1>1
<1>13. ideal \in Seq(Lists) /\ Len(ideal) = 2 /\ ideal[1] = <<>> /\ ideal[2] = ps
  <2>1. <<>> \in Lists /\ ps \in Lists BY <1>5 DEF Lists
  <2> QED BY <1>1, <2>1
<1>14. CondOk(conds[1], ideal[1], arr, forked) BY <1>12, <1>13 DEF CondOk
<1>15. CondOk(conds[2], ideal[2], arr, forked) BY <1>2, <1>4, <1>5, <1>7, <1>8, <1>10, <1>12, <1>13 DEF CondOk
<1>16. QueryTypes BY <1>2, <1>10, <1>11, <1>13 DEF QueryTypes
<1> QED BY <1>11, <1>14, <1>15, <1>16 DEF QueryInv

LEMMA QueryBuild ==
  ASSUME QueryInv, Query!Build
  PROVE  QueryInv'
<1>1. PICK c \in DOMAIN conds, how \in {<<FALSE, FALSE>>, <<FALSE, TRUE>>, <<TRUE, FALSE>>} :
        \/ \E a \in Query!Atoms : Query!Extend(c, [not |-> how[1], or |-> how[2], on |-> a, sub |-> 0])
        \/ \E d \in DOMAIN conds \ {c} :
             Query!Combine(c, [not |-> how[1], or |-> how[2], on |-> "sub", sub |-> d])
  BY DEF Query!Build
<1>2. how[1] \in BOOLEAN /\ how[2] \in BOOLEAN
  <2>1. CASE how = <<FALSE, FALSE>> BY <2>1
  <2>2. CASE how = <<FALSE, TRUE>> BY <2>2
  <2>3. CASE how = <<TRUE, FALSE>> BY <2>3
  <2> QED BY <2>1, <2>2, <2>3
<1>3. ASSUME NEW a \in Query!Atoms, NEW p, p = [not |-> how[1], or |-> how[2], on |-> a, sub |-> 0], Query!Extend(c, p)
      PROVE  QueryInv'
  <2>1. p \in Expressions BY <1>2, <1>3 DEF Expressions
  <2>2. ideal' = Append(ideal, Append(ideal[c], p)) BY <1>3 DEF Query!Extend, Query!New
  <2>3. CASE Query!Fits(c) BY <1>3, <2>1, <2>2, <2>3, AppendInPlace DEF Query!Extend
  <2>4. CASE ~Query!Fits(c) BY <1>3, <2>1, <2>2, <2>4, AppendCopies DEF Query!Extend
  <2> QED BY <2>3, <2>4
<1>4. ASSUME NEW d \in DOMAIN conds, NEW p, p = [not |-> how[1], or |-> how[2], on |-> "sub", sub |-> d], Query!Combine(c, p)
      PROVE  QueryInv'
  <2>1. d \in Nat BY DEF QueryInv, QueryTypes
  <2>2. p \in Expressions BY <1>2, <1>4, <2>1 DEF Expressions
  <2>3. ideal' = Append(ideal, Append(ideal[c], p)) BY <1>4 DEF Query!Combine, Query!New
  <2> QED BY <1>4, <2>2, <2>3, AppendCopies DEF Query!Combine
<1> QED BY <1>1, <1>3, <1>4

LEMMA QueryStable ==
  ASSUME QueryInv
  PROVE  Query!LinearStable
<1> SUFFICES ASSUME NEW c \in DOMAIN conds, conds[c].n > 0, conds[c].a \notin forked PROVE Query!Params(c) = ideal[c]
  BY DEF Query!LinearStable
<1>1. ideal[c] \in Seq(Expressions) /\ Len(ideal[c]) = conds[c].n /\ \A i \in 1 .. conds[c].n : arr[conds[c].a][i] = ideal[c][i]
  BY QueryFacts DEF CondOk, Lists
<1>2. /\ Query!Params(c) \in Seq(Expressions) /\ Len(Query!Params(c)) = conds[c].n
      /\ \A i \in 1 .. conds[c].n : Query!Params(c)[i] = arr[conds[c].a][i]
  BY ParamsRight
<1> DEFINE x == Query!Params(c)
           y == ideal[c]
<1> HIDE DEF x, y
<1>3. x \in Seq(Expressions) /\ y \in Seq(Expressions) /\ Len(x) = Len(y) /\ \A i \in 1 .. Len(x) : x[i] = y[i]
  BY <1>1, <1>2 DEF x, y
<1>4. x = y BY <1>3, SeqEqual
<1> QED BY <1>4 DEF x, y

\* A condition has the expressions it was built of, whatever conditions share
\* its array, unless one of them, or of those the array was copied from, was
\* extended in place a second time; for any number of conditions
\* (orm_conds.go and Go's append).
THEOREM AppendSafety == OrmSpec => [](which = "query" => Query!LinearStable)
<1> DEFINE I == which = "query" => QueryInv
<1>1. OrmInit => I BY QueryInit DEF OrmInit
<1>2. I /\ [OrmNext]_ormVars => I'
  <2> SUFFICES ASSUME I, [OrmNext]_ormVars, which' = "query" PROVE QueryInv' OBVIOUS
  <2>1. CASE which = "query" /\ Query!Build BY <2>1, QueryBuild
  <2>2. CASE UNCHANGED <<arr, conds, ideal, forked>> /\ which = "query"
    BY <2>2 DEF QueryInv, QueryTypes
  <2>3. which' = which BY DEF OrmNext, ormVars
  <2>4. (which = "query" /\ Query!Next) \/ UNCHANGED queryVars BY DEF OrmNext, ormVars
  <2>5. (which = "query" /\ Query!Build) \/ UNCHANGED <<arr, conds, ideal, forked>>
    BY <2>4 DEF Query!Next, Query!Ask, queryVars
  <2> QED BY <2>1, <2>2, <2>3, <2>5
<1>3. I => (which = "query" => Query!LinearStable) BY QueryStable
<1> QED BY <1>1, <1>2, <1>3, PTL DEF OrmSpec

-----------------------------------------------------------------------------
(* Reading into a container.                                               *)

\* What a read may leave of the old object: a value that a raw read in place
\* does not write.
StaysOld == kind \in Results!RawKeeps /\ form \in {"rawRow", "rowsTo"}

\* What a field may hold, and what it holds when nothing of the old is there.
Fresh == {"zero", "nil", "invalid", "good", "null", "panic", "zeroObject"}
Held == Fresh \cup {"old"}

\* The forms that build a slice on the side.
Collected == {"all", "values", "rawRows", "rawCols", "rawValues"}

\* The slice built so far has every row counted, each of them read into a new
\* object; the container is as it was, or emptied, or has the one object.
ReadInv ==
  /\ form \in Results!Forms /\ kind \in Results!Kinds
  /\ form \in {"rowsTo", "rawCol", "rawCols"} => kind # "fielder"
  /\ status \in {"run", "ok", "noRows", "error", "panic"}
  /\ cnt \in Nat /\ rows \in Seq(Results!Cells)
  /\ acc \in Seq(Held) /\ \A i \in DOMAIN acc : acc[i] # "old"
  /\ form \in Collected /\ status = "run" => Len(acc) = cnt
  /\ ~Results!Single /\ status # "ok" => cont \in {<<"old">>, <<>>}
  /\ ~Results!Single /\ status = "ok" /\ cnt > 0 => Len(cont) = cnt /\ \A i \in DOMAIN cont : cont[i] # "old"
  /\ Results!Single => \E v \in Held :
       cont = <<v>> /\ (cnt > 0 /\ status \in {"run", "ok"} /\ v = "old" => StaysOld)

LEMMA ReadInit ==
  ASSUME Results!Init
  PROVE  ReadInv
<1>1. rows \in Seq(Results!Cells)
  <2> PICK n \in 0 .. MaxRows : rows \in [1 .. n -> Results!Cells] BY DEF Results!Init
  <2> QED OBVIOUS
<1>2. acc \in Seq(Held) /\ Len(acc) = 0 /\ DOMAIN acc = {} BY DEF Results!Init
<1>3. Results!Single => cont = <<"old">> BY DEF Results!Init
<1>4. ~Results!Single => cont \in {<<"old">>, <<>>} BY DEF Results!Init
<1> QED BY <1>1, <1>2, <1>3, <1>4 DEF Results!Init, ReadInv, Held

\* What a raw read makes of a field.
LEMMA RawCases ==
  ASSUME kind \in Results!Kinds, NEW cell \in Results!Cells, NEW was
  PROVE  /\ Results!RawSetFieldValue(was, cell) \in {was, "refused", "zeroObject", "zero", Results!Nothing, "good"}
         /\ Results!RawSetFieldValue(was, cell) \in {"refused", "zeroObject", "zero", Results!Nothing, "good"}
              \/ kind \in Results!RawKeeps
<1>1. /\ kind \in {"plain", "ptr", "sqlNull", "rel", "time", "fielder", "struct", "slice"}
      /\ cell \in {"null", "good", "unfit"}
  BY DEF Results!Kinds, Results!ModelKinds, Results!Cells
<1>2. CASE kind = "fielder" BY <1>1, <1>2 DEF Results!RawSetFieldValue, Results!SetRaw
<1>3. CASE kind \in Results!RawKeeps BY <1>1, <1>3 DEF Results!RawSetFieldValue, Results!RawKeeps
<1>4. CASE kind \in {"plain", "ptr", "rel"} BY <1>1, <1>4 DEF Results!RawSetFieldValue
<1> QED BY <1>1, <1>2, <1>3, <1>4 DEF Results!RawKeeps

\* A new object has nothing of an old one, whatever is read into it.
LEMMA ReadNew ==
  ASSUME kind \in Results!Kinds, NEW cell \in Results!Cells
  PROVE  /\ Results!SetFieldValue(Results!New, cell) \in Fresh
         /\ Results!RawSetFieldValue(Results!New, cell) \in Fresh \cup {"refused"}
         /\ Results!ConvertValueFromDB(cell) \in Fresh
<1>1. cell \in {"null", "good", "unfit"} BY DEF Results!Cells
<1>2. Results!Nothing \in {"zero", "nil", "invalid"} BY DEF Results!Nothing
<1>3. Results!ConvertValueFromDB(cell) \in {"null", "good", "panic"} BY <1>1 DEF Results!ConvertValueFromDB
<1>4. Results!SetFieldValue(Results!New, cell) \in {"zero", "nil", "invalid", "good", "panic"}
  BY <1>1, <1>2, <1>3 DEF Results!SetFieldValue, Results!ConvertValueFromDB, Results!New
<1>5. Results!RawSetFieldValue(Results!New, cell) \in {"zero", "nil", "invalid", "good", "zeroObject", "refused"}
  BY <1>1, <1>2, RawCases DEF Results!New
<1> QED BY <1>3, <1>4, <1>5 DEF Fresh

\* Read in place, a value stays only if its type is one of RawKeeps.
LEMMA ReadInPlace ==
  ASSUME kind \in Results!Kinds, NEW cell \in Results!Cells, NEW was \in Held
  PROVE  /\ Results!RawSetFieldValue(was, cell) \in Held \cup {"refused"}
         /\ Results!RawSetFieldValue(was, cell) = "old" => kind \in Results!RawKeeps
<1>1. Results!Nothing \in {"zero", "nil", "invalid"} BY DEF Results!Nothing
<1> QED BY <1>1, RawCases DEF Held, Fresh

LEMMA Collect ==
  ASSUME acc \in Seq(Held), \A i \in DOMAIN acc : acc[i] # "old", NEW v \in Fresh
  PROVE  /\ Append(acc, v) \in Seq(Held) /\ Len(Append(acc, v)) = Len(acc) + 1
         /\ \A i \in DOMAIN Append(acc, v) : Append(acc, v)[i] # "old"
BY DEF Held, Fresh

LEMMA ScannedFacts ==
  ASSUME ReadInv, Results!Scanned
  PROVE  /\ Head(rows) \in Results!Cells /\ rows' \in Seq(Results!Cells)
         /\ cnt' = cnt + 1 /\ cnt' \in Nat /\ cnt' > 0 /\ status = "run"
         /\ form' = form /\ kind' = kind
<1>1. rows # <<>> /\ rows \in Seq(Results!Cells) /\ rows' = Tail(rows) BY DEF Results!Scanned, Results!More, ReadInv
<1>2. Head(rows) \in Results!Cells /\ Tail(rows) \in Seq(Results!Cells) BY <1>1
<1> QED BY <1>1, <1>2 DEF Results!Scanned, Results!More, ReadInv

\* A row into the slice on the side.
LEMMA RowCollected ==
  ASSUME ReadInv, Results!Scanned, form \in Collected, NEW v \in Fresh, acc' = Append(acc, v), status' = "run",
         cont' \in {cont, <<>>}
  PROVE  ReadInv'
<1> USE ScannedFacts, Collect
<1>1. ~Results!Single BY DEF Collected, Results!Single
<1>2. acc' \in Seq(Held) /\ Len(acc') = cnt' /\ \A i \in DOMAIN acc' : acc'[i] # "old" BY DEF ReadInv
<1>3. cont' \in {<<"old">>, <<>>} BY <1>1 DEF ReadInv
<1>4. ~(Results!Single)' BY <1>1 DEF Results!Single
<1>5. form' \in Results!Forms /\ kind' \in Results!Kinds BY DEF ReadInv
<1> HIDE DEF Results!Single, Collected
<1> QED BY <1>2, <1>3, <1>4, <1>5 DEF ReadInv

\* A row into the one object.
LEMMA RowStored ==
  ASSUME ReadInv, Results!Scanned, Results!Single, NEW v \in Held, cont' = <<v>>, status' = "run", acc' = acc,
         v = "old" => StaysOld
  PROVE  ReadInv'
<1> USE ScannedFacts
<1>1. form \notin Collected /\ form' \notin Collected BY DEF Collected, Results!Single
<1>2. (Results!Single)' BY DEF Results!Single
<1>3. form' \in Results!Forms /\ kind' \in Results!Kinds BY DEF ReadInv
<1>4. StaysOld' = StaysOld BY DEF StaysOld
<1> HIDE DEF Results!Single, Collected, StaysOld
<1> QED BY <1>1, <1>2, <1>3, <1>4 DEF ReadInv

\* A row that panics, or a field that refuses its value.
LEMMA RowFails ==
  ASSUME ReadInv, Results!Scanned, status' \in {"panic", "error"}, acc' = acc, cont' = cont \/ (cont' = <<>> /\ ~Results!Single)
  PROVE  ReadInv'
<1> USE ScannedFacts
<1>1. (Results!Single)' = Results!Single BY DEF Results!Single
<1>2. form' \in Results!Forms /\ kind' \in Results!Kinds BY DEF ReadInv
<1> HIDE DEF Results!Single, Collected, StaysOld
<1> QED BY <1>1, <1>2 DEF ReadInv

LEMMA ReadReadRow ==
  ASSUME ReadInv, Results!ReadRow
  PROVE  ReadInv'
<1> DEFINE v == Results!SetFieldValue(Results!New, Head(rows))
<1>1. Results!Scanned /\ form = "read" /\ Results!Store(v, <<v>>, acc) BY DEF Results!ReadRow
<1>2. v \in Fresh BY <1>1, ScannedFacts, ReadNew DEF ReadInv
<1>3. Results!Single BY <1>1 DEF Results!Single
<1> HIDE DEF v
<1>4. CASE v = "panic" BY <1>1, <1>4, RowFails DEF Results!Store
<1>5. v \in Held /\ v # "old" BY <1>2 DEF Held, Fresh
<1>6. CASE v # "panic" BY <1>1, <1>3, <1>5, <1>6, RowStored DEF Results!Store
<1> QED BY <1>4, <1>6

LEMMA ReadBatchRow ==
  ASSUME ReadInv, Results!BatchRow
  PROVE  ReadInv'
<1> DEFINE v == IF form = "one" /\ cnt > 0 THEN "good" ELSE Results!SetFieldValue(Results!New, Head(rows))
<1>1. Results!Scanned /\ form \in {"one", "all"}
      /\ Results!Store(v, IF form = "one" /\ cnt = 0 THEN <<v>> ELSE cont, IF form = "all" THEN Append(acc, v) ELSE acc)
  BY DEF Results!BatchRow
<1>2. v \in Fresh BY <1>1, ScannedFacts, ReadNew DEF ReadInv, Fresh
<1> HIDE DEF v
<1>3. CASE v = "panic" BY <1>1, <1>3, RowFails DEF Results!Store
<1>4. CASE v # "panic" /\ form = "all"
  <2>1. status' = "run" /\ acc' = Append(acc, v) /\ cont' = cont BY <1>1, <1>4 DEF Results!Store
  <2> QED BY <1>1, <1>2, <1>4, <2>1, RowCollected DEF Collected
<1>5. CASE v # "panic" /\ form = "one"
  <2>1. status' = "run" /\ acc' = acc /\ cont' = (IF cnt = 0 THEN <<v>> ELSE cont) BY <1>1, <1>5 DEF Results!Store
  <2>2. Results!Single /\ ~StaysOld BY <1>5 DEF Results!Single, StaysOld
  <2>3. PICK w \in Held : cont = <<w>> /\ (cnt > 0 => w # "old") BY <2>2, <1>1, ScannedFacts DEF ReadInv
  <2>4. \E x \in Held : cont' = <<x>> /\ x # "old"
    <3>1. CASE cnt = 0 BY <3>1, <1>2, <2>1 DEF Held, Fresh
    <3>2. CASE cnt # 0 BY <3>2, <2>1, <2>3 DEF ReadInv
    <3> QED BY <3>1, <3>2
  <2> QED BY <1>1, <2>1, <2>2, <2>4, RowStored
<1> QED BY <1>1, <1>3, <1>4, <1>5

LEMMA ReadValuesRow ==
  ASSUME ReadInv, Results!ValuesRow
  PROVE  ReadInv'
<1> DEFINE v == IF Head(rows) = "null" THEN "nil" ELSE Results!ConvertValueFromDB(Head(rows))
<1>1. Results!Scanned /\ form = "values" /\ Results!Store(v, cont, Append(acc, v)) BY DEF Results!ValuesRow
<1>2. v \in Fresh BY <1>1, ScannedFacts, ReadNew DEF ReadInv, Fresh
<1> HIDE DEF v
<1>3. CASE v = "panic" BY <1>1, <1>3, RowFails DEF Results!Store
<1>4. CASE v # "panic"
  <2>1. status' = "run" /\ acc' = Append(acc, v) /\ cont' = cont BY <1>1, <1>4 DEF Results!Store
  <2> QED BY <1>1, <1>2, <2>1, RowCollected DEF Collected
<1> QED BY <1>3, <1>4

\* Only a Fielder refuses a value, and a container that is no struct has none.
LEMMA Unrefused ==
  ASSUME kind \in Results!Kinds, kind # "fielder", NEW cell \in Results!Cells, NEW was, was # "refused"
  PROVE  Results!RawSetFieldValue(was, cell) # "refused"
<1>1. /\ kind \in {"plain", "ptr", "sqlNull", "rel", "time", "struct", "slice"}
      /\ cell \in {"null", "good", "unfit"}
  BY DEF Results!Kinds, Results!ModelKinds, Results!Cells
<1>2. Results!Nothing # "refused" BY DEF Results!Nothing
<1> QED BY <1>1, <1>2 DEF Results!RawSetFieldValue

LEMMA ReadLoop ==
  ASSUME ReadInv, form \in {"rawCol", "rawCols"}, NEW cell \in Results!Cells
  PROVE  Results!LoopSetRefs(cell) \in Fresh
<1>1. kind \in Results!Kinds /\ kind # "fielder" BY DEF ReadInv
<1>2. Results!New # "refused" BY DEF Results!New, Results!Nothing
<1> QED BY <1>1, <1>2, ReadNew, Unrefused DEF Results!LoopSetRefs

\* rawSet.QueryRow, and queryRowsTo a struct, which is no Fielder.
LEMMA ReadObject ==
  ASSUME ReadInv, Results!RawRow \/ Results!RowsToRow
  PROVE  ReadInv'
<1> DEFINE v == Results!RawSetFieldValue(cont[1], Head(rows))
<1>1. Results!Scanned /\ form \in {"rawRow", "rowsTo"} /\ acc' = acc
  BY DEF Results!RawRow, Results!RowsToRow
<1>2. Results!Single BY <1>1 DEF Results!Single
<1>3. PICK w \in Held : cont = <<w>> BY <1>2 DEF ReadInv
<1>4. cont[1] \in Held BY <1>3
<1>5. v \in Held \cup {"refused"} /\ (v = "old" => StaysOld) BY <1>1, <1>4, ScannedFacts, ReadInPlace DEF ReadInv, StaysOld
<1>6. form = "rowsTo" => v # "refused"
  <2> SUFFICES ASSUME form = "rowsTo" PROVE v # "refused" OBVIOUS
  <2>1. kind # "fielder" /\ kind \in Results!Kinds BY DEF ReadInv
  <2>2. cont[1] # "refused" BY <1>4 DEF Held, Fresh
  <2>3. Head(rows) \in Results!Cells BY <1>1, ScannedFacts
  <2> QED BY <2>1, <2>2, <2>3, Unrefused
<1>7. \/ v # "refused" /\ cont' = <<v>> /\ status' = status
      \/ status' = "error" /\ cont' = cont
  BY <1>1, <1>6 DEF Results!RawRow, Results!RowsToRow
<1> HIDE DEF v
<1>8. CASE v # "refused" /\ cont' = <<v>> /\ status' = status
  <2>1. status' = "run" BY <1>1, <1>8, ScannedFacts
  <2> QED BY <1>1, <1>2, <1>5, <1>8, <2>1, RowStored
<1>9. CASE status' = "error" /\ cont' = cont BY <1>1, <1>9, RowFails
<1> QED BY <1>7, <1>8, <1>9

\* rawSet.QueryRow of a column.
LEMMA ReadColumn ==
  ASSUME ReadInv, Results!RawCol
  PROVE  ReadInv'
<1> DEFINE v == Results!LoopSetRefs(Head(rows))
<1>1. Results!Scanned /\ form = "rawCol" /\ cont' = <<v>> /\ acc' = acc /\ status' = status BY DEF Results!RawCol
<1>2. Results!Single BY <1>1 DEF Results!Single
<1>3. v \in Fresh BY <1>1, ScannedFacts, ReadLoop
<1> HIDE DEF v
<1>4. v \in Held /\ v # "old" /\ status' = "run" BY <1>1, <1>3, ScannedFacts DEF Held, Fresh
<1> QED BY <1>1, <1>2, <1>4, RowStored

LEMMA ReadRawRows ==
  ASSUME ReadInv, Results!RawRows
  PROVE  ReadInv'
<1> DEFINE v == Results!RawSetFieldValue(Results!New, Head(rows))
<1>1. Results!Scanned /\ form = "rawRows" /\ cont' \in {cont, <<>>} BY DEF Results!RawRows
<1>2. form \in Collected /\ ~Results!Single BY <1>1 DEF Collected, Results!Single
<1>3. v \in Fresh \cup {"refused"} BY <1>1, ScannedFacts, ReadNew DEF ReadInv
<1>4. IF v = "refused" THEN status' = "error" /\ acc' = acc ELSE acc' = Append(acc, v) /\ status' = status
  BY DEF Results!RawRows
<1> HIDE DEF v
<1>5. CASE v = "refused" BY <1>1, <1>2, <1>4, <1>5, RowFails
<1>6. CASE v # "refused" BY <1>1, <1>2, <1>3, <1>4, <1>6, ScannedFacts, RowCollected
<1> QED BY <1>5, <1>6

LEMMA ReadRawCols ==
  ASSUME ReadInv, Results!RawCols
  PROVE  ReadInv'
<1>1. /\ Results!Scanned /\ form \in {"rawCols", "rawValues"} /\ status' = status /\ cont' = cont
  BY DEF Results!RawCols
<1>2. form \in Collected BY <1>1 DEF Collected
<1>3. PICK v \in Fresh : acc' = Append(acc, v)
  <2>1. CASE form = "rawCols"
    <3>1. acc' = Append(acc, Results!LoopSetRefs(Head(rows))) BY <2>1 DEF Results!RawCols
    <3>2. Results!LoopSetRefs(Head(rows)) \in Fresh BY <1>1, <2>1, ScannedFacts, ReadLoop
    <3> QED BY <3>1, <3>2
  <2>2. CASE form = "rawValues"
    <3>1. acc' = Append(acc, IF Head(rows) = "null" THEN "nil" ELSE "good") BY <2>2 DEF Results!RawCols
    <3> QED BY <3>1 DEF Fresh
  <2> QED BY <1>1, <2>1, <2>2
<1>4. status' = "run" BY <1>1, ScannedFacts
<1> QED BY <1>1, <1>2, <1>3, <1>4, RowCollected

LEMMA ReadScanFails ==
  ASSUME ReadInv, Results!ScanFails
  PROVE  ReadInv'
<1>1. status = "run" /\ status' = "error" /\ UNCHANGED <<form, kind, rows, cnt, acc, cont>>
  BY DEF Results!ScanFails, Results!Stop, Results!More
<1>2. (Results!Single)' = Results!Single BY <1>1 DEF Results!Single
<1> HIDE DEF Results!Single, Collected, StaysOld
<1> QED BY <1>1, <1>2 DEF ReadInv

LEMMA ReadFinish ==
  ASSUME ReadInv, Results!Finish
  PROVE  ReadInv'
<1>1. status = "run" /\ status' \in {"ok", "noRows"} /\ UNCHANGED <<form, kind, rows, cnt, acc>>
  BY DEF Results!Finish, Results!Stop, Results!Done
<1>2. (Results!Single)' = Results!Single /\ StaysOld' = StaysOld BY <1>1 DEF Results!Single, StaysOld
<1>3. CASE Results!Single
  <2>1. cont' = cont BY <1>3 DEF Results!Finish, Results!Single
  <2>2. form \notin Collected BY <1>3 DEF Collected, Results!Single
  <2> HIDE DEF Results!Single, Collected, StaysOld
  <2> QED BY <1>1, <1>2, <1>3, <2>1, <2>2 DEF ReadInv
<1>4. CASE ~Results!Single
  <2>1. form \in Collected BY <1>4 DEF Collected, Results!Single, ReadInv, Results!Forms
  <2>2. status' = "ok" BY <1>4 DEF Results!Finish, Results!Stop, Results!Single
  <2>3. cnt > 0 => cont' = acc BY <2>1 DEF Results!Finish, Collected
  <2>4. Len(acc) = cnt BY <1>1, <2>1 DEF ReadInv
  <2> HIDE DEF Results!Single, Collected, StaysOld
  <2> QED BY <1>1, <1>2, <1>4, <2>2, <2>3, <2>4 DEF ReadInv
<1> QED BY <1>3, <1>4

LEMMA ReadRight ==
  ASSUME ReadInv
  PROVE  Results!ReadSound
<1>1. CASE Results!Single
  <2>1. PICK v \in Held : cont = <<v>> /\ (cnt > 0 /\ status \in {"run", "ok"} /\ v = "old" => StaysOld) BY <1>1 DEF ReadInv
  <2>2. \A i \in DOMAIN cont : cont[i] = v BY <2>1
  <2> HIDE DEF Results!Single
  <2> QED BY <1>1, <2>1, <2>2 DEF Results!ReadSound, Results!NothingOldAmongNew, Results!FailedReadKeeps, StaysOld
<1>2. CASE ~Results!Single
  <2> HIDE DEF Results!Single
  <2> QED BY <1>2 DEF ReadInv, Results!ReadSound, Results!NothingOldAmongNew, Results!FailedReadKeeps
<1> QED BY <1>1, <1>2

\* What a read leaves in the caller's container is the answer, all of it, or
\* what was there before, for a result of any length (db.go, orm_raw.go).
THEOREM ReadSafety == OrmSpec => []ReadSound
<1> DEFINE I == which = "read" => ReadInv
<1>1. OrmInit => I BY ReadInit DEF OrmInit
<1>2. I /\ [OrmNext]_ormVars => I'
  <2> SUFFICES ASSUME I, [OrmNext]_ormVars, which' = "read" PROVE ReadInv' OBVIOUS
  <2>1. CASE which = "read" /\ Results!Next
    BY <2>1, ReadReadRow, ReadBatchRow, ReadValuesRow, ReadObject, ReadColumn, ReadRawRows, ReadRawCols, ReadScanFails, ReadFinish DEF Results!Next
  <2>2. CASE UNCHANGED readVars /\ which = "read" BY <2>2 DEF readVars, ReadInv, Results!Single, StaysOld
  <2>3. which' = which BY DEF OrmNext, ormVars
  <2>4. (which = "read" /\ Results!Next) \/ UNCHANGED readVars BY DEF OrmNext, ormVars
  <2> QED BY <2>1, <2>2, <2>3, <2>4
<1>3. I => ReadSound BY ReadRight DEF ReadSound
<1> QED BY <1>1, <1>2, <1>3, PTL DEF OrmSpec

-----------------------------------------------------------------------------
(* The fields of a model.                                                  *)

\* The tags of any field, and what NewFieldInfo makes of them.
Words == {"X", "Y", "Id", "id"}
AnyTags ==
  [name : Words, kind : FieldsOf!Kinds, null : BOOLEAN, index : BOOLEAN, auto : BOOLEAN, pk : BOOLEAN, unique : BOOLEAN,
   default : {"none", "good", "wrong"}, onDelete : FieldsOf!OnDelete, bad : BOOLEAN]
FieldInfos ==
  [wrong : {FALSE}, name : Words, kind : FieldsOf!Kinds, column : Seq(Words), dbcol : BOOLEAN,
   null : BOOLEAN, index : BOOLEAN, auto : BOOLEAN, pk : BOOLEAN, unique : BOOLEAN, rel : BOOLEAN, reverse : BOOLEAN,
   initial : {"none", "good", "wrong"}, onDelete : FieldsOf!OnDelete]

\* A relation without a column has no flags.
Flagged(f) ==
  f \in FieldInfos /\ (f.kind \in FieldsOf!Integer => f.dbcol) /\ (~f.dbcol => ~f.unique /\ ~f.index /\ ~f.null /\ ~f.auto /\ ~f.pk /\ f.onDelete = "")
\* Its type has the flags it has.
Typed(f) ==
  Flagged(f) /\ (f.auto => f.kind \in FieldsOf!Integer) /\ (f.kind = "text" => ~f.index /\ ~f.unique)
\* So has the key.
Keyed(f) ==
  /\ Typed(f) /\ (f.auto => f.pk) /\ (f.pk => ~f.null /\ ~f.index /\ ~f.unique)
  /\ ~(f.unique /\ f.index)

LEMMA FlagsRight ==
  ASSUME NEW t \in AnyTags
  PROVE  Flagged(FieldsOf!Flags(t))
<1> DEFINE f == FieldsOf!Flags(t)
           inDb == t.kind \notin {"m2m", "reverseOne", "reverseMany"}
<1>1. t.name \in Words /\ t.kind \in FieldsOf!Kinds /\ t.default \in {"none", "good", "wrong"} BY DEF AnyTags
<1>2. FieldsOf!Column(t) \in Seq(Words)
  <2>1. t.name \in Words /\ "id" \in Words BY <1>1 DEF Words
  <2>2. <<t.name, "id">> \in Seq(Words) BY <2>1
  <2>3. <<t.name>> \in Seq(Words) BY <2>1
  <2> QED BY <2>2, <2>3 DEF FieldsOf!Column
<1>3. "" \in FieldsOf!OnDelete BY DEF FieldsOf!OnDelete
<1>4. f \in FieldInfos
  <2>1. PICK nl \in BOOLEAN : nl = (inDb /\ t.null) OBVIOUS
  <2>2. PICK ix \in BOOLEAN : ix = (inDb /\ t.index) OBVIOUS
  <2>3. PICK au \in BOOLEAN : au = (inDb /\ t.auto) OBVIOUS
  <2>4. PICK key \in BOOLEAN : key = (inDb /\ t.pk) OBVIOUS
  <2>5. PICK un \in BOOLEAN : un = (inDb /\ (t.unique \/ t.kind = "one")) OBVIOUS
  <2>6. PICK rl \in BOOLEAN : rl = (TRUE /\ t.kind \in {"fk", "one", "m2m"}) OBVIOUS
  <2>7. PICK rv \in BOOLEAN : rv = (TRUE /\ t.kind \in {"reverseOne", "reverseMany"}) OBVIOUS
  <2>8. PICK d \in BOOLEAN : d = inDb OBVIOUS
  <2>9. f = [wrong |-> FALSE, name |-> t.name, kind |-> t.kind, column |-> FieldsOf!Column(t), dbcol |-> d, null |-> nl,
             index |-> ix, auto |-> au, pk |-> key, unique |-> un, rel |-> rl, reverse |-> rv, initial |-> t.default,
             onDelete |-> ""]
    BY <2>1, <2>2, <2>3, <2>4, <2>5, <2>6, <2>7, <2>8 DEF FieldsOf!Flags
  <2> DEFINE col == FieldsOf!Column(t)
             nm == t.name
             kd == t.kind
             def == t.default
  <2>10. col \in Seq(Words) /\ nm \in Words /\ kd \in FieldsOf!Kinds /\ def \in {"none", "good", "wrong"} BY <1>1, <1>2
  <2> HIDE DEF col, nm, kd, def
  <2>11. [wrong |-> FALSE, name |-> nm, kind |-> kd, column |-> col, dbcol |-> d, null |-> nl, index |-> ix, auto |-> au,
          pk |-> key, unique |-> un, rel |-> rl, reverse |-> rv, initial |-> def, onDelete |-> ""] \in FieldInfos
    BY <1>3, <2>10, ZenonT(60) DEF FieldInfos
  <2> QED BY <2>9, <2>11 DEF col, nm, kd, def
<1>5. /\ f.kind = t.kind /\ f.dbcol = inDb /\ (f.null => inDb) /\ (f.index => inDb) /\ (f.auto => inDb) /\ (f.pk => inDb)
      /\ f.onDelete = ""
  BY DEF FieldsOf!Flags
<1>6. f.unique => inDb BY DEF FieldsOf!Flags
<1>7. t.kind \in FieldsOf!Integer => inDb BY DEF FieldsOf!Integer
<1> HIDE DEF f, inDb
<1>8. Flagged(f) BY <1>4, <1>5, <1>6, <1>7 DEF Flagged
<1> QED BY <1>8 DEF f

LEMMA OnDeleteRight ==
  ASSUME NEW t \in AnyTags, NEW f, Flagged(f)
  PROVE  FieldsOf!CheckOnDelete(f, t) = FieldsOf!Wrong \/ Flagged(FieldsOf!CheckOnDelete(f, t))
<1> DEFINE d == IF t.onDelete = "" THEN "cascade" ELSE t.onDelete
<1>1. d \in FieldsOf!OnDelete BY DEF AnyTags, FieldsOf!OnDelete
<1>2. FieldsOf!CheckOnDelete(f, t) \in {f, FieldsOf!Wrong} \/ (f.dbcol /\ FieldsOf!CheckOnDelete(f, t) = [f EXCEPT !.onDelete = d])
  BY DEF FieldsOf!CheckOnDelete
<1> HIDE DEF d
<1>3. f.dbcol => Flagged([f EXCEPT !.onDelete = d]) BY <1>1 DEF Flagged, FieldInfos
<1> QED BY <1>2, <1>3

LEMMA TypeRight ==
  ASSUME NEW t \in AnyTags, NEW f, f = FieldsOf!Wrong \/ Flagged(f)
  PROVE  FieldsOf!TypeRules(f, t) = FieldsOf!Wrong \/ Typed(FieldsOf!TypeRules(f, t))
<1>1. CASE f = FieldsOf!Wrong BY <1>1 DEF FieldsOf!TypeRules, FieldsOf!Wrong
<1>2. CASE Flagged(f)
  <2>1. f.wrong = FALSE BY <1>2 DEF Flagged, FieldInfos
  <2>2. CASE t.bad \/ (f.auto /\ f.kind \notin FieldsOf!Integer) BY <2>1, <2>2 DEF FieldsOf!TypeRules
  <2>3. CASE ~(t.bad \/ (f.auto /\ f.kind \notin FieldsOf!Integer))
    <3>1. CASE f.kind = "text"
      <4>1. FieldsOf!TypeRules(f, t) = [f EXCEPT !.index = FALSE, !.unique = FALSE] BY <2>1, <2>3, <3>1 DEF FieldsOf!TypeRules
      <4>2. Flagged([f EXCEPT !.index = FALSE, !.unique = FALSE]) BY <1>2 DEF Flagged, FieldInfos
      <4>3. Typed([f EXCEPT !.index = FALSE, !.unique = FALSE]) BY <1>2, <2>3, <4>2 DEF Typed, Flagged, FieldInfos
      <4> QED BY <4>1, <4>3
    <3>2. CASE f.kind # "text"
      <4>1. FieldsOf!TypeRules(f, t) = f BY <2>1, <2>3, <3>2 DEF FieldsOf!TypeRules
      <4> QED BY <1>2, <2>3, <3>2, <4>1 DEF Typed
    <3> QED BY <3>1, <3>2
  <2> QED BY <2>2, <2>3
<1> QED BY <1>1, <1>2

LEMMA KeyRight ==
  ASSUME NEW f, f = FieldsOf!Wrong \/ Typed(f)
  PROVE  FieldsOf!KeyRules(f) = FieldsOf!Wrong \/ Keyed(FieldsOf!KeyRules(f))
<1>1. CASE f = FieldsOf!Wrong BY <1>1 DEF FieldsOf!KeyRules, FieldsOf!Wrong
<1>2. CASE Typed(f)
  <2>1. f.wrong = FALSE BY <1>2 DEF Typed, Flagged, FieldInfos
  <2> DEFINE k == IF f.auto \/ f.pk THEN [f EXCEPT !.pk = TRUE, !.null = FALSE, !.index = FALSE, !.unique = FALSE] ELSE f
             x == k.index /\ ~k.unique
             g == [k EXCEPT !.index = x]
  <2>2. FieldsOf!KeyRules(f) = g BY <2>1 DEF FieldsOf!KeyRules
  <2>3. Typed(k) /\ (k.auto => k.pk) /\ (k.pk => ~k.null /\ ~k.index /\ ~k.unique)
    <3>1. CASE f.auto \/ f.pk
      <4>1. k = [f EXCEPT !.pk = TRUE, !.null = FALSE, !.index = FALSE, !.unique = FALSE] BY <3>1
      <4>2. f \in FieldInfos /\ f.dbcol BY <1>2, <3>1 DEF Typed, Flagged
      <4>3. /\ k \in FieldInfos /\ k.dbcol /\ k.auto = f.auto /\ k.kind = f.kind
            /\ k.pk /\ ~k.null /\ ~k.index /\ ~k.unique
        BY <4>1, <4>2 DEF FieldInfos
      <4> QED BY <1>2, <4>3 DEF Typed, Flagged
    <3>2. CASE ~(f.auto \/ f.pk) BY <1>2, <3>2
    <3> QED BY <3>1, <3>2
  <2> HIDE DEF k
  <2>4. x \in BOOLEAN /\ (x => k.index) /\ ~(x /\ k.unique) OBVIOUS
  <2> HIDE DEF x
  <2>5. /\ g \in FieldInfos /\ g.index = x /\ g.unique = k.unique /\ g.dbcol = k.dbcol /\ g.null = k.null /\ g.auto = k.auto
        /\ g.pk = k.pk /\ g.kind = k.kind /\ g.onDelete = k.onDelete
    BY <2>3, <2>4 DEF Typed, Flagged, FieldInfos
  <2> HIDE DEF g
  <2> QED BY <2>2, <2>3, <2>4, <2>5 DEF Typed, Flagged, Keyed
<1> QED BY <1>1, <1>2

LEMMA InitialRight ==
  ASSUME NEW f, f = FieldsOf!Wrong \/ Keyed(f)
  PROVE  FieldsOf!Initial(f) = FieldsOf!Wrong \/ Keyed(FieldsOf!Initial(f))
<1>1. CASE f = FieldsOf!Wrong BY <1>1 DEF FieldsOf!Initial, FieldsOf!Wrong
<1>2. CASE Keyed(f)
  <2>1. f.wrong = FALSE BY <1>2 DEF Keyed, Typed, Flagged, FieldInfos
  <2> DEFINE none == f.auto \/ f.pk \/ f.unique \/ f.kind \in FieldsOf!Timed
             i == IF none THEN "none" ELSE f.initial
             g == [f EXCEPT !.initial = i]
  <2>2. i \in {"none", "good", "wrong"} BY <1>2 DEF Keyed, Typed, Flagged, FieldInfos
  <2>3. FieldsOf!Initial(f) \in {FieldsOf!Wrong, g} BY <2>1 DEF FieldsOf!Initial
  <2> HIDE DEF i
  <2>4. /\ g \in FieldInfos /\ g.index = f.index /\ g.unique = f.unique /\ g.dbcol = f.dbcol /\ g.null = f.null /\ g.auto = f.auto
        /\ g.pk = f.pk /\ g.kind = f.kind /\ g.onDelete = f.onDelete
    BY <1>2, <2>2 DEF Keyed, Typed, Flagged, FieldInfos
  <2> HIDE DEF g
  <2> QED BY <1>2, <2>3, <2>4 DEF Typed, Flagged, Keyed
<1> QED BY <1>1, <1>2

\* Whatever the tags are, NewFieldInfo refuses them or makes sane flags.
LEMMA NewFieldInfoRight ==
  ASSUME NEW t \in AnyTags
  PROVE  FieldsOf!NewFieldInfo(t) = FieldsOf!Wrong \/ Keyed(FieldsOf!NewFieldInfo(t))
<1> DEFINE f == FieldsOf!Flags(t)
           g == FieldsOf!CheckOnDelete(f, t)
           h == FieldsOf!TypeRules(g, t)
           k == FieldsOf!KeyRules(h)
<1>1. Flagged(f) BY FlagsRight
<1> HIDE DEF f
<1>2. g = FieldsOf!Wrong \/ Flagged(g) BY <1>1, OnDeleteRight
<1> HIDE DEF g
<1>3. h = FieldsOf!Wrong \/ Typed(h) BY <1>2, TypeRight
<1> HIDE DEF h
<1>4. k = FieldsOf!Wrong \/ Keyed(k) BY <1>3, KeyRight
<1> HIDE DEF k
<1>5. FieldsOf!NewFieldInfo(t) = FieldsOf!Initial(k) BY DEF f, g, h, k, FieldsOf!NewFieldInfo
<1> QED BY <1>4, <1>5, InitialRight

\* The fields so far have sane flags, and one of them at most is the key.
FieldsInv ==
  /\ struct \in Seq(AnyTags) /\ fields \in Seq(FieldInfos) /\ pk \in 0 .. Len(fields) /\ state \in {"add", "ready", "exit"}
  /\ \A i \in DOMAIN fields : LET f == fields[i] IN
       /\ Typed(f) /\ (f.auto => f.pk) /\ (f.pk <=> i = pk) /\ ~(f.unique /\ f.index)
       /\ f.pk /\ state = "add" => ~f.null /\ ~f.index /\ ~f.unique

LEMMA FieldsInit ==
  ASSUME FieldsOf!Init
  PROVE  FieldsInv
<1> USE DEF FieldsOf!Kinds, FieldsOf!Integer, FieldsOf!Timed, FieldsOf!OnDelete, Words
<1>1. FieldsOf!Tags \subseteq AnyTags BY DEF FieldsOf!Tags, AnyTags
<1>2. ASSUME NEW n \in Words, NEW k \in FieldsOf!Kinds PROVE FieldsOf!Plain(n, k) \in AnyTags BY DEF FieldsOf!Plain, AnyTags
<1>3. FieldsOf!Plain("Id", "int") \in AnyTags /\ FieldsOf!Plain("Id", "varchar") \in AnyTags /\ FieldsOf!Plain("X", "bool") \in AnyTags
  BY <1>2
<1>4. [FieldsOf!Plain("Y", "int") EXCEPT !.pk = TRUE] \in AnyTags
  <2> DEFINE y == FieldsOf!Plain("Y", "int")
  <2>1. y \in AnyTags BY <1>2
  <2> HIDE DEF y
  <2>2. [y EXCEPT !.pk = TRUE] \in AnyTags BY <2>1 DEF AnyTags
  <2> QED BY <2>2 DEF y
<1>5. [FieldsOf!Plain("Y", "varchar") EXCEPT !.bad = TRUE] \in AnyTags
  <2> DEFINE y == FieldsOf!Plain("Y", "varchar")
  <2>1. y \in AnyTags BY <1>2
  <2> HIDE DEF y
  <2>2. [y EXCEPT !.bad = TRUE] \in AnyTags BY <2>1 DEF AnyTags
  <2> QED BY <2>2 DEF y
<1>6. PICK t \in AnyTags, u \in AnyTags : struct \in {<<t, u>>, <<u, t>>} BY <1>1, <1>3, <1>4, <1>5 DEF FieldsOf!Init
<1>7. struct \in Seq(AnyTags)
  <2>1. <<t, u>> \in Seq(AnyTags) /\ <<u, t>> \in Seq(AnyTags) OBVIOUS
  <2> QED BY <1>6, <2>1
<1> QED BY <1>7 DEF FieldsOf!Init, FieldsInv

LEMMA FieldsAdd ==
  ASSUME FieldsInv, FieldsOf!AddField
  PROVE  FieldsInv'
<1> DEFINE f == FieldsOf!NewFieldInfo(Head(struct))
<1>1. state = "add" /\ struct # <<>> /\ struct' = Tail(struct) BY DEF FieldsOf!AddField
<1>2. struct' \in Seq(AnyTags) /\ Head(struct) \in AnyTags BY <1>1 DEF FieldsInv
<1>3. f = FieldsOf!Wrong \/ Keyed(f) BY <1>2, NewFieldInfoRight
<1>4. \/ state' = "exit" /\ UNCHANGED <<fields, pk>>
      \/ /\ ~f.wrong /\ ~(f.pk /\ pk # 0)
         /\ fields' = Append(fields, f) /\ pk' = (IF f.pk THEN Len(fields) + 1 ELSE pk) /\ UNCHANGED state
  BY DEF FieldsOf!AddField
<1> HIDE DEF f
<1>5. CASE state' = "exit" /\ UNCHANGED <<fields, pk>> BY <1>2, <1>5 DEF FieldsInv
<1>6. CASE ~f.wrong /\ ~(f.pk /\ pk # 0) /\ fields' = Append(fields, f) /\ pk' = (IF f.pk THEN Len(fields) + 1 ELSE pk) /\ UNCHANGED state
  <2>1. Keyed(f) BY <1>3, <1>6 DEF FieldsOf!Wrong
  <2>2. f \in FieldInfos /\ Typed(f) /\ f.pk \in BOOLEAN BY <2>1 DEF Keyed, Typed, Flagged, FieldInfos
  <2>3. fields \in Seq(FieldInfos) /\ pk \in 0 .. Len(fields) BY DEF FieldsInv
  <2>4. /\ fields' \in Seq(FieldInfos) /\ Len(fields') = Len(fields) + 1 /\ fields'[Len(fields) + 1] = f
        /\ \A i \in 1 .. Len(fields) : fields'[i] = fields[i]
    BY <1>6, <2>2, <2>3
  <2>5. pk' \in 0 .. Len(fields') BY <1>6, <2>3, <2>4
  <2>6. ASSUME NEW i \in DOMAIN fields'
        PROVE  LET g == fields'[i] IN
               /\ Typed(g) /\ (g.auto => g.pk) /\ (g.pk <=> i = pk') /\ ~(g.unique /\ g.index)
               /\ g.pk /\ state' = "add" => ~g.null /\ ~g.index /\ ~g.unique
    <3>1. CASE i = Len(fields) + 1
      <4>1. fields'[i] = f BY <2>4, <3>1
      <4>2. f.pk <=> i = pk' BY <1>6, <2>3, <3>1
      <4> QED BY <2>1, <4>1, <4>2 DEF Keyed
    <3>2. CASE i # Len(fields) + 1
      <4>1. i \in DOMAIN fields /\ fields'[i] = fields[i] BY <2>3, <2>4, <3>2
      <4>2. i = pk' <=> i = pk
        <5>1. CASE f.pk
          <6>1. pk = 0 /\ pk' = Len(fields) + 1 BY <1>6, <5>1
          <6> QED BY <2>3, <3>2, <4>1, <6>1
        <5>2. CASE ~f.pk BY <1>6, <5>2
        <5> QED BY <5>1, <5>2
      <4> QED BY <1>6, <4>1, <4>2 DEF FieldsInv
    <3> QED BY <3>1, <3>2
  <2>7. state' \in {"add", "ready", "exit"} BY <1>1, <1>6
  <2> QED BY <1>2, <2>4, <2>5, <2>6, <2>7 DEF FieldsInv
<1> QED BY <1>4, <1>5, <1>6

LEMMA FieldsDefault ==
  ASSUME FieldsInv, FieldsOf!DefaultKey
  PROVE  FieldsInv'
<1> DEFINE ids == {i \in DOMAIN fields : fields[i].name = "Id" /\ fields[i].kind \in FieldsOf!Integer}
           j == CHOOSE i \in ids : TRUE
<1>1. state' = "ready" /\ struct' = struct BY DEF FieldsOf!DefaultKey
<1>2. \/ UNCHANGED <<pk, fields>>
      \/ pk = 0 /\ ids # {} /\ pk' = j /\ fields' = [fields EXCEPT ![j].auto = TRUE, ![j].pk = TRUE]
  BY DEF FieldsOf!DefaultKey
<1>3. CASE UNCHANGED <<pk, fields>> BY <1>1, <1>3 DEF FieldsInv
<1>4. CASE pk = 0 /\ ids # {} /\ pk' = j /\ fields' = [fields EXCEPT ![j].auto = TRUE, ![j].pk = TRUE]
  <2>1. j \in DOMAIN fields /\ fields[j].kind \in FieldsOf!Integer BY <1>4
  <2> HIDE DEF j, ids
  <2>2. fields \in Seq(FieldInfos) BY DEF FieldsInv
  <2> DEFINE old == fields[j]
             f == [old EXCEPT !.auto = TRUE, !.pk = TRUE]
  <2>3. old \in FieldInfos /\ Typed(old) /\ ~old.pk /\ ~(old.unique /\ old.index) BY <1>4, <2>1, <2>2 DEF FieldsInv
  <2>4. fields' = [fields EXCEPT ![j] = f] BY <1>4, <2>1, <2>2
  <2>5. old.kind \in FieldsOf!Integer BY <2>1
  <2>6. old.dbcol BY <2>3, <2>5 DEF Typed, Flagged
  <2> HIDE DEF old
  <2>7. /\ f \in FieldInfos /\ f.auto /\ f.pk /\ f.dbcol /\ f.kind = old.kind /\ f.null = old.null /\ f.index = old.index
        /\ f.unique = old.unique
    BY <2>3, <2>6 DEF FieldInfos
  <2> HIDE DEF f
  <2>8. Typed(f) BY <2>3, <2>5, <2>7 DEF Typed, Flagged
  <2>9. /\ fields' \in Seq(FieldInfos) /\ Len(fields') = Len(fields) /\ DOMAIN fields' = DOMAIN fields /\ fields'[j] = f
        /\ \A i \in DOMAIN fields \ {j} : fields'[i] = fields[i]
    BY <2>1, <2>2, <2>4, <2>7
  <2>10. ASSUME NEW i \in DOMAIN fields'
         PROVE  LET g == fields'[i] IN Typed(g) /\ (g.auto => g.pk) /\ (g.pk <=> i = pk') /\ ~(g.unique /\ g.index)
    <3>1. CASE i = j BY <1>4, <2>3, <2>7, <2>8, <2>9, <3>1
    <3>2. CASE i # j
      <4>1. i \in DOMAIN fields /\ fields'[i] = fields[i] BY <2>9, <3>2
      <4>2. ~fields[i].pk
        <5>1. fields[i].pk <=> i = pk BY <4>1 DEF FieldsInv
        <5>2. i # 0 BY <4>1, <2>2
        <5> QED BY <1>4, <5>1, <5>2
      <4> QED BY <1>4, <3>2, <4>1, <4>2 DEF FieldsInv
    <3> QED BY <3>1, <3>2
  <2>11. pk' \in 0 .. Len(fields') BY <1>4, <2>1, <2>2, <2>9
  <2> QED BY <1>1, <2>9, <2>10, <2>11 DEF FieldsInv
<1> QED BY <1>2, <1>3, <1>4

LEMMA FieldsRight ==
  ASSUME FieldsInv
  PROVE  FieldsOf!FieldsSound
<1>1. ASSUME NEW i \in DOMAIN fields
      PROVE  LET f == fields[i] IN
             /\ f.pk /\ state = "add" => f.dbcol /\ ~f.null /\ ~f.index /\ ~f.unique
             /\ f.auto => f.pk /\ f.kind \in FieldsOf!Integer
             /\ ~(f.unique /\ f.index)
             /\ f.kind = "text" => ~f.index /\ ~f.unique
             /\ ~f.dbcol => ~f.unique /\ ~f.index /\ ~f.null /\ f.onDelete = ""
  BY DEF FieldsInv, Typed, Flagged
<1>2. FieldsOf!ColumnSane BY <1>1 DEF FieldsOf!ColumnSane
<1>3. FieldsOf!OneKey BY DEF FieldsInv, FieldsOf!OneKey
<1> QED BY <1>2, <1>3 DEF FieldsOf!FieldsSound

\* Every model that is accepted has one key at most, the one it knows, and
\* columns a table can be made of, whatever tags its fields have
\* (models_info_f.go, models_info_m.go).
THEOREM FieldsSafety == OrmSpec => []FieldsSound
<1> DEFINE I == which = "fields" => FieldsInv
<1>1. OrmInit => I BY FieldsInit DEF OrmInit
<1>2. I /\ [OrmNext]_ormVars => I'
  <2> SUFFICES ASSUME I, [OrmNext]_ormVars, which' = "fields" PROVE FieldsInv' OBVIOUS
  <2>1. CASE which = "fields" /\ FieldsOf!Next BY <2>1, FieldsAdd, FieldsDefault DEF FieldsOf!Next
  <2>2. CASE UNCHANGED fieldsVars /\ which = "fields" BY <2>2 DEF fieldsVars, FieldsInv
  <2>3. which' = which BY DEF OrmNext, ormVars
  <2>4. (which = "fields" /\ FieldsOf!Next) \/ UNCHANGED fieldsVars BY DEF OrmNext, ormVars
  <2> QED BY <2>1, <2>2, <2>3, <2>4
<1>3. I => FieldsSound BY FieldsRight DEF FieldsSound
<1> QED BY <1>1, <1>2, <1>3, PTL DEF OrmSpec

-----------------------------------------------------------------------------
(* Filters and DoTx.                                                       *)

\* An invocation that has gone through the first filters, in their order.
Invocations ==
  [method : Filters!Methods \cup Filters!Enders \cup {"DoTx", "Begin"}, inside : BOOLEAN, seen : Seq(Nat),
   stage : {"in", "out", "begin", "task", "end", "unwind"}, ok : BOOLEAN]
Right(f) == f \in Invocations /\ Len(f.seen) <= NFilters /\ \A k \in DOMAIN f.seen : f.seen[k] = k

\* An invocation alone on the stack, with the transaction x, a panic going up or
\* not, the task having ended the transaction or not, and what was broken off: a
\* transaction is open behind its task only for what was broken off.
Lone(f, x, up, o, c) ==
  /\ Right(f) /\ ~f.inside /\ f.method \in Filters!Methods \cup {"DoTx"}
  /\ \/ f.stage \in {"in", "out"}
     \/ f.stage = "task" /\ f.method = "DoTx"
     \/ f.stage \in {"begin", "end", "unwind"} /\ up
  /\ f.stage = "in" => x # "open" /\ (~up => c = <<>>)
  /\ f.stage \notin {"in", "task"} /\ x = "open" => c \in Filters!LeftOpen
  /\ f.stage \in {"in", "task"} /\ x = "committed" => o

\* Above DoTx is its Begin, what its task called, or the end of its transaction.
Pair(d, t, x, up, v, o, c) ==
  /\ Right(d) /\ ~d.inside /\ d.method = "DoTx" /\ Right(t) /\ t.stage \in {"in", "out"}
  /\ d.stage \in {"begin", "task"} /\ x = "committed" => o
  /\ \/ /\ d.stage = "begin" /\ t.method = "Begin" /\ ~t.inside
        /\ t.stage = "in" => x # "open"
        /\ ~up => c = <<>>
        /\ ~up /\ t.stage = "out" => (t.ok <=> x = "open")
        /\ up /\ x = "open" => c \in Filters!LeftOpen
     \/ d.stage = "task" /\ t.method \in Filters!Methods \cup Filters!Enders /\ t.inside
     \/ /\ d.stage \in {"end", "unwind"} /\ t.method \in {"Commit", "Rollback"}
        /\ t.stage = "in" /\ ~up => c = <<>>
        /\ (t.stage = "out" \/ up) /\ x = "open" => c \in Filters!LeftOpen
        /\ t.method = "Commit" => v = "nil"

FrameInv ==
  \/ frames = <<>> /\ (tx = "open" => cut \in Filters!LeftOpen)
  \/ \E f : frames = <<f>> /\ Lone(f, tx, panicking, own, cut)
  \/ \E d, t : frames = <<d, t>> /\ Pair(d, t, tx, panicking, verdict, own, cut)
FilterInv ==
  FrameInv /\ panicking \in BOOLEAN /\ own \in BOOLEAN /\ (tx = "committed" /\ ~own => verdict = "nil")

\* A stack of one and of two.
LEMMA OneOnly ==
  ASSUME NEW S, NEW s \in Seq(S), Len(s) = 1, NEW f \in S, s[1] = f
  PROVE  s = <<f>>
<1>1. <<f>> \in Seq(S) /\ Len(<<f>>) = 1 /\ <<f>>[1] = f OBVIOUS
<1> QED BY <1>1, SeqEqual

LEMMA TwoOnly ==
  ASSUME NEW S, NEW s \in Seq(S), Len(s) = 2, NEW d \in S, NEW t \in S, s[1] = d, s[2] = t
  PROVE  s = <<d, t>>
<1>1. <<d, t>> \in Seq(S) /\ Len(<<d, t>>) = 2 /\ <<d, t>>[1] = d /\ <<d, t>>[2] = t OBVIOUS
<1>2. \A i \in 1 .. Len(s) : s[i] = <<d, t>>[i] BY <1>1
<1> QED BY <1>1, <1>2, SeqEqual

LEMMA StackOne ==
  ASSUME NEW f
  PROVE  /\ Filters!Last(<<f>>) = f /\ Filters!Front(<<f>>) = <<>>
         /\ \A g : Append(Filters!Front(<<f>>), g) = <<g>> /\ Append(<<f>>, g) = <<f, g>>
         /\ \A g, h : Append(Filters!Front(<<f>>), g) \o <<h>> = <<g, h>>
<1>1. Filters!Last(<<f>>) = f BY DEF Filters!Last
<1>2. Filters!Front(<<f>>) = <<>> BY DEF Filters!Front
<1>3. ASSUME NEW g PROVE Append(<<>>, g) = <<g>> /\ Append(<<f>>, g) = <<f, g>>
  <2> DEFINE S == {f, g}
             a == Append(<<>>, g)
             b == Append(<<f>>, g)
  <2>1. a \in Seq(S) /\ Len(a) = 1 /\ a[1] = g OBVIOUS
  <2>2. b \in Seq(S) /\ Len(b) = 2 /\ b[1] = f /\ b[2] = g OBVIOUS
  <2>3. f \in S /\ g \in S OBVIOUS
  <2> HIDE DEF a, b, S
  <2>4. a = <<g>> BY <2>1, <2>3, OneOnly
  <2>5. b = <<f, g>> BY <2>2, <2>3, TwoOnly
  <2> QED BY <2>4, <2>5 DEF a, b
<1>4. ASSUME NEW g, NEW h PROVE <<g>> \o <<h>> = <<g, h>>
  <2> DEFINE S == {g, h}
             a == <<g>> \o <<h>>
  <2>1. a \in Seq(S) /\ Len(a) = 2 /\ a[1] = g /\ a[2] = h OBVIOUS
  <2>2. g \in S /\ h \in S OBVIOUS
  <2> HIDE DEF a, S
  <2>3. a = <<g, h>> BY <2>1, <2>2, TwoOnly
  <2> QED BY <2>3 DEF a
<1> QED BY <1>1, <1>2, <1>3, <1>4

LEMMA StackTwo ==
  ASSUME NEW d, NEW t
  PROVE  /\ Filters!Last(<<d, t>>) = t /\ Filters!Front(<<d, t>>) = <<d>>
         /\ \A g : Append(Filters!Front(<<d, t>>), g) = <<d, g>>
<1>1. Filters!Last(<<d, t>>) = t BY DEF Filters!Last
<1>2. Filters!Front(<<d, t>>) = <<d>>
  <2> DEFINE S == {d, t}
             a == SubSeq(<<d, t>>, 1, 1)
  <2>1. a \in Seq(S) /\ Len(a) = 1 /\ a[1] = d /\ d \in S OBVIOUS
  <2>2. Filters!Front(<<d, t>>) = a BY DEF Filters!Front
  <2> HIDE DEF a, S
  <2> QED BY <2>1, <2>2, OneOnly
<1>3. \A g : Append(<<d>>, g) = <<d, g>> BY StackOne
<1> QED BY <1>1, <1>2, <1>3

LEMMA FrameRight ==
  ASSUME NEW m \in Filters!Methods \cup Filters!Enders \cup {"DoTx", "Begin"}, NEW b \in BOOLEAN
  PROVE  /\ Right(Filters!Frame(m, b)) /\ Filters!Frame(m, b).method = m /\ Filters!Frame(m, b).inside = b
         /\ Filters!Frame(m, b).stage = "in"
<1> DEFINE f == Filters!Frame(m, b)
<1>1. f = [method |-> m, inside |-> b, seen |-> <<>>, stage |-> "in", ok |-> TRUE] BY DEF Filters!Frame
<1>2. f \in Invocations BY <1>1 DEF Invocations
<1>3. f.seen = <<>> /\ f.method = m /\ f.inside = b /\ f.stage = "in" BY <1>1
<1> HIDE DEF f
<1>4. Right(f) BY <1>2, <1>3, OrmAssumption DEF Right, OrmAssumption
<1> QED BY <1>3, <1>4 DEF f

\* A frame that only goes to another stage.
Stages == {"in", "out", "begin", "task", "end", "unwind"}
Staged(f, s, b) == [f EXCEPT !.stage = s, !.ok = b]

LEMMA StageRight ==
  ASSUME NEW f, Right(f), NEW s \in Stages, NEW b \in BOOLEAN
  PROVE  /\ Right(Staged(f, s, b))
         /\ Staged(f, s, b).method = f.method /\ Staged(f, s, b).inside = f.inside
         /\ Staged(f, s, b).stage = s /\ Staged(f, s, b).ok = b
<1> DEFINE g == Staged(f, s, b)
<1>1. f \in Invocations BY DEF Right
<1>2. g \in Invocations /\ g.seen = f.seen /\ g.method = f.method /\ g.inside = f.inside /\ g.stage = s /\ g.ok = b
  BY <1>1 DEF Invocations, Staged, Stages
<1> HIDE DEF g
<1>3. Right(g) BY <1>2 DEF Right
<1> QED BY <1>2, <1>3 DEF g

LEMMA StageOnly ==
  ASSUME NEW f, Right(f), NEW s
  PROVE  [f EXCEPT !.stage = s] = Staged(f, s, f.ok) /\ f.ok \in BOOLEAN
BY DEF Right, Invocations, Staged

\* The kinds of methods are apart.
LEMMA Apart ==
  /\ Filters!Methods \cap (Filters!Enders \cup {"DoTx", "Begin"}) = {}
  /\ Filters!Enders \cap {"DoTx", "Begin"} = {}
BY DEF Filters!Methods, Filters!Enders

LEMMA FilterInit ==
  ASSUME Filters!Init
  PROVE  FilterInv
BY DEF Filters!Init, FilterInv, FrameInv

LEMMA FilterCall ==
  ASSUME FilterInv, Filters!Call
  PROVE  FilterInv'
<1>1. PICK m \in Filters!Methods \cup {"DoTx"} :
        /\ frames' = <<Filters!Frame(m, FALSE)>> /\ tx' = "none" /\ verdict' = "none" /\ own' = FALSE /\ cut' = <<>>
        /\ UNCHANGED panicking
  BY DEF Filters!Call
<1> DEFINE f == Filters!Frame(m, FALSE)
<1>2. Right(f) /\ f.method = m /\ f.inside = FALSE /\ f.stage = "in" BY FrameRight
<1> HIDE DEF f
<1>3. Lone(f, tx', panicking', own', cut') BY <1>1, <1>2 DEF Lone
<1>4. frames' = <<f>> BY <1>1 DEF f
<1>5. FrameInv' BY <1>3, <1>4 DEF FrameInv
<1> QED BY <1>1, <1>5 DEF FilterInv

\* The frame on top goes on, and nothing else happens.
LEMMA TopMoves ==
  ASSUME FilterInv, NEW g, Filters!SetTop(g), frames # <<>>, ~panicking, UNCHANGED <<panicking, tx, verdict, own>>, Right(g),
         g.method = Filters!Top.method, g.inside = Filters!Top.inside, Filters!Top.stage = "in",
         \/ g.stage = "in" /\ cut' = cut
         \/ g.stage = "out" /\ g.method \in Filters!Methods
         \/ g.stage = "out" /\ g.method # "Begin" /\ Filters!BrokenOff
  PROVE  FilterInv'
<1>1. CASE \E f : frames = <<f>> /\ Lone(f, tx, panicking, own, cut)
  <2>1. PICK f : frames = <<f>> /\ Lone(f, tx, panicking, own, cut) BY <1>1
  <2>2. frames' = <<g>> /\ Filters!Top = f BY <2>1, StackOne DEF Filters!SetTop, Filters!Top
  <2>3. Lone(g, tx, panicking, own, cut') BY <2>1, <2>2 DEF Lone
  <2>4. FrameInv' BY <2>2, <2>3 DEF FrameInv
  <2> QED BY <2>4 DEF FilterInv
<1>2. CASE \E d, t : frames = <<d, t>> /\ Pair(d, t, tx, panicking, verdict, own, cut)
  <2>1. PICK d, t : frames = <<d, t>> /\ Pair(d, t, tx, panicking, verdict, own, cut) BY <1>2
  <2>2. frames' = <<d, g>> /\ Filters!Top = t
    <3>1. Filters!Last(frames) = t /\ Append(Filters!Front(frames), g) = <<d, g>> BY <2>1, StackTwo
    <3> QED BY <3>1, Zenon DEF Filters!SetTop, Filters!Top
  <2>3. Pair(d, g, tx, panicking, verdict, own, cut')
    <3>1. t.stage = "in" /\ g.method = t.method /\ g.inside = t.inside BY <2>2
    <3>2. g.stage \in {"in", "out"} OBVIOUS
    <3>3. CASE d.stage = "begin"
      <4>1. t.method = "Begin" /\ ~t.inside /\ tx # "open" /\ cut = <<>> BY <2>1, <3>1, <3>3 DEF Pair
      <4>2. g.stage = "in" /\ cut' = cut BY <3>1, <4>1, Apart
      <4> QED BY <2>1, <3>1, <3>3, <4>1, <4>2 DEF Pair
    <3>4. CASE d.stage = "task" BY <2>1, <3>1, <3>2, <3>4 DEF Pair
    <3>5. CASE d.stage \in {"end", "unwind"}
      <4>1. t.method \in {"Commit", "Rollback"} /\ cut = <<>> /\ (t.method = "Commit" => verdict = "nil") BY <2>1, <3>1, <3>5 DEF Pair
      <4>2. g.method \notin Filters!Methods BY <3>1, <4>1, Apart DEF Filters!Enders
      <4>3. CASE g.stage = "in" BY <2>1, <3>1, <3>5, <4>1, <4>3 DEF Pair
      <4>4. CASE g.stage = "out"
        <5>1. cut' = <<t.method, "in">> BY <2>2, <3>1, <4>1, <4>2, <4>4 DEF Filters!BrokenOff
        <5>2. cut' \in Filters!LeftOpen BY <4>1, <5>1 DEF Filters!LeftOpen
        <5> QED BY <2>1, <3>1, <3>5, <4>1, <4>4, <5>2 DEF Pair
      <4> QED BY <3>2, <4>3, <4>4
    <3> QED BY <2>1, <3>3, <3>4, <3>5 DEF Pair
  <2>4. FrameInv' BY <2>2, <2>3 DEF FrameInv
  <2> QED BY <2>4 DEF FilterInv
<1> QED BY <1>1, <1>2 DEF FilterInv, FrameInv

LEMMA TopRight ==
  ASSUME FilterInv, frames # <<>>
  PROVE  Right(Filters!Top)
<1>1. ASSUME NEW f, frames = <<f>>, Lone(f, tx, panicking, own, cut) PROVE Right(Filters!Top)
  BY <1>1, StackOne DEF Filters!Top, Lone
<1>2. ASSUME NEW d, NEW t, frames = <<d, t>>, Pair(d, t, tx, panicking, verdict, own, cut) PROVE Right(Filters!Top)
  BY <1>2, StackTwo DEF Filters!Top, Pair
<1> QED BY <1>1, <1>2 DEF FilterInv, FrameInv

LEMMA FilterEnter ==
  ASSUME FilterInv, Filters!Enter
  PROVE  FilterInv'
<1> DEFINE f == Filters!Top
           s == Append(f.seen, Filters!Root(Len(f.seen) + 1))
           g == [f EXCEPT !.seen = s]
<1>1. frames # <<>> /\ ~panicking /\ f.stage = "in" /\ Len(f.seen) < NFilters /\ UNCHANGED <<panicking, tx, verdict, own, cut>>
  BY DEF Filters!Enter, Filters!Entering
<1>2. Filters!SetTop(g) BY DEF Filters!Enter
<1>3. Right(f) BY <1>1, TopRight
<1>4. f.seen \in Seq(Nat) BY <1>3 DEF Right, Invocations
<1>5. s = Append(f.seen, Len(f.seen) + 1) BY DEF Filters!Root
<1>6. s \in Seq(Nat) /\ Len(s) <= NFilters /\ \A k \in DOMAIN s : s[k] = k
  BY <1>1, <1>3, <1>4, <1>5, OrmAssumption DEF Right, OrmAssumption
<1> HIDE DEF s
<1>7. g \in Invocations /\ g.seen = s /\ g.method = f.method /\ g.inside = f.inside /\ g.stage = f.stage
  BY <1>3, <1>6 DEF Right, Invocations
<1> HIDE DEF g
<1>8. Right(g) BY <1>6, <1>7 DEF Right
<1> QED BY <1>1, <1>2, <1>7, <1>8, TopMoves

\* An answer of a filter, or the method behind the filters.
LEMMA FilterAnswer ==
  ASSUME FilterInv, Filters!Answer \/ Filters!Execute
  PROVE  FilterInv'
<1> DEFINE f == Filters!Top
<1>1. frames # <<>> /\ ~panicking /\ f.stage = "in" /\ UNCHANGED <<panicking, tx, verdict, own>>
      /\ (f.method \in Filters!Methods \/ (f.method # "Begin" /\ Filters!BrokenOff))
  BY DEF Filters!Answer, Filters!Execute, Filters!AtEnd, Filters!Entering
<1>2. PICK ok \in BOOLEAN : Filters!SetTop([f EXCEPT !.stage = "out", !.ok = ok \/ ~Filters!CanFail(f.method)])
  BY DEF Filters!Answer, Filters!Execute
<1>3. PICK b \in BOOLEAN : b = (ok \/ ~Filters!CanFail(f.method)) OBVIOUS
<1> DEFINE g == Staged(f, "out", b)
<1>4. Filters!SetTop(g) BY <1>2, <1>3 DEF Staged
<1>5. Right(f) BY <1>1, TopRight
<1> HIDE DEF f
<1>6. Right(g) /\ g.method = f.method /\ g.inside = f.inside /\ g.stage = "out" BY <1>5, StageRight DEF Stages
<1> HIDE DEF g
<1> QED BY <1>1, <1>4, <1>6, TopMoves DEF f

\* The frame above DoTx.
LEMMA Above ==
  ASSUME FilterInv, frames # <<>>, Filters!Top.method \in Filters!Enders \cup {"Begin"}
  PROVE  \E d, t : frames = <<d, t>> /\ Filters!Top = t /\ Pair(d, t, tx, panicking, verdict, own, cut)
<1>1. ASSUME NEW f, frames = <<f>>, Lone(f, tx, panicking, own, cut) PROVE FALSE
  <2>1. Filters!Top = f BY <1>1, StackOne DEF Filters!Top
  <2>2. f.method \in Filters!Methods \cup {"DoTx"} BY <1>1 DEF Lone
  <2> QED BY <2>1, <2>2, Apart
<1>2. PICK d, t : frames = <<d, t>> /\ Pair(d, t, tx, panicking, verdict, own, cut) BY <1>1 DEF FilterInv, FrameInv
<1> QED BY <1>2, StackTwo DEF Filters!Top

LEMMA FilterBegin ==
  ASSUME FilterInv, Filters!Begin
  PROVE  FilterInv'
<1>1. frames # <<>> /\ ~panicking /\ Filters!Top.stage = "in" /\ Filters!Top.method = "Begin"
      /\ UNCHANGED <<panicking, verdict, own, cut>>
  BY DEF Filters!Begin, Filters!AtEnd, Filters!Entering
<1>2. PICK d, t : frames = <<d, t>> /\ Filters!Top = t /\ Pair(d, t, tx, panicking, verdict, own, cut) BY <1>1, Above
<1>3. PICK b \in BOOLEAN : Filters!SetTop([t EXCEPT !.stage = "out", !.ok = b]) /\ tx' = IF b THEN "open" ELSE tx
  BY <1>2 DEF Filters!Begin
<1> DEFINE g == Staged(t, "out", b)
<1>4. frames' = <<d, g>> BY <1>2, <1>3, StackTwo DEF Filters!SetTop, Staged
<1>5. Right(t) BY <1>2 DEF Pair
<1>6. Right(g) /\ g.method = t.method /\ g.inside = t.inside /\ g.stage = "out" /\ g.ok = b BY <1>5, StageRight DEF Stages
<1> HIDE DEF g
<1>7. Pair(d, g, tx', panicking, verdict, own, cut)
  <2>1. t.stage = "in" /\ t.method = "Begin" BY <1>1, <1>2
  <2>2. t.method \notin Filters!Methods \cup Filters!Enders BY <2>1, Apart
  <2>3. d.stage = "begin" /\ ~t.inside /\ tx # "open" /\ cut = <<>> BY <1>1, <1>2, <2>1, <2>2 DEF Pair
  <2>4. b <=> tx' = "open" BY <1>3, <2>3
  <2>5. tx' = "committed" => own BY <1>2, <1>3, <2>3 DEF Pair
  <2> QED BY <1>1, <1>2, <1>6, <2>1, <2>3, <2>4, <2>5 DEF Pair
<1>8. FrameInv' BY <1>1, <1>4, <1>7 DEF FrameInv
<1>9. tx' \in {"open", tx} BY <1>3
<1> QED BY <1>1, <1>8, <1>9 DEF FilterInv

\* The transaction is ended, by the task or by DoTx, or was ended before.
LEMMA FilterEnd ==
  ASSUME FilterInv, Filters!End
  PROVE  FilterInv'
<1>1. frames # <<>> /\ ~panicking /\ Filters!Top.stage = "in" /\ Filters!Top.method \in Filters!Enders
      /\ UNCHANGED <<panicking, verdict, cut>>
  BY DEF Filters!End, Filters!AtEnd, Filters!Entering
<1>2. PICK d, t : frames = <<d, t>> /\ Filters!Top = t /\ Pair(d, t, tx, panicking, verdict, own, cut) BY <1>1, Above
<1>3. PICK b \in BOOLEAN :
        /\ Filters!SetTop([t EXCEPT !.stage = "out", !.ok = b])
        /\ \/ tx = "open" /\ tx' \in {"committed", "rolled back"} /\ own' = (frames[1].stage = "task")
              /\ (tx' = "committed" => t.method = "Commit")
           \/ tx # "open" /\ UNCHANGED <<tx, own>>
  BY <1>2, Zenon DEF Filters!End
<1> DEFINE g == Staged(t, "out", b)
<1>4. frames' = <<d, g>> /\ frames[1] = d BY <1>2, <1>3, StackTwo DEF Filters!SetTop, Staged
<1>5. Right(t) BY <1>2 DEF Pair
<1>6. Right(g) /\ g.method = t.method /\ g.inside = t.inside /\ g.stage = "out" /\ g.ok = b BY <1>5, StageRight DEF Stages
<1> HIDE DEF g
<1>7. t.stage = "in" /\ t.method \in Filters!Enders /\ t.method \notin Filters!Methods /\ t.method # "Begin" BY <1>1, <1>2, Apart
<1>8. tx' # "open" /\ own' \in BOOLEAN BY <1>3 DEF FilterInv
<1>9. Pair(d, g, tx', panicking, verdict, own', cut)
  <2>1. CASE d.stage = "task"
    <3>1. tx' = "committed" => own'
      <4>1. CASE tx = "open"
        <5>1. own' = (frames[1].stage = "task") BY <1>3, <4>1
        <5>2. frames[1].stage = "task" BY <1>4, <2>1
        <5> QED BY <5>1, <5>2, Zenon
      <4>2. CASE tx # "open"
        <5>1. tx' = tx /\ own' = own BY <1>3, <4>2
        <5>2. tx = "committed" => own BY <1>2, <2>1 DEF Pair
        <5> QED BY <5>1, <5>2
      <4> QED BY <4>1, <4>2
    <3> QED BY <1>2, <1>6, <1>7, <1>8, <2>1, <3>1 DEF Pair
  <2>2. CASE d.stage \in {"end", "unwind"} BY <1>2, <1>6, <1>7, <1>8, <2>2 DEF Pair
  <2>3. d.stage # "begin" BY <1>2, <1>7 DEF Pair
  <2> QED BY <1>2, <2>1, <2>2, <2>3 DEF Pair
<1>10. FrameInv' BY <1>1, <1>4, <1>9 DEF FrameInv
<1>11. ASSUME tx' = "committed", ~own' PROVE verdict = "nil"
  <2>1. CASE tx # "open" BY <1>3, <1>11, <2>1 DEF FilterInv
  <2>2. CASE tx = "open"
    <3>1. d.stage # "task" /\ t.method = "Commit" BY <1>3, <1>4, <1>11, <2>2
    <3> QED BY <1>2, <1>7, <3>1 DEF Pair
  <2> QED BY <2>1, <2>2
<1> QED BY <1>1, <1>8, <1>10, <1>11 DEF FilterInv

LEMMA FilterStartTx ==
  ASSUME FilterInv, Filters!StartTx
  PROVE  FilterInv'
<1> DEFINE f == Filters!Top
<1>1. frames # <<>> /\ f.stage = "in" /\ f.method = "DoTx" /\ ~panicking /\ UNCHANGED <<panicking, tx, verdict, own, cut>>
      /\ frames' = Append(Filters!Front(frames), [f EXCEPT !.stage = "begin"]) \o <<Filters!Frame("Begin", f.inside)>>
  BY DEF Filters!StartTx, Filters!AtEnd, Filters!Entering
<1>2. frames = <<f>> /\ Lone(f, tx, panicking, own, cut)
  <2>1. ASSUME NEW d, NEW t, frames = <<d, t>>, Pair(d, t, tx, panicking, verdict, own, cut) PROVE FALSE
    <3>1. t.method = "DoTx" BY <1>1, <2>1, StackTwo DEF Filters!Top
    <3>2. t.method \in Filters!Methods \cup Filters!Enders \cup {"Begin"} BY <2>1 DEF Pair, Filters!Enders
    <3> QED BY <3>1, <3>2, Apart
  <2> QED BY <1>1, <2>1, StackOne DEF Filters!Top, FilterInv, FrameInv
<1> HIDE DEF f
<1> DEFINE d == Staged(f, "begin", f.ok)
           t == Filters!Frame("Begin", f.inside)
<1>4. Right(f) /\ f.inside = FALSE BY <1>2 DEF Lone, Right, Invocations
<1>3. frames' = <<d, t>>
  <2>1. frames' = Append(Filters!Front(frames), d) \o <<t>> BY <1>1, <1>4, StageOnly DEF f
  <2> HIDE DEF d, t
  <2>2. \A g, h : Append(Filters!Front(<<f>>), g) \o <<h>> = <<g, h>> BY StackOne
  <2>3. Append(Filters!Front(frames), d) \o <<t>> = <<d, t>> BY <1>2, <2>2
  <2> QED BY <2>1, <2>3
<1>5. Right(d) /\ d.method = "DoTx" /\ ~d.inside /\ d.stage = "begin"
  <2>1. f.ok \in BOOLEAN /\ f.method = "DoTx" BY <1>1, <1>4, StageOnly DEF f
  <2>2. "begin" \in Stages BY DEF Stages
  <2>3. Right(d) /\ d.method = f.method /\ d.inside = f.inside /\ d.stage = "begin" BY <1>4, <2>1, <2>2, StageRight
  <2> HIDE DEF d
  <2> QED BY <1>4, <2>1, <2>3, Zenon
<1>6. Right(t) /\ t.method = "Begin" /\ ~t.inside /\ t.stage = "in" BY <1>4, FrameRight
<1>8. f.stage = "in" BY <1>1 DEF f
<1> HIDE DEF d, t
<1>7. Pair(d, t, tx, panicking, verdict, own, cut)
  <2>1. tx # "open" /\ cut = <<>> /\ (tx = "committed" => own) BY <1>1, <1>2, <1>8 DEF Lone
  <2> QED BY <1>1, <1>5, <1>6, <2>1 DEF Pair
<1>9. FrameInv' BY <1>1, <1>3, <1>7 DEF FrameInv
<1> QED BY <1>1, <1>9 DEF FilterInv

\* A frame in its task is alone on the stack.
LEMMA Working ==
  ASSUME FilterInv, frames # <<>>, Filters!Top.stage = "task"
  PROVE  /\ frames = <<Filters!Top>> /\ Filters!Top.method = "DoTx" /\ Right(Filters!Top) /\ ~Filters!Top.inside
         /\ tx = "committed" => own
<1>1. ASSUME NEW d, NEW t, frames = <<d, t>>, Pair(d, t, tx, panicking, verdict, own, cut) PROVE FALSE
  BY <1>1, StackTwo DEF Filters!Top, Pair
<1>2. PICK f : frames = <<f>> /\ Lone(f, tx, panicking, own, cut) BY <1>1 DEF FilterInv, FrameInv
<1>3. Filters!Top = f BY <1>2, StackOne DEF Filters!Top
<1> QED BY <1>2, <1>3 DEF Lone

LEMMA FilterTaskCall ==
  ASSUME FilterInv, Filters!TaskCall
  PROVE  FilterInv'
<1>1. frames # <<>> /\ Filters!Top.stage = "task" /\ ~panicking /\ UNCHANGED <<panicking, tx, verdict, own, cut>>
  BY DEF Filters!TaskCall, Filters!InTask
<1>2. PICK m \in Filters!Methods \cup Filters!Enders : frames' = Append(frames, Filters!Frame(m, TRUE))
  BY DEF Filters!TaskCall, Filters!TxFrame
<1> DEFINE d == Filters!Top
           t == Filters!Frame(m, TRUE)
<1>3. frames = <<d>> /\ d.method = "DoTx" /\ Right(d) /\ ~d.inside /\ (tx = "committed" => own) BY <1>1, Working
<1>4. Right(t) /\ t.method = m /\ t.inside = TRUE /\ t.stage = "in" BY FrameRight
<1>5. d.stage = "task" BY <1>1
<1>6. frames' = <<d, t>>
  <2> HIDE DEF d, t
  <2>1. frames' = Append(frames, t) BY <1>2 DEF t
  <2> QED BY <1>3, <2>1, StackOne
<1> HIDE DEF d, t
<1>7. Pair(d, t, tx, panicking, verdict, own, cut) BY <1>3, <1>4, <1>5 DEF Pair
<1>8. FrameInv' BY <1>1, <1>6, <1>7 DEF FrameInv
<1> QED BY <1>1, <1>8 DEF FilterInv

\* The deferred function begins to end the transaction.
LEMMA FilterFinish ==
  ASSUME FilterInv, frames # <<>>, Filters!Top.stage = "task", NEW how \in {"nil", "error", "panic"}, Filters!Finish(how),
         panicking' = FALSE, UNCHANGED <<tx, own>>
  PROVE  FilterInv'
<1> DEFINE f == Filters!Top
           s == IF how = "panic" THEN "unwind" ELSE "end"
           m == IF how = "nil" THEN "Commit" ELSE "Rollback"
           t == Filters!Frame(m, TRUE)
<1>1. PICK b \in BOOLEAN : b = (TRUE /\ how = "nil") OBVIOUS
<1> DEFINE d == Staged(f, s, b)
<1>2. frames = <<f>> /\ f.method = "DoTx" /\ Right(f) /\ ~f.inside /\ (tx = "committed" => own) BY Working
<1>3. frames' = Append(Filters!Front(frames), d) \o <<t>> /\ verdict' = how /\ cut' = <<>>
  BY <1>1 DEF Filters!Finish, Filters!TxFrame, Staged
<1>4. s \in {"unwind", "end"} /\ s \in Stages /\ m \in {"Commit", "Rollback"} /\ (m = "Commit" => how = "nil") BY DEF Stages
<1>10. m \in Filters!Enders BY <1>4 DEF Filters!Enders
<1> HIDE DEF f, s, m
<1>5. Right(d) /\ d.method = f.method /\ d.inside = f.inside /\ d.stage = s BY <1>2, <1>4, StageRight
<1>6. Right(d) /\ d.method = "DoTx" /\ ~d.inside /\ d.stage = s BY <1>2, <1>5, Zenon
<1>7. Right(t) /\ t.method = m /\ t.inside = TRUE /\ t.stage = "in" BY <1>10, FrameRight
<1>8. frames' = <<d, t>>
  <2>1. frames' = Append(Filters!Front(frames), d) \o <<t>> BY <1>3
  <2> HIDE DEF d, t
  <2>2. \A g, h : Append(Filters!Front(<<f>>), g) \o <<h>> = <<g, h>> BY StackOne
  <2> QED BY <1>2, <2>1, <2>2
<1> HIDE DEF d, t
<1>9. Pair(d, t, tx, FALSE, how, own, <<>>) BY <1>2, <1>4, <1>6, <1>7 DEF Pair
<1>11. FrameInv' BY <1>3, <1>8, <1>9 DEF FrameInv
<1> QED BY <1>2, <1>11 DEF FilterInv

LEMMA FilterTask ==
  ASSUME FilterInv, Filters!TaskReturns \/ Filters!TaskPanics
  PROVE  FilterInv'
<1>1. CASE Filters!TaskReturns
  <2>1. PICK how \in {"nil", "error"} : Filters!Finish(how) BY <1>1 DEF Filters!TaskReturns
  <2>2. frames # <<>> /\ Filters!Top.stage = "task" /\ panicking' = FALSE /\ UNCHANGED <<tx, own>>
    BY <1>1 DEF Filters!TaskReturns, Filters!InTask, FilterInv
  <2>3. how \in {"nil", "error", "panic"} OBVIOUS
  <2> QED BY <2>1, <2>2, <2>3, FilterFinish
<1>2. CASE Filters!TaskPanics
  <2>1. frames # <<>> /\ panicking' = TRUE /\ UNCHANGED <<frames, tx, verdict, own, cut>> /\ Filters!Top.stage = "task"
    BY <1>2 DEF Filters!TaskPanics, Filters!InTask
  <2>2. frames = <<Filters!Top>> /\ Filters!Top.method = "DoTx" /\ Right(Filters!Top) /\ ~Filters!Top.inside /\ (tx = "committed" => own)
    BY <2>1, Working
  <2> DEFINE f == Filters!Top
  <2>3. Lone(f, tx, TRUE, own, cut) BY <2>1, <2>2 DEF Lone
  <2>4. frames' = <<f>> BY <2>1, <2>2
  <2> HIDE DEF f
  <2>5. FrameInv' BY <2>1, <2>3, <2>4 DEF FrameInv
  <2> QED BY <2>1, <2>5 DEF FilterInv
<1> QED BY <1>1, <1>2

\* A panic goes up.
LEMMA FilterPanic ==
  ASSUME FilterInv, Filters!Panic
  PROVE  FilterInv'
<1>1. /\ frames # <<>> /\ ~panicking /\ panicking' = TRUE /\ UNCHANGED <<frames, tx, verdict, own>>
      /\ Filters!Top.stage \in {"in", "out"} /\ Filters!BrokenOff
  BY DEF Filters!Panic
<1>2. ASSUME NEW f, frames = <<f>>, Lone(f, tx, panicking, own, cut) PROVE FrameInv'
  <2>1. Filters!Top = f BY <1>2, StackOne DEF Filters!Top
  <2>2. Lone(f, tx, TRUE, own, cut')
    <3>1. CASE f.stage = "in" BY <1>1, <1>2, <3>1 DEF Lone
    <3>2. CASE f.stage = "out"
      <4>1. tx = "open" => cut \in Filters!LeftOpen BY <1>2, <3>2 DEF Lone
      <4>2. <<>> \notin Filters!LeftOpen BY DEF Filters!LeftOpen
      <4>3. tx = "open" => cut' = cut BY <1>1, <4>1, <4>2 DEF Filters!BrokenOff
      <4> QED BY <1>1, <1>2, <3>2, <4>1, <4>3 DEF Lone
    <3> QED BY <1>1, <2>1, <3>1, <3>2
  <2> QED BY <1>1, <1>2, <2>2 DEF FrameInv
<1>3. ASSUME NEW d, NEW t, frames = <<d, t>>, Pair(d, t, tx, panicking, verdict, own, cut) PROVE FrameInv'
  <2>1. Filters!Top = t BY <1>3, StackTwo DEF Filters!Top
  <2>2. Pair(d, t, tx, TRUE, verdict, own, cut')
    <3>1. CASE d.stage = "task" BY <1>3, <3>1 DEF Pair
    <3>2. CASE d.stage = "begin"
      <4>1. t.method = "Begin" /\ cut = <<>> /\ (t.stage = "in" => tx # "open") /\ t.stage \in {"in", "out"} BY <1>1, <1>3, <3>2 DEF Pair
      <4>2. cut' = <<"Begin", t.stage>> BY <1>1, <2>1, <4>1 DEF Filters!BrokenOff
      <4>3. tx = "open" => cut' \in Filters!LeftOpen BY <4>1, <4>2 DEF Filters!LeftOpen
      <4> QED BY <1>3, <3>2, <4>1, <4>3 DEF Pair
    <3>3. CASE d.stage \in {"end", "unwind"}
      <4>1. t.method \in {"Commit", "Rollback"} /\ (t.stage = "in" => cut = <<>>) /\ t.stage \in {"in", "out"}
            /\ (t.stage = "out" /\ tx = "open" => cut \in Filters!LeftOpen)
        BY <1>1, <1>3, <3>3 DEF Pair
      <4>2. <<>> \notin Filters!LeftOpen BY DEF Filters!LeftOpen
      <4>3. t.stage = "in" => cut' \in Filters!LeftOpen BY <1>1, <2>1, <4>1 DEF Filters!BrokenOff, Filters!LeftOpen
      <4>4. t.stage = "out" /\ tx = "open" => cut' \in Filters!LeftOpen BY <1>1, <4>1, <4>2 DEF Filters!BrokenOff
      <4> QED BY <1>3, <3>3, <4>1, <4>3, <4>4 DEF Pair
    <3> QED BY <1>3, <3>1, <3>2, <3>3 DEF Pair
  <2> QED BY <1>1, <1>3, <2>2 DEF FrameInv
<1>4. FrameInv' BY <1>1, <1>2, <1>3 DEF FilterInv, FrameInv
<1> QED BY <1>1, <1>4 DEF FilterInv

LEMMA FilterUnwind ==
  ASSUME FilterInv, Filters!Unwind
  PROVE  FilterInv'
<1>1. panicking /\ frames # <<>> /\ UNCHANGED <<tx, own>> BY DEF Filters!Unwind
<1>2. CASE Filters!Top.stage = "task"
  <2>1. Filters!Finish("panic") /\ panicking' = FALSE BY <1>2 DEF Filters!Unwind
  <2> QED BY <1>1, <1>2, <2>1, FilterFinish
<1>3. CASE Filters!Top.stage # "task"
  <2>1. frames' = Filters!Front(frames) /\ UNCHANGED <<panicking, verdict, cut>> BY <1>3 DEF Filters!Unwind
  <2>2. ASSUME NEW f, frames = <<f>>, Lone(f, tx, panicking, own, cut) PROVE FrameInv'
    <3>1. Filters!Top = f BY <2>2, StackOne DEF Filters!Top
    <3>2. frames' = <<>> BY <2>1, <2>2, StackOne
    <3>3. tx = "open" => cut \in Filters!LeftOpen BY <1>3, <2>2, <3>1 DEF Lone
    <3> QED BY <1>1, <2>1, <3>2, <3>3 DEF FrameInv
  <2>3. ASSUME NEW d, NEW t, frames = <<d, t>>, Pair(d, t, tx, panicking, verdict, own, cut) PROVE FrameInv'
    <3>1. frames' = <<d>> BY <2>1, <2>3, StackTwo
    <3>2. Lone(d, tx, panicking, own, cut) BY <1>1, <2>3 DEF Pair, Lone
    <3> QED BY <1>1, <2>1, <3>1, <3>2 DEF FrameInv
  <2>4. FrameInv' BY <1>1, <2>2, <2>3 DEF FilterInv, FrameInv
  <2> QED BY <1>1, <2>1, <2>4 DEF FilterInv
<1> QED BY <1>2, <1>3

LEMMA FilterLeave ==
  ASSUME FilterInv, Filters!Leave
  PROVE  FilterInv'
<1>1. frames # <<>> /\ ~panicking /\ Filters!Top.stage = "out" /\ UNCHANGED <<tx, verdict, own, cut>> BY DEF Filters!Leave
<1>2. ASSUME NEW f, frames = <<f>>, Lone(f, tx, panicking, own, cut) PROVE FrameInv' /\ panicking' = panicking
  <2>1. Filters!Top = f /\ Filters!Front(frames) = <<>> BY <1>2, StackOne DEF Filters!Top
  <2>2. frames' = <<>> /\ panicking' = panicking BY <2>1 DEF Filters!Leave
  <2>3. tx = "open" => cut \in Filters!LeftOpen BY <1>1, <1>2, <2>1 DEF Lone
  <2> QED BY <1>1, <2>2, <2>3 DEF FrameInv
<1>3. ASSUME NEW d, NEW t, frames = <<d, t>>, Pair(d, t, tx, panicking, verdict, own, cut) PROVE FrameInv' /\ panicking' \in BOOLEAN
  <2>1. Filters!Top = t /\ Filters!Front(frames) = <<d>> /\ <<d>> # <<>> BY <1>3, StackTwo DEF Filters!Top
  <2>2. Filters!Last(<<d>>) = d /\ Filters!Front(<<d>>) = <<>> /\ \A g : Append(Filters!Front(<<d>>), g) = <<g>> BY StackOne
  <2>3. Right(d) /\ d.method = "DoTx" /\ ~d.inside BY <1>3 DEF Pair
  <2>4. t.stage = "out" BY <1>1, <2>1
  <2>10. d.stage \in {"begin", "task"} /\ tx = "committed" => own BY <1>3 DEF Pair
  <2>5. CASE d.stage = "begin" /\ t.ok
    <3> DEFINE g == [d EXCEPT !.stage = "task"]
    <3>1. frames' = <<g>> /\ panicking' = panicking BY <2>1, <2>2, <2>5 DEF Filters!Leave
    <3>5. g = Staged(d, "task", d.ok) /\ d.ok \in BOOLEAN /\ "task" \in Stages BY <2>3, StageOnly DEF Stages
    <3> HIDE DEF g
    <3>6. Right(g) /\ g.method = d.method /\ g.inside = d.inside /\ g.stage = "task" BY <2>3, <3>5, StageRight
    <3>2. Right(g) /\ g.method = "DoTx" /\ ~g.inside /\ g.stage = "task" BY <2>3, <3>6, Zenon
    <3>4. Lone(g, tx, panicking, own, cut) BY <2>5, <2>10, <3>2 DEF Lone
    <3> QED BY <1>1, <3>1, <3>4 DEF FrameInv, FilterInv
  <2>6. CASE d.stage = "begin" /\ ~t.ok
    <3> DEFINE g == Staged(d, "out", FALSE)
    <3>1. frames' = <<g>> /\ panicking' = panicking BY <2>1, <2>2, <2>6 DEF Filters!Leave, Staged
    <3>5. g = Staged(d, "out", FALSE) /\ FALSE \in BOOLEAN /\ "out" \in Stages BY DEF Stages
    <3> HIDE DEF g
    <3>6. Right(g) /\ g.method = d.method /\ g.inside = d.inside /\ g.stage = "out" BY <2>3, <3>5, StageRight
    <3>2. Right(g) /\ g.method = "DoTx" /\ ~g.inside /\ g.stage = "out" BY <2>3, <3>6, Zenon
    <3>3. tx # "open" BY <1>1, <1>3, <2>4, <2>6 DEF Pair
    <3>4. Lone(g, tx, panicking, own, cut) BY <3>2, <3>3 DEF Lone
    <3> QED BY <1>1, <3>1, <3>4 DEF FrameInv, FilterInv
  <2>7. CASE d.stage = "task"
    <3>1. frames' = <<d>> /\ panicking' = panicking BY <2>1, <2>2, <2>7 DEF Filters!Leave
    <3>2. Lone(d, tx, panicking, own, cut) BY <1>3, <2>3, <2>7, <2>10 DEF Pair, Lone
    <3> QED BY <1>1, <3>1, <3>2 DEF FrameInv, FilterInv
  <2>8. CASE d.stage = "end"
    <3> DEFINE g == [d EXCEPT !.stage = "out"]
    <3>1. frames' = <<g>> /\ panicking' = panicking BY <2>1, <2>2, <2>8 DEF Filters!Leave
    <3>5. g = Staged(d, "out", d.ok) /\ d.ok \in BOOLEAN /\ "out" \in Stages BY <2>3, StageOnly DEF Stages
    <3> HIDE DEF g
    <3>6. Right(g) /\ g.method = d.method /\ g.inside = d.inside /\ g.stage = "out" BY <2>3, <3>5, StageRight
    <3>2. Right(g) /\ g.method = "DoTx" /\ ~g.inside /\ g.stage = "out" BY <2>3, <3>6, Zenon
    <3>3. tx = "open" => cut \in Filters!LeftOpen BY <1>3, <2>4, <2>8 DEF Pair
    <3>4. Lone(g, tx, panicking, own, cut) BY <3>2, <3>3 DEF Lone
    <3> QED BY <1>1, <3>1, <3>4 DEF FrameInv, FilterInv
  <2>9. CASE d.stage = "unwind"
    <3>1. frames' = <<>> /\ panicking' = TRUE BY <2>1, <2>2, <2>9 DEF Filters!Leave
    <3>2. tx = "open" => cut \in Filters!LeftOpen BY <1>3, <2>4, <2>9 DEF Pair
    <3> QED BY <1>1, <3>1, <3>2 DEF FrameInv
  <2> QED BY <1>3, <2>5, <2>6, <2>7, <2>8, <2>9 DEF Pair
<1>4. FrameInv' /\ panicking' \in BOOLEAN BY <1>1, <1>2, <1>3 DEF FilterInv, FrameInv
<1> QED BY <1>1, <1>4 DEF FilterInv

LEMMA FilterRecovered ==
  ASSUME FilterInv, Filters!Recovered
  PROVE  FilterInv'
<1>1. frames = <<>> /\ panicking' = FALSE /\ UNCHANGED <<frames, tx, verdict, own, cut>> BY DEF Filters!Recovered
<1>2. tx = "open" => cut \in Filters!LeftOpen
  <2>1. \A f : frames # <<f>> BY <1>1
  <2>2. \A d, t : frames # <<d, t>> BY <1>1
  <2> QED BY <2>1, <2>2 DEF FilterInv, FrameInv
<1> QED BY <1>1, <1>2 DEF FilterInv, FrameInv

LEMMA FilterRight ==
  ASSUME FilterInv
  PROVE  Filters!TxSound
<1>1. Filters!TxEnded
  <2>1. frames = <<>> /\ tx = "open" => cut \in Filters!LeftOpen
    <3>1. ASSUME frames = <<>> PROVE (\A f : frames # <<f>>) /\ (\A d, t : frames # <<d, t>>) BY <3>1
    <3> QED BY <3>1 DEF FilterInv, FrameInv
  <2> QED BY <2>1 DEF Filters!TxEnded, FilterInv
<1>3. Filters!FilterOrder
  <2> SUFFICES ASSUME NEW i \in DOMAIN frames PROVE frames[i].seen = [k \in DOMAIN frames[i].seen |-> k]
    BY DEF Filters!FilterOrder
  <2>1. Right(frames[i])
    <3>1. ASSUME NEW f, frames = <<f>>, Lone(f, tx, panicking, own, cut) PROVE Right(frames[i]) BY <3>1 DEF Lone
    <3>2. ASSUME NEW d, NEW t, frames = <<d, t>>, Pair(d, t, tx, panicking, verdict, own, cut) PROVE Right(frames[i]) BY <3>2 DEF Pair
    <3> QED BY <3>1, <3>2 DEF FilterInv, FrameInv
  <2> DEFINE s == frames[i].seen
  <2>2. s \in Seq(Nat) /\ \A k \in DOMAIN s : s[k] = k BY <2>1 DEF Right, Invocations
  <2> HIDE DEF s
  <2>3. s = [k \in DOMAIN s |-> k] BY <2>2
  <2> QED BY <2>3 DEF s
<1> QED BY <1>1, <1>3 DEF Filters!TxSound

\* A transaction of DoTx is ended unless a filter broke off Begin, Commit or
\* Rollback itself, DoTx commits it only if its task returned nil, and whatever is
\* called goes through the filters in their order, for any number of filters and
\* calls (filter_orm_decorator.go, orm.go doTxTemplate).
THEOREM TxSafety == OrmSpec => []TxSound
<1> DEFINE I == which = "filter" => FilterInv
<1>1. OrmInit => I BY FilterInit DEF OrmInit
<1>2. I /\ [OrmNext]_ormVars => I'
  <2> SUFFICES ASSUME I, [OrmNext]_ormVars, which' = "filter" PROVE FilterInv' OBVIOUS
  <2>1. CASE which = "filter" /\ Filters!Next
    BY <2>1, FilterCall, FilterEnter, FilterAnswer, FilterBegin, FilterEnd, FilterStartTx, FilterTaskCall, FilterTask,
       FilterPanic, FilterUnwind, FilterLeave, FilterRecovered DEF Filters!Next
  <2>2. CASE UNCHANGED filterVars /\ which = "filter" BY <2>2 DEF filterVars, FilterInv, FrameInv
  <2>3. which' = which BY DEF OrmNext, ormVars
  <2>4. (which = "filter" /\ Filters!Next) \/ UNCHANGED filterVars BY DEF OrmNext, ormVars
  <2> QED BY <2>1, <2>2, <2>3, <2>4
<1>3. I => TxSound BY FilterRight DEF TxSound
<1> QED BY <1>1, <1>2, <1>3, PTL DEF OrmSpec
=============================================================================
