--------------------------- MODULE Administration ---------------------------
(***************************************************************************)
(* DBCC, BACKUP and RESTORE, the resource governor, availability groups.   *)
(***************************************************************************)
EXTENDS TableDefinitions, WordRows

(* DBCC command [( [expr {, expr}] )] [WITH option {, option}].  An empty   *)
(* list is left on its closing parenthesis, and a second one is missed.    *)
parseDbccStatement ==
    \/ /\ At("parseDbccStatement")
       /\ IF Tok(pos + 2) = "LPAREN" THEN Continue(3, "parseDbccStatement.Argument", <<>>)
                                     ELSE Continue(1, "parseDbccStatement.With", <<>>)
    \/ /\ At("parseDbccStatement.Argument")
       /\ IF Cur \in {"RPAREN", "EOF"} THEN Expect("RPAREN", 0, "parseDbccStatement.With", Top.kids)
          ELSE CallExpression(0, "parseDbccStatement.Arguments", Top.kids, LOWEST)
    \/ /\ At("parseDbccStatement.Arguments")
       /\ IF Peek = "COMMA" THEN Continue(2, "parseDbccStatement.Argument", Got)
                            ELSE Expect("RPAREN", 0, "parseDbccStatement.With", Got)
    \/ /\ At("parseDbccStatement.With")
       /\ IF Peek = "WITH" THEN Continue(2, "parseDbccStatement.Option", Top.kids)
                           ELSE ReturnNew("Dbcc", Top.at, Top.kids, 0)
    \/ /\ At("parseDbccStatement.Option")
       /\ IF Cur \notin {"SEMICOLON", "EOF", "GO"} /\ Peek = "COMMA"
          THEN Continue(2, "parseDbccStatement.Option", Top.kids)
          ELSE ReturnNew("Dbcc", Top.at, Top.kids, 0)
-----------------------------------------------------------------------------
(* {FILE | FILEGROUP | PAGE [= value] [,]}, words that are no keywords, in  *)
(* front of the locations.                                                 *)
FileClausePast(i) == Row(i + 1, <<OptNamed("EQ"), Opt("COMMA")>>)
Files(here, next) ==
    \/ At(here) /\ Cur = "IDENT" /\ Continue(FileClausePast(pos) - pos, here, <<>>)
    \/ At(here) /\ Continue(0, next, <<>>)

(* type [=] [text] {, type [=] [text]}                                      *)
BackupLocation(i)       == Row(i, <<Anything, Opt("EQ"), OptText>>)
parseBackupLocations(i) == ListPast(i, {}, BackupLocation)

(* MOVE text TO text | name [= value | ( ... )]: the time of a STOPAT must  *)
(* follow =, what is in parentheses is left to the caller.                 *)
OptionEnds ==
    LET text == Row(pos + 1, <<OptText>>)
        to   == Row(text + 1, <<OptText>>)
    IN  CASE Cur = "MOVE" -> {IF text > pos + 1 /\ Tok(text) = "TO" THEN to ELSE text}
          [] Cur # "MOVE" /\ Peek = "EQ"     -> {pos + 3}
          [] Cur # "MOVE" /\ Peek = "LPAREN" ->
               {Closing(pos + 1) + 1} \cup IF Cur \in Texts THEN {pos + 1} ELSE {}
          [] OTHER -> {pos + 1}
parseBackupOptions(here, kind) ==
    /\ At(here)
    /\ \E end \in OptionEnds :
          IF Tok(end) = "COMMA" THEN Continue(end + 1 - pos, here, <<>>) ELSE ReturnAt(kind, end)
MediaOptions(here, options, kind) ==   \* [WITH option {, option}]
    \/ /\ At(here)
       /\ IF Cur = "WITH" THEN Continue(1, options, <<>>) ELSE ReturnAt(kind, pos)
    \/ parseBackupOptions(options, kind)

(* BACKUP type name {FILE ...} [TO locations] {MIRROR [TO locations]} [WITH ...] *)
parseBackupStatement ==
    LET to     == "parseBackupStatement.To"
        mirror == "parseBackupStatement.Mirror"
    IN  \/ At("parseBackupStatement") /\ Continue(3, "parseBackupStatement.Files", <<>>)
        \/ Files("parseBackupStatement.Files", to)
        \/ /\ At(to)
           /\ Continue(IF Cur = "TO" THEN parseBackupLocations(pos + 1) - pos ELSE 0, mirror, <<>>)
        \/ /\ At(mirror) /\ Cur = "IDENT"
           /\ Continue(IF Peek = "TO" THEN parseBackupLocations(pos + 2) - pos ELSE 1, mirror, <<>>)
        \/ MediaOptions(mirror, "parseBackupStatement.Options", "Backup")

(* RESTORE type [name] {FILE ...} [FROM locations] [WITH ...]               *)
RestoredName ==
    CASE Peek \in {"DATABASE", "LOG"}             -> 3
      [] Peek \in {"FILELISTONLY", "HEADERONLY"} -> 2
      [] OTHER -> IF Tok(pos + 2) \in {"FROM", "WITH"} THEN 2 ELSE 3
parseRestoreStatement ==
    LET from == "parseRestoreStatement.From" IN
    \/ At("parseRestoreStatement") /\ Continue(RestoredName, "parseRestoreStatement.Files", <<>>)
    \/ Files("parseRestoreStatement.Files", from)
    \/ /\ At(from)
       /\ Continue(IF Cur = "FROM" THEN parseBackupLocations(pos + 1) - pos ELSE 0,
                   "parseRestoreStatement.With", <<>>)
    \/ MediaOptions("parseRestoreStatement.With", "parseRestoreStatement.Options", "Restore")
-----------------------------------------------------------------------------
(* RESOURCE POOL name [WITH ( pairs )] and WORKLOAD GROUP name [WITH        *)
(* ( pairs )] [USING pool], created or altered.                            *)
Pool(here, kind) == At(here) /\ ReturnAt(kind, PairsPast(Row(pos, <<Anything, Opt("POOL"), Anything>>)))
parseCreateResourcePoolStatement == Pool("parseCreateResourcePoolStatement", "CreateResourcePool")
parseAlterResourcePoolStatement  ==
    At("parseAlterResourcePoolStatement") /\ ReturnAt("AlterResourcePool", PairsPast(pos + 2))
Workload(here, kind) ==
    /\ At(here)
    /\ ReturnAt(kind, Row(PairsPast(Row(pos, <<Anything, Opt("GROUP"), Anything>>)), <<OptNamed("USING")>>))
parseCreateWorkloadGroupStatement == Workload("parseCreateWorkloadGroupStatement", "CreateWorkloadGroup")
parseAlterWorkloadGroupStatement  == Workload("parseAlterWorkloadGroupStatement", "AlterWorkloadGroup")

parseAlterResourceStatement ==
    /\ At("parseAlterResourceStatement")
    /\ CASE Peek = "POOL"     -> HandOn(1, "parseAlterResourcePoolStatement")
         [] Peek = "GOVERNOR" -> HandOn(1, "parseAlterResourceGovernorStatement")
         [] OTHER             -> ReturnNil(1)

(* RESOURCE GOVERNOR RECONFIGURE | DISABLE | RESET STATISTICS | WITH (      *)
(* CLASSIFIER_FUNCTION = name | NULL ), where RESET and CLASSIFIER_FUNCTION *)
(* are no keywords.                                                        *)
ClassifierEnds ==
    LET name(i)  == LET j == Row(i, <<Opt("EQ")>>) IN IF Tok(j) = "NULL" THEN j ELSE ListEnd(j, "DOT")
        start    == IF Tok(pos + 3) = "CLASSIFIER" THEN {pos + 4}
                    ELSE {pos + 3} \cup IF Tok(pos + 3) \in Texts THEN {pos + 4} ELSE {}
    IN  {Row(name(i) + 1, <<Opt("RPAREN")>>) : i \in start}
GovernorEnds ==
    CASE Peek \in {"RECONFIGURE", "DISABLE"} -> {pos + 2}
      [] Peek \in Texts -> {pos + 1, Row(pos + 2, <<Opt("STATISTICS")>>)}
      [] Peek = "WITH"  -> IF Tok(pos + 2) = "LPAREN" THEN ClassifierEnds ELSE {pos + 2}
      [] OTHER          -> {pos + 1}
parseAlterResourceGovernorStatement ==
    /\ At("parseAlterResourceGovernorStatement")
    /\ \E end \in GovernorEnds : ReturnAt("AlterResourceGovernor", end)

(* RESOURCE POOL name, WORKLOAD GROUP name and AVAILABILITY GROUP name      *)
DropsNamed(here, word) ==
    At(here) /\ ReturnAt("DropNamed", Row(pos, <<Anything, Opt(word), Anything>>))
parseDropResourcePoolStatement      == DropsNamed("parseDropResourcePoolStatement", "POOL")
parseDropWorkloadGroupStatement     == DropsNamed("parseDropWorkloadGroupStatement", "GROUP")
parseDropAvailabilityGroupStatement == DropsNamed("parseDropAvailabilityGroupStatement", "GROUP")
-----------------------------------------------------------------------------
(* AVAILABILITY GROUP name [FOR [DATABASE names]] {REPLICA [ON] server      *)
(* [WITH ( pairs )] [,]}                                                    *)
DatabasesPast(i) == IF Tok(i) = "DATABASE" THEN NamesPast(i + 1) ELSE i
parseCreateAvailabilityGroupStatement ==
    LET replica == "parseCreateAvailabilityGroupStatement.Replica" IN
    \/ /\ At("parseCreateAvailabilityGroupStatement")
       /\ LET name == Row(pos, <<Anything, Opt("GROUP"), Anything>>) IN
          Continue((IF Tok(name) = "FOR" THEN DatabasesPast(name + 1) ELSE name) - pos, replica, <<>>)
    \/ /\ At(replica)
       /\ LET pairs == PairsPast(Row(pos + 1, <<Opt("ON"), Anything>>)) IN
          IF Cur = "REPLICA" THEN Continue(Row(pairs, <<Opt("COMMA")>>) - pos, replica, <<>>)
                             ELSE ReturnAt("CreateAvailabilityGroup", pos)

(* AVAILABILITY GROUP name ADD | REMOVE {DATABASE names | REPLICA} | action; *)
(* REMOVE is no keyword.                                                   *)
parseAlterAvailabilityGroupStatement ==
    /\ At("parseAlterAvailabilityGroupStatement")
    /\ LET i       == Row(pos, <<Anything, Opt("GROUP"), Anything>>)
           changed == IF Tok(i + 1) = "REPLICA" THEN i + 2 ELSE DatabasesPast(i + 1)
       IN  \E end \in CASE Tok(i) = "ADD"   -> {changed}
                        [] Tok(i) \in Texts -> {changed, i + 1}
                        [] OTHER            -> {i + 1} :
              ReturnAt("AlterAvailabilityGroup", end)

AdministrationStep ==
    \/ parseDbccStatement \/ parseBackupStatement \/ parseRestoreStatement
    \/ parseCreateResourcePoolStatement \/ parseAlterResourcePoolStatement
    \/ parseCreateWorkloadGroupStatement \/ parseAlterWorkloadGroupStatement
    \/ parseAlterResourceStatement \/ parseAlterResourceGovernorStatement
    \/ parseDropResourcePoolStatement \/ parseDropWorkloadGroupStatement \/ parseDropAvailabilityGroupStatement
    \/ parseCreateAvailabilityGroupStatement \/ parseAlterAvailabilityGroupStatement
=============================================================================
