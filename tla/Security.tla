------------------------------ MODULE Security ------------------------------
(***************************************************************************)
(* Logins, users, roles, credentials, keys, certificates and assemblies.   *)
(* The cursor is on the word that names the object when a function begins. *)
(***************************************************************************)
EXTENDS TableDefinitions, WordRows

Batch == {"SEMICOLON", "GO"}

(* LOGIN name [FROM WINDOWS [WITH options] | FROM CERTIFICATE name | WITH   *)
(* options], where words such as MUST_CHANGE may follow a value.           *)
LoginSource ==
    LET i == pos + 2 IN
    CASE Tok(i) = "FROM" /\ Tok(i + 1) = "WINDOWS" -> i + 2
      [] Tok(i) = "FROM" /\ Tok(i + 1) \in {"CERTIFICATE", "IDENT"} -> Row(i + 2, <<Opt("IDENT")>>)
      [] Tok(i) = "FROM" /\ Tok(i + 1) \notin {"WINDOWS", "CERTIFICATE", "IDENT"} -> i + 1
      [] OTHER -> i
TakesOptions == Tok(LoginSource) = "WITH" /\ (Tok(pos + 2) = "FROM" => Tok(pos + 3) = "WINDOWS")
parseCreateLoginStatement ==
    /\ At("parseCreateLoginStatement")
    /\ IF TakesOptions THEN Continue(LoginSource + 1 - pos, "parseLoginOptions", <<>>)
                       ELSE ReturnAt("CreateLogin", LoginSource)
NextLoginOption(kind, here) ==
    IF Cur = "COMMA" THEN Continue(1, here, <<>>) ELSE ReturnAt(kind, pos)
parseLoginOptions ==
    \/ /\ At("parseLoginOptions")
       /\ IF Cur \in Batch \cup {"EOF"} THEN ReturnAt("CreateLogin", pos)
          ELSE Continue(IF Peek = "EQ" THEN 3 ELSE 1,
                        IF Peek = "EQ" THEN "parseLoginOptions.Modifiers" ELSE "parseLoginOptions.Next", <<>>)
    \/ At("parseLoginOptions.Modifiers") /\ Cur = "IDENT" /\ Continue(1, "parseLoginOptions.Modifiers", <<>>)
    \/ At("parseLoginOptions.Modifiers") /\ NextLoginOption("CreateLogin", "parseLoginOptions")
    \/ At("parseLoginOptions.Next") /\ NextLoginOption("CreateLogin", "parseLoginOptions")

(* LOGIN name [ENABLE | DISABLE | WITH {NO CREDENTIAL | option}], where     *)
(* OLD_PASSWORD = value may follow a value without a comma.                *)
parseAlterLoginStatement ==
    LET here == "parseAlterLoginStatement.Option" IN
    \/ /\ At("parseAlterLoginStatement")
       /\ IF Tok(pos + 2) = "WITH" THEN Continue(3, here, <<>>)
          ELSE ReturnAt("AlterLogin", Row(pos, <<Anything, Anything, OneOf({"ENABLE", "DISABLE"})>>))
    \/ At(here) /\ Cur \in Batch \cup {"EOF"} /\ ReturnAt("AlterLogin", pos)
    \/ At(here) /\ Cur \in Texts /\ \E k \in {1, IF Peek \in Texts THEN 2 ELSE 1} : Continue(k, here, <<>>)
    \/ /\ At(here) /\ Cur \notin Batch \cup {"EOF"}
       /\ Continue(IF Peek = "EQ" THEN 3 ELSE 1,
                   IF Peek = "EQ" THEN "parseAlterLoginStatement.Modifiers" ELSE "parseAlterLoginStatement.Next", <<>>)
    \/ /\ At("parseAlterLoginStatement.Modifiers") /\ Cur = "IDENT"
       /\ Continue(IF Peek = "EQ" THEN 3 ELSE 1, "parseAlterLoginStatement.Modifiers", <<>>)
    \/ At("parseAlterLoginStatement.Modifiers") /\ NextLoginOption("AlterLogin", here)
    \/ At("parseAlterLoginStatement.Next") /\ NextLoginOption("AlterLogin", here)

(* object name [WITH option {, option}]                                    *)
NamedWithOptions(here, kind, stops) ==
    /\ At(here)
    /\ ReturnAt(kind, IF Tok(pos + 2) = "WITH" THEN OptionsPast(pos + 3, stops) ELSE pos + 2)
parseAlterUserStatement == NamedWithOptions("parseAlterUserStatement", "AlterUser", {"SEMICOLON"})
parseCreateApplicationRoleStatement ==
    NamedWithOptions("parseCreateApplicationRoleStatement", "CreateApplicationRole", Batch)
parseAlterApplicationRoleStatement ==
    NamedWithOptions("parseAlterApplicationRoleStatement", "AlterApplicationRole", Batch)
parseCreateCredentialStatement == NamedWithOptions("parseCreateCredentialStatement", "CreateCredential", Batch)
parseCreateDatabaseScopedCredentialStatement ==
    NamedWithOptions("parseCreateDatabaseScopedCredentialStatement", "CreateScopedCredential", Batch)

(* USER name [FOR LOGIN name] [WITHOUT LOGIN] [WITH options]               *)
parseCreateUserStatement ==
    /\ At("parseCreateUserStatement")
    /\ LET login   == IF Tok(pos + 2) = "FOR" THEN Row(pos + 3, <<OptNamed("LOGIN")>>) ELSE pos + 2
           without == IF Tok(login) = "WITHOUT" THEN Row(login + 1, <<Opt("LOGIN")>>) ELSE login
       IN  ReturnAt("CreateUser", IF Tok(without) = "WITH" THEN OptionsPast(without + 1, {"SEMICOLON"}) ELSE without)

(* ROLE name [AUTHORIZATION name], also of a server                        *)
CreatesRole(here) == At(here) /\ ReturnAt("CreateRole", Row(pos, <<Anything, Anything, OptNamed("AUTHORIZATION")>>))
parseCreateRoleStatement       == CreatesRole("parseCreateRoleStatement")
parseCreateServerRoleStatement == CreatesRole("parseCreateServerRoleStatement")

(* ROLE name ADD | DROP MEMBER name | WITH NAME = name                     *)
AltersRole(here) ==
    /\ At(here)
    /\ LET i == pos + 2 IN
       CASE Tok(i) \in {"ADD", "DROP"} -> ReturnAt("AlterRole", Row(i + 1, <<OptNamed("MEMBER")>>))
         [] Tok(i) = "WITH" -> \E k \in {1, IF Tok(i + 1) \in Texts /\ Tok(i + 2) = "EQ" THEN 4 ELSE 1} :
                                  ReturnAt("AlterRole", i + k)
         [] OTHER -> ReturnAt("AlterRole", i)
parseAlterRoleStatement       == AltersRole("parseAlterRoleStatement")
parseAlterServerRoleStatement == AltersRole("parseAlterServerRoleStatement")

(* DATABASE SCOPED CREDENTIAL ...; any other CREATE DATABASE is skipped.   *)
parseCreateDatabaseOrScopedCredential ==
    /\ At("parseCreateDatabaseOrScopedCredential")
    /\ \/ ReturnNil(FirstIn(pos + 1, Batch) - pos)
       \/ /\ Peek = "IDENT" /\ Tok(pos + 2) = "IDENT"
          /\ HandOn(2, "parseCreateDatabaseScopedCredentialStatement")
-----------------------------------------------------------------------------
(* FILE [=] text, which begins with a name.                                *)
FilePast(i)      == {i} \cup IF Tok(i) \in Texts THEN {Row(i + 1, <<Opt("EQ"), OptText>>)} ELSE {}
AlgorithmPast(i) == IF Tok(i) = "ALGORITHM" THEN Row(i + 1, <<Opt("EQ"), Anything>>) ELSE i

parseCreateMasterKeyStatement ==       \* MASTER KEY ENCRYPTION BY PASSWORD = text
    /\ At("parseCreateMasterKeyStatement")
    /\ ReturnAt("CreateMasterKey", Row(pos, <<Anything, Opt("KEY"), Opt("ENCRYPTION"), Opt("BY"), Opt("PASSWORD"),
                                              Opt("EQ"), OptText>>))

(* CERTIFICATE name {FROM FILE = text} [WITH options]                      *)
parseCreateCertificateStatement ==
    LET here == "parseCreateCertificateStatement.Clause" IN
    \/ At("parseCreateCertificateStatement") /\ Continue(2, here, <<>>)
    \/ At(here) /\ Cur = "FROM" /\ \E past \in FilePast(pos + 1) : Continue(past - pos, here, <<>>)
    \/ At(here) /\ Cur = "WITH" /\ ReturnAt("CreateCertificate", OptionsPast(pos + 1, {"SEMICOLON"}))
    \/ At(here) /\ Cur \notin {"FROM", "WITH"} /\ ReturnAt("CreateCertificate", pos)

(* SYMMETRIC KEY name {WITH ALGORITHM = name | ENCRYPTION BY protection}    *)
parseCreateSymmetricKeyStatement ==
    LET here == "parseCreateSymmetricKeyStatement.Clause" IN
    \/ /\ At("parseCreateSymmetricKeyStatement")
       /\ Continue(Row(pos, <<Anything, Opt("KEY"), Anything>>) - pos, here, <<>>)
    \/ At(here) /\ Cur = "WITH" /\ Continue(AlgorithmPast(pos + 1) - pos, here, <<>>)
    \/ /\ At(here) /\ Cur = "ENCRYPTION"
       /\ Continue((IF Peek = "BY" THEN ProtectionPast(pos + 2) ELSE pos + 1) - pos, here, <<>>)
    \/ At(here) /\ Cur \notin {"WITH", "ENCRYPTION"} /\ ReturnAt("CreateSymmetricKey", pos)

(* ASYMMETRIC KEY name {FROM FILE = text | FROM ASSEMBLY name | WITH ...}   *)
parseCreateAsymmetricKeyStatement ==
    LET here == "parseCreateAsymmetricKeyStatement.Clause" IN
    \/ /\ At("parseCreateAsymmetricKeyStatement")
       /\ Continue(Row(pos, <<Anything, Opt("KEY"), Anything>>) - pos, here, <<>>)
    \/ At(here) /\ Cur = "WITH" /\ Continue(AlgorithmPast(pos + 1) - pos, here, <<>>)
    \/ /\ At(here) /\ Cur = "FROM"
       /\ \E past \in IF Peek = "ASSEMBLY" THEN {pos + 3} ELSE FilePast(pos + 1) : Continue(past - pos, here, <<>>)
    \/ At(here) /\ Cur \notin {"WITH", "FROM"} /\ ReturnAt("CreateAsymmetricKey", pos)

(* ASSEMBLY name [FROM path] [WITH PERMISSION_SET = name], created or altered *)
Assembles(here, kind) ==
    /\ At(here)
    /\ LET from == Row(pos, <<Anything, Anything, OptNamed("FROM")>>)
           set  == IF Tok(from + 1) = "PERMISSION_SET" THEN Row(from + 2, <<Opt("EQ"), Anything>>) ELSE from + 1
       IN  ReturnAt(kind, IF Tok(from) = "WITH" THEN set ELSE from)
parseCreateAssemblyStatement == Assembles("parseCreateAssemblyStatement", "CreateAssembly")
parseAlterAssemblyStatement  == Assembles("parseAlterAssemblyStatement", "AlterAssembly")

(* SYMMETRIC | ASYMMETRIC | MASTER KEY [IF EXISTS] [name]: the cursor is on *)
(* the name, or behind a MASTER KEY, which has none.                       *)
parseDropKeyStatement ==
    /\ At("parseDropKeyStatement")
    /\ LET name == AfterIfExists(Row(pos, <<Anything, Opt("KEY")>>)) IN
       ReturnAt("DropObject", IF Cur = "MASTER" THEN name ELSE ListEnd(name, "DOT"))

SecurityStep ==
    \/ parseCreateLoginStatement \/ parseLoginOptions \/ parseAlterLoginStatement
    \/ parseCreateUserStatement \/ parseAlterUserStatement
    \/ parseCreateRoleStatement \/ parseAlterRoleStatement
    \/ parseCreateServerRoleStatement \/ parseAlterServerRoleStatement
    \/ parseCreateApplicationRoleStatement \/ parseAlterApplicationRoleStatement
    \/ parseCreateCredentialStatement \/ parseCreateDatabaseScopedCredentialStatement
    \/ parseCreateDatabaseOrScopedCredential
    \/ parseCreateMasterKeyStatement \/ parseCreateCertificateStatement
    \/ parseCreateSymmetricKeyStatement \/ parseCreateAsymmetricKeyStatement \/ parseDropKeyStatement
    \/ parseCreateAssemblyStatement \/ parseAlterAssemblyStatement
=============================================================================
