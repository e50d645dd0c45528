-------------------------------- MODULE Points --------------------------------
(***************************************************************************)
(* The resume points of all the parse functions and the kinds of the nodes *)
(* they build, for the type invariant: a resume point that no function has *)
(* would stop the machine.                                                 *)
(***************************************************************************)

(* The points at which a function goes on with what a call has returned.   *)
TakesResult ==
    {"ParseProgram.Statement", "ResultSet.DataType", "parseAllExpression.Subquery",
     "parseAlterFunctionStatement.Parameters", "parseAlterPartitionFunctionStatement.Value",
     "parseAlterProcedureStatement.Statement", "parseAlterSequenceStatement.Number",
     "parseAlterTableAction.Added", "parseAlterTableAction.Column",
     "parseAlterTableStatement.Next", "parseAlterViewStatement.End",
     "parseAtTimeZoneExpression.TimeZone", "parseBeginEndBlock.Statement",
     "parseBetweenExpression.High", "parseBetweenExpression.Low", "parseCTEDef.Close",
     "parseCallExpression.Arguments", "parseCallExpression.Clause",
     "parseCallExpression.WithinGroup", "parseCaseExpression.Condition",
     "parseCaseExpression.Else", "parseCaseExpression.Operand", "parseCaseExpression.Result",
     "parseCastExpression.Expression", "parseCastExpression.TargetType",
     "parseColumnDefinition.Constraint", "parseColumnDefinition.DataType",
     "parseColumnDefinition.Default", "parseColumnDefinition.Expression",
     "parseColumnDefinition.Parenthesis", "parseContainsExpression.SearchTerm",
     "parseContainsTableExpression.SearchTerm", "parseConvertExpression.Expression",
     "parseConvertExpression.Style", "parseConvertExpression.TargetType",
     "parseCreateDefaultStatement.Value", "parseCreateFunctionStatement.Body",
     "parseCreateFunctionStatement.Parameters", "parseCreateFunctionStatement.Type",
     "parseCreateIndexStatement.Where", "parseCreatePartitionFunctionStatement.Type",
     "parseCreatePartitionFunctionStatement.Values", "parseCreateProcedureStatement.Block",
     "parseCreateProcedureStatement.Parameters", "parseCreateProcedureStatement.Statement",
     "parseCreateProcedureStatement.Transaction", "parseCreateRuleStatement.Condition",
     "parseCreateSequenceStatement.Number", "parseCreateTableStatement.Next",
     "parseCreateTriggerStatement.Body", "parseCreateTypeStatement.BaseType",
     "parseCreateViewStatement.Check", "parseCreateXmlSchemaCollectionStatement.Text",
     "parseCube.Next", "parseCursorExpression.ForSelect", "parseDbccStatement.Arguments",
     "parseDeclareCursorStatement.ForSelect", "parseDeclareStatement.Variable",
     "parseDeleteStatement.Alias", "parseDeleteStatement.End", "parseDeleteStatement.From",
     "parseDeleteStatement.Hints", "parseDeleteStatement.Output", "parseDeleteStatement.Target",
     "parseDeleteStatement.Where", "parseDistinctFromExpression.Right",
     "parseDotExpression.Arguments", "parseExecParameter.Value", "parseExecStatement.DynamicSQL",
     "parseExecStatement.End", "parseExecStatement.Parameter", "parseExecStatement.ResultSets",
     "parseExistsExpression.Subquery", "parseExpression.Left", "parseExpressionList.Key",
     "parseExpressionList.Value", "parseExpressionStatement.Expression",
     "parseFetchStatement.Offset", "parseFrameBound.Offset",
     "parseFreetextExpression.SearchTerm", "parseFreetextTableExpression.SearchTerm",
     "parseFromClause.Table", "parseGroupByItems.Item", "parseGroupedExpression.Exp",
     "parseGroupedExpression.Subquery", "parseGroupingSet.Element", "parseGroupingSet.Single",
     "parseGroupingSets.Next", "parseIfStatement.Alternative", "parseIfStatement.Condition",
     "parseIfStatement.Consequence", "parseInExpression.Subquery", "parseInExpression.Value",
     "parseInfixExpression.Right", "parseInlineCheckConstraint.Condition",
     "parseInsertStatement.Close", "parseInsertStatement.Columns", "parseInsertStatement.End",
     "parseInsertStatement.Hints", "parseInsertStatement.Source", "parseInsertStatement.Top",
     "parseJoinClause.Apply", "parseJoinClause.Condition", "parseJoinClause.Right",
     "parseLikeExpression.Escape", "parseLikeExpression.Pattern", "parseMergeStatement.Clause",
     "parseMergeStatement.Condition", "parseMergeStatement.Derived", "parseMergeStatement.End",
     "parseMergeStatement.Rows", "parseMergeWhenClause.End", "parseMergeWhenClause.Then",
     "parseNextValueForCompound.Over", "parseOpenJsonColumns.Type", "parseOptionClause.Number",
     "parseOptionClause.Value", "parseOptionClause.Valued", "parseOrderByItems.Item",
     "parseOutputClause.Column", "parseOutputColumn.Expression", "parseOverClause.Framed",
     "parseOverClause.Ordered", "parseOverClause.Partition", "parseParameterDef.DataType",
     "parseParameterDef.Output", "parseParameterDefs.Next",
     "parseParenthesizedSelectStatement.Inner", "parseParenthesizedSelectStatement.Right",
     "parseParseExpression.Culture", "parseParseExpression.Expression",
     "parseParseExpression.TargetType", "parsePivotTable.Column", "parsePrefixExpression.Right",
     "parsePrintStatement.Expression", "parseRaiserrorStatement.Args",
     "parseRaiserrorStatement.Message", "parseRaiserrorStatement.Severity",
     "parseReceiveStatement.Top", "parseResultSets.Set", "parseReturnStatement.Value",
     "parseRevertStatement.Cookie", "parseRollup.Next", "parseScopeExpression.Arguments",
     "parseSelectColumn.Expression", "parseSelectColumn.Value", "parseSelectColumns.Column",
     "parseSelectStatement.Columns", "parseSelectStatement.End", "parseSelectStatement.From",
     "parseSelectStatement.Group", "parseSelectStatement.Having", "parseSelectStatement.Offset",
     "parseSelectStatement.Only", "parseSelectStatement.Option", "parseSelectStatement.Order",
     "parseSelectStatement.Rows", "parseSelectStatement.Union", "parseSelectStatement.Where",
     "parseSelectStatement.Window", "parseSendOnConversationStatement.Body",
     "parseSetClause.Argument", "parseSetClause.Value", "parseSetClauses.Clause",
     "parseSetStatement.Method", "parseSetStatement.Number", "parseSetStatement.Value",
     "parseSetStatement.Variable", "parseStatement.Select", "parseSubqueryExpression.Select",
     "parseTableConstraint.Condition", "parseTableConstraint.Default",
     "parseTableConstraint.End", "parseTableConstraint.Options",
     "parseTableConstraint.Parenthesis", "parseTableConstraint.References",
     "parseTableReference.Argument", "parseTableReference.Columns",
     "parseTableReference.Derived", "parseTableReference.Group", "parseTableReference.Hinted",
     "parseTableReference.HintedAgain", "parseTableReference.Rows",
     "parseTableReference.Sampled", "parseTableReference.Timed", "parseTableReference.Value",
     "parseTableSample.Seed", "parseTableSample.Value", "parseTableTypeDefinition.Next",
     "parseTemporalClause.Between", "parseTemporalClause.Close", "parseTemporalClause.Contained",
     "parseTemporalClause.From", "parseTemporalClause.Last", "parseThrowStatement.ErrorNum",
     "parseThrowStatement.Message", "parseThrowStatement.State", "parseTopClause.Close",
     "parseTopClause.Count", "parseTrimExpression.Expression", "parseTrimExpression.First",
     "parseTryCatchStatement.Caught", "parseTryCatchStatement.Tried", "parseUnionClause.Right",
     "parseUpdateStatement.End", "parseUpdateStatement.From", "parseUpdateStatement.Hints",
     "parseUpdateStatement.Output", "parseUpdateStatement.Set", "parseUpdateStatement.Target",
     "parseUpdateStatement.Where", "parseValuesList.Row", "parseValuesRows.Value",
     "parseVariableDef.Table", "parseVariableDef.Type", "parseVariableDef.Value",
     "parseWaitforStatement.Duration", "parseWhileStatement.Body",
     "parseWhileStatement.Condition", "parseWindowFrame.End", "parseWindowFrame.Start",
     "parseWithStatement.Cte", "parseWithStatement.Query",
     "parseWithXmlnamespacesStatement.Query"}

(* Where functions begin, and where they go on by themselves.              *)
GoesOn ==
    {"ParseProgram", "ResultSet", "parseAllExpression", "parseAlterApplicationRoleStatement",
     "parseAlterAssemblyStatement", "parseAlterAvailabilityGroupStatement",
     "parseAlterDatabaseStatement", "parseAlterFulltextIndexStatement",
     "parseAlterFulltextStatement", "parseAlterFunctionStatement",
     "parseAlterFunctionStatement.Body", "parseAlterFunctionStatement.Returns",
     "parseAlterFunctionStatement.Type", "parseAlterFunctionStatement.Typed",
     "parseAlterIndexStatement", "parseAlterIndexStatement.Set", "parseAlterIndexStatement.With",
     "parseAlterLoginStatement", "parseAlterLoginStatement.Modifiers",
     "parseAlterLoginStatement.Next", "parseAlterLoginStatement.Option",
     "parseAlterPartitionFunctionStatement", "parseAlterPartitionSchemeStatement",
     "parseAlterPartitionStatement", "parseAlterProcedureStatement",
     "parseAlterProcedureStatement.Block", "parseAlterProcedureStatement.Body",
     "parseAlterProcedureStatement.Parameters", "parseAlterProcedureStatement.Statements",
     "parseAlterQueueStatement", "parseAlterResourceGovernorStatement",
     "parseAlterResourcePoolStatement", "parseAlterResourceStatement", "parseAlterRoleStatement",
     "parseAlterSequenceStatement", "parseAlterSequenceStatement.Option",
     "parseAlterServerRoleStatement", "parseAlterStatement", "parseAlterTableAction",
     "parseAlterTableAction.Set", "parseAlterTableStatement", "parseAlterTableStatement.Action",
     "parseAlterTriggerStatement", "parseAlterTriggerStatement.Body", "parseAlterUserStatement",
     "parseAlterViewStatement", "parseAlterViewStatement.Body",
     "parseAlterWorkloadGroupStatement", "parseAsterisk", "parseAtTimeZoneExpression",
     "parseBackupStatement", "parseBackupStatement.Files", "parseBackupStatement.Mirror",
     "parseBackupStatement.Options", "parseBackupStatement.To", "parseBeginAtomicBlock",
     "parseBeginDialogStatement", "parseBeginEndBlock", "parseBeginEndBlock.Statements",
     "parseBeginStatement", "parseBeginTransactionStatement", "parseBetweenExpression",
     "parseBinaryLiteral", "parseBreakStatement", "parseBulkInsertStatement",
     "parseBulkInsertStatement.Option", "parseCTEDef", "parseCTEDef.As", "parseCallExpression",
     "parseCallExpression.Over", "parseCaseExpression", "parseCaseExpression.End",
     "parseCaseExpression.When", "parseCastExpression", "parseCloseCursorStatement",
     "parseCollateExpression", "parseColumnDefinition", "parseColumnDefinition.Option",
     "parseColumnDefinition.Persisted", "parseCommitStatement", "parseContainsExpression",
     "parseContainsTableExpression", "parseContinueStatement", "parseConvertExpression",
     "parseCreateApplicationRoleStatement", "parseCreateAssemblyStatement",
     "parseCreateAsymmetricKeyStatement", "parseCreateAsymmetricKeyStatement.Clause",
     "parseCreateAvailabilityGroupStatement", "parseCreateAvailabilityGroupStatement.Replica",
     "parseCreateCertificateStatement", "parseCreateCertificateStatement.Clause",
     "parseCreateContractStatement", "parseCreateCredentialStatement",
     "parseCreateDatabaseOrScopedCredential", "parseCreateDatabaseScopedCredentialStatement",
     "parseCreateDefaultStatement", "parseCreateFulltextCatalogStatement",
     "parseCreateFulltextCatalogStatement.Clause", "parseCreateFulltextIndexStatement",
     "parseCreateFulltextStatement", "parseCreateFunctionStatement",
     "parseCreateFunctionStatement.Close", "parseCreateFunctionStatement.Returned",
     "parseCreateFunctionStatement.Returns", "parseCreateFunctionStatement.Tail",
     "parseCreateIndexStatement", "parseCreateIndexStatement.Column",
     "parseCreateIndexStatement.Include", "parseCreateIndexStatement.Options",
     "parseCreateLoginStatement", "parseCreateMasterKeyStatement",
     "parseCreateMessageTypeStatement", "parseCreatePartitionFunctionStatement",
     "parseCreatePartitionFunctionStatement.Range",
     "parseCreatePartitionFunctionStatement.Value", "parseCreatePartitionSchemeStatement",
     "parseCreatePartitionStatement", "parseCreateProcedureStatement",
     "parseCreateProcedureStatement.Body", "parseCreateProcedureStatement.Option",
     "parseCreateProcedureStatement.Statements", "parseCreateProcedureStatement.With",
     "parseCreateQueueStatement", "parseCreateResourcePoolStatement", "parseCreateRoleStatement",
     "parseCreateRuleStatement", "parseCreateSchemaStatement", "parseCreateSequenceStatement",
     "parseCreateSequenceStatement.Option", "parseCreateServerRoleStatement",
     "parseCreateServiceStatement", "parseCreateStatement", "parseCreateStatisticsStatement",
     "parseCreateStatisticsStatement.With", "parseCreateSymmetricKeyStatement",
     "parseCreateSymmetricKeyStatement.Clause", "parseCreateSynonymStatement",
     "parseCreateTableStatement", "parseCreateTableStatement.Element",
     "parseCreateTableStatement.End", "parseCreateTableStatement.Name",
     "parseCreateTableStatement.On", "parseCreateTableStatement.Options",
     "parseCreateTriggerStatement", "parseCreateTypeStatement", "parseCreateTypeStatement.Table",
     "parseCreateUserStatement", "parseCreateViewStatement", "parseCreateViewStatement.Body",
     "parseCreateWorkloadGroupStatement", "parseCreateXmlIndexStatement",
     "parseCreateXmlIndexStatement.Using", "parseCreateXmlSchemaCollectionStatement",
     "parseCube", "parseCube.Column", "parseCursorExpression", "parseDataType",
     "parseDbccStatement", "parseDbccStatement.Argument", "parseDbccStatement.Option",
     "parseDbccStatement.With", "parseDeallocateCursorStatement", "parseDeclareCursorStatement",
     "parseDeclareStatement", "parseDeleteStatement", "parseDistinctFromExpression",
     "parseDotExpression", "parseDropAvailabilityGroupStatement",
     "parseDropFulltextCatalogStatement", "parseDropFulltextIndexStatement",
     "parseDropFulltextStatement", "parseDropIndexStatement", "parseDropIndexStatement.More",
     "parseDropKeyStatement", "parseDropObjectStatement", "parseDropResourcePoolStatement",
     "parseDropSequenceStatement", "parseDropServiceBrokerObject", "parseDropStatement",
     "parseDropStatisticsStatement", "parseDropTableStatement",
     "parseDropWorkloadGroupStatement", "parseEnableDisableTriggerStatement",
     "parseEndConversationStatement", "parseEndConversationStatement.Description",
     "parseEndConversationStatement.Error", "parseExecParameter", "parseExecStatement",
     "parseExecStatement.At", "parseExecStatement.Parameters", "parseExecStatement.With",
     "parseExecStatement.WithBehind", "parseExecuteAsStatement", "parseExistsExpression",
     "parseExpression", "parseExpressionList", "parseExpressionStatement", "parseFetchStatement",
     "parseFetchStatement.From", "parseFetchStatement.Into", "parseFloatLiteral",
     "parseForClause", "parseForClause.Option", "parseFrameBound", "parseFreetextExpression",
     "parseFreetextTableExpression", "parseFromClause", "parseFunctionLiteral",
     "parseGetConversationGroupStatement", "parseGotoStatement", "parseGroupByItems",
     "parseGroupedExpression", "parseGroupingSet", "parseGroupingSets", "parseGroupingSets.Set",
     "parseIdentifier", "parseIfStatement", "parseInExpression", "parseIndexColumns",
     "parseInfixExpression", "parseInlineCheckConstraint", "parseInlineCheckConstraint.Check",
     "parseInlineConstraint", "parseInlineConstraint.Clustered",
     "parseInlineReferencesConstraint", "parseInlineReferencesConstraint.Actions",
     "parseInsertStatement", "parseInsertStatement.Name", "parseInsertStatement.Output",
     "parseInsertStatement.Percent", "parseIntegerLiteral", "parseIsNullExpression",
     "parseJoinClause", "parseKeywordAsIdentifier", "parseLabelStatement", "parseLikeExpression",
     "parseLoginOptions", "parseLoginOptions.Modifiers", "parseLoginOptions.Next",
     "parseMergeStatement", "parseMergeStatement.Alias", "parseMergeStatement.On",
     "parseMergeStatement.Source", "parseMergeStatement.Using", "parseMergeStatement.When",
     "parseMergeWhenClause", "parseMergeWhenClause.Action", "parseMergeWhenClause.And",
     "parseMergeWhenClause.Values", "parseMoneyLiteral", "parseMoveConversationStatement",
     "parseNStringLiteral", "parseNextValueFor", "parseNextValueForCompound",
     "parseNotInfixExpression", "parseNullLiteral", "parseOpenCursorStatement",
     "parseOpenJsonColumns", "parseOpenJsonColumns.Column", "parseOpenSymmetricKeyStatement",
     "parseOptionClause", "parseOptionClause.Binding", "parseOptionClause.Close",
     "parseOptionClause.Hint", "parseOptionClause.Next", "parseOrderByItems",
     "parseOutputClause", "parseOutputColumn", "parseOverClause", "parseOverClause.Close",
     "parseOverClause.Frame", "parseOverClause.Order", "parseParameterDef", "parseParameterDefs",
     "parseParenthesizedSelectStatement", "parseParenthesizedSelectStatement.Set",
     "parseParseExpression", "parsePartitionList", "parsePartitionList.Close", "parsePivotTable",
     "parsePrefixExpression", "parsePrintStatement", "parseRaiserrorStatement",
     "parseRaiserrorStatement.Option", "parseRaiserrorStatement.With", "parseReceiveStatement",
     "parseReceiveStatement.Column", "parseReconfigureStatement", "parseRestoreStatement",
     "parseRestoreStatement.Files", "parseRestoreStatement.From",
     "parseRestoreStatement.Options", "parseRestoreStatement.With", "parseResultSets",
     "parseReturnStatement", "parseRevertStatement", "parseRollbackStatement", "parseRollup",
     "parseRollup.Column", "parseSaveTransactionStatement", "parseScopeExpression",
     "parseSelectColumn", "parseSelectColumns", "parseSelectStatement",
     "parseSelectStatement.Fetch", "parseSelectStatement.For",
     "parseSendOnConversationStatement", "parseSetClause", "parseSetClauses",
     "parseSetStatement", "parseStatement", "parseStatisticsWithOptions", "parseStringLiteral",
     "parseSubqueryExpression", "parseSysVar", "parseTableConstraint",
     "parseTableConstraint.Actions", "parseTableConstraint.Check",
     "parseTableConstraint.Columns", "parseTableConstraint.For",
     "parseTableConstraint.ForeignColumns", "parseTableConstraint.ForeignKey",
     "parseTableConstraint.Key", "parseTableConstraint.KeyColumns", "parseTableConstraint.Table",
     "parseTableConstraint.TableColumns", "parseTableConstraint.Type", "parseTableHints",
     "parseTableHints.Hint", "parseTableHints.Next", "parseTableHints.Outer",
     "parseTableReference", "parseTableReference.Alias", "parseTableReference.Derive",
     "parseTableReference.Function", "parseTableReference.Hints",
     "parseTableReference.HintsAgain", "parseTableReference.Name", "parseTableReference.Option",
     "parseTableReference.Table", "parseTableReference.Time", "parseTableReference.With",
     "parseTableSample", "parseTableTypeDefinition", "parseTableTypeDefinition.Element",
     "parseTableTypeDefinition.End", "parseTemporalClause", "parseThrowStatement",
     "parseTopClause", "parseTopClause.Percent", "parseTrimExpression", "parseTruncateStatement",
     "parseTruncateTableCompound", "parseTruncateTableCompound.Close", "parseTryCatchStatement",
     "parseTryCatchStatement.Between", "parseTryCatchStatement.Catch",
     "parseTryCatchStatement.Close", "parseTryCatchStatement.Try", "parseUnionClause",
     "parseUnpivotTable", "parseUpdateStatement", "parseUpdateStatisticsStatement",
     "parseUseStatement", "parseValuesList", "parseValuesRows", "parseVariable",
     "parseVariableDef", "parseWaitforStatement", "parseWhileStatement",
     "parseWindowDefinitions", "parseWindowDefinitions.Close", "parseWindowDefinitions.Order",
     "parseWindowDefinitions.Partition", "parseWindowFrame", "parseWithStatement",
     "parseWithXmlnamespacesStatement", "parseWithXmlnamespacesStatement.Namespace"}
ProgramPoints == TakesResult \cup GoesOn

ProgramKinds ==
    {"Action", "AliasedColumn", "AlterApplicationRole", "AlterAssembly",
     "AlterAvailabilityGroup", "AlterDatabase", "AlterFulltextIndex", "AlterFunction",
     "AlterIndex", "AlterLogin", "AlterPartitionFunction", "AlterPartitionScheme",
     "AlterProcedure", "AlterQueue", "AlterResourceGovernor", "AlterResourcePool", "AlterRole",
     "AlterSequence", "AlterTable", "AlterTrigger", "AlterUser", "AlterView",
     "AlterWorkloadGroup", "Apply", "Assignment", "AtTimeZone", "Backup", "BeginDialog",
     "BeginTransaction", "Between", "Block", "Break", "BulkInsert", "CTE", "Case", "CloseCursor",
     "CloseKey", "Collate", "Column", "ColumnConstraint", "ColumnDefinition", "Columns",
     "Commit", "Constraint", "Continue", "Conversion", "CreateApplicationRole", "CreateAssembly",
     "CreateAsymmetricKey", "CreateAvailabilityGroup", "CreateCertificate", "CreateContract",
     "CreateCredential", "CreateDefault", "CreateFulltextCatalog", "CreateFulltextIndex",
     "CreateFunction", "CreateIndex", "CreateLogin", "CreateMasterKey", "CreateMessageType",
     "CreateProcedure", "CreateQueue", "CreateResourcePool", "CreateRole", "CreateRule",
     "CreateSchema", "CreateScopedCredential", "CreateSequence", "CreateService",
     "CreateSymmetricKey", "CreateSynonym", "CreateTable", "CreateTrigger", "CreateType",
     "CreateUser", "CreateView", "CreateWorkloadGroup", "CreateXmlSchema", "Cube",
     "CursorExpression", "DataType", "Dbcc", "DeallocateCursor", "Declare", "DeclareCursor",
     "Delete", "DerivedTable", "DmlDerivedTable", "DropFulltextIndex", "DropIndex", "DropNamed",
     "DropObject", "DropSequence", "DropStatistics", "DropTable", "EnableTrigger",
     "EndConversation", "Exec", "ExecParameter", "ExecuteAs", "Exists", "Expression", "Fetch",
     "For", "FrameBound", "From", "FullText", "FunctionCall", "GetConversationGroup", "Goto",
     "GroupBy", "GroupingSets", "Hints", "Identifier", "If", "IfElse", "In", "IndexColumns",
     "Infix", "Insert", "IsDistinctFrom", "IsNull", "Join", "JsonColumns", "Label", "Like",
     "List", "Literal", "Merge", "MethodCall", "MoveConversation", "NextValueFor", "NilSelect",
     "OpenCursor", "OpenKey", "Options", "OrderBy", "Output", "Over", "Parameter", "Parameters",
     "ParenthesizedTable", "PartitionFunction", "PartitionScheme", "Pivot", "Prefix",
     "PrintText", "Program", "QualifiedIdentifier", "Raiserror", "Receive", "Reconfigure",
     "Restore", "ResultSet", "ResultSets", "Return", "Revert", "Rollback", "Rollup", "Rows",
     "Sample", "SaveTransaction", "Select", "Send", "Set", "SetClause", "SetClauses",
     "SetMethod", "SetOption", "StaticMethodCall", "Statistics", "Subquery", "TableFunction",
     "TableName", "TableType", "Temporal", "Throw", "Top", "Trim", "Truncate", "TryCatch",
     "Tuple", "Union", "Unpivot", "Update", "Use", "Values", "ValuesTable", "Variable",
     "VariableDef", "Waitfor", "When", "While", "WindowFrame", "Windows", "With", "WithXml"}
=============================================================================
