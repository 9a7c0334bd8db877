----------------------------- MODULE ProtocolTypes -----------------------------
(***************************************************************************)
(* The types of src/lsp that requests, notifications and their results are *)
(* made of, as schemas of Serde: each definition is the schemas of one     *)
(* stretch of one file, by type name.  Documentation and the builder       *)
(* methods between the types are left out.  A Uri is a string; its         *)
(* normalisation is module Uri.                                            *)
(***************************************************************************)
EXTENDS Serde

-----------------------------------------------------------------------------
(* lsp/base.rs *)

\* Flattened into the parameters of the requests made at a position.
AtPosition == [textDocument |-> Ref("TextDocumentIdentifier"), position |-> Ref("Position")]

BaseTypes ==
    [Position |-> Struct(<<"line" :> Num, "character" :> Num>>),
     Range |-> Struct(Each(<<"start", "end">>, Ref("Position"))),
     Location |-> Struct(<<"uri" :> Str, "range" :> Ref("Range")>>),
     TextDocumentIdentifier |-> Struct(<<"uri" :> Str>>),
     VersionedTextDocumentIdentifier |-> Struct(<<"uri" :> Str, "version" :> Num>>),
     TextDocumentItem |-> Struct(<<"uri" :> Str, "languageId" :> Str, "version" :> Num,
         "text" :> Str>>),
     TextDocumentPositionParams |->
         [struct |-> AtPosition, order |-> <<"textDocument", "position">>]]


-----------------------------------------------------------------------------
(* lsp/progress.rs *)

ProgressTokenType ==
    [ProgressToken |-> Union(<<Num, Str>>)]

\* Flattened into the parameters of requests that report progress or results.
WorkDone == "workDoneToken" :> Opt(Ref("ProgressToken"))
Partial == "partialResultToken" :> Opt(Ref("ProgressToken"))

ProgressTypes ==
    [ProgressParams |-> Struct(<<"token" :> Ref("ProgressToken"),
         "value" :> Ref("WorkDoneProgress")>>),
     WorkDoneProgress |-> Tagged([begin |-> Ref("WorkDoneProgressBegin"),
         report |-> Ref("WorkDoneProgressReport"), end |-> Ref("WorkDoneProgressEnd")]),
     WorkDoneProgressBegin |-> Struct(<<"title" :> Str, "cancellable" :> Opt(Bool),
         "message" :> Opt(Str), "percentage" :> Opt(Num)>>),
     WorkDoneProgressReport |-> Struct(<<"cancellable" :> Opt(Bool), "message" :> Opt(Str),
         "percentage" :> Opt(Num)>>),
     WorkDoneProgressEnd |-> Struct(<<"message" :> Opt(Str)>>),
     WorkDoneProgressCreateParams |-> Struct(<<"token" :> Ref("ProgressToken")>>),
     WorkDoneProgressCancelParams |-> Struct(<<"token" :> Ref("ProgressToken")>>),
     WorkDoneProgressParams |-> Struct(<<WorkDone>>),
     WorkDoneProgressOptions |-> Struct(<<"workDoneProgress" :> Opt(Bool)>>),
     PartialResultParams |-> Struct(<<Partial>>)]


-----------------------------------------------------------------------------
(* lsp/code_action.rs *)

CodeActionTypes ==
    [CodeActionParams |-> ByName(WorkDone @@ Partial @@
         [textDocument |-> Ref("TextDocumentIdentifier"), range |-> Ref("Range"),
         context |-> Ref("CodeActionContext")]),
     CodeActionContext |-> Struct(<<"diagnostics" :> Vec(Ref("Diagnostic")),
         "only" :> Opt(Vec(Str)), "triggerKind" :> Opt(Ref("CodeActionTriggerKind"))>>),
     CodeActionOrCommand |-> Union(<<Ref("CodeAction"), Ref("Command")>>),
     CodeAction |-> Struct(<<"title" :> Str, "kind" :> Opt(Str),
         "diagnostics" :> Opt(Vec(Ref("Diagnostic"))), "isPreferred" :> Opt(Bool),
         "disabled" :> Opt(Ref("CodeActionDisabled")), "edit" :> Opt(Ref("WorkspaceEdit")),
         "command" :> Opt(Ref("Command")), "data" :> Opt(AnyValue)>>)]

CommandTypes ==
    [CodeActionDisabled |-> Struct(<<"reason" :> Str>>),
     Command |-> Struct(<<"title" :> Str, "command" :> Str, "arguments" :> Opt(Vec(AnyValue))>>),
     CodeActionOptions |-> Struct(<<"workDoneProgress" :> Opt(Bool),
         "codeActionKinds" :> Many(Str), "resolveProvider" :> Opt(Bool)>>)]

-----------------------------------------------------------------------------
(* lsp/code_lens.rs *)

CodeLensTypes ==
    [CodeLensParams |-> ByName(WorkDone @@ Partial @@
         [textDocument |-> Ref("TextDocumentIdentifier")]),
     CodeLens |-> Struct(<<"range" :> Ref("Range"), "command" :> Opt(Ref("Command")),
         "data" :> Opt(AnyValue)>>),
     CodeLensOptions |-> Struct(Flags(<<"workDoneProgress", "resolveProvider">>))]

-----------------------------------------------------------------------------
(* lsp/diagnostics.rs *)

DiagnosticType ==
    [Diagnostic |-> Struct(<<"range" :> Ref("Range"),
         "severity" :> Opt(Ref("DiagnosticSeverity")), "code" :> Opt(AnyValue),
         "codeDescription" :> Opt(Ref("CodeDescription")), "source" :> Opt(Str), "message" :> Str,
         "tags" :> Opt(Vec(Ref("DiagnosticTag"))),
         "relatedInformation" :> Opt(Vec(Ref("DiagnosticRelatedInformation"))),
         "data" :> Opt(AnyValue)>>)]

DiagnosticReportTypes ==
    [CodeDescription |-> Struct(<<"href" :> Str>>),
     DiagnosticRelatedInformation |-> Struct(<<"location" :> Ref("Location"), "message" :> Str>>),
     PublishDiagnosticsParams |-> Struct(<<"uri" :> Str, "version" :> Opt(Num),
         "diagnostics" :> Vec(Ref("Diagnostic"))>>),
     DocumentDiagnosticParams |-> ByName(WorkDone @@ Partial @@
         [textDocument |-> Ref("TextDocumentIdentifier"), identifier |-> Opt(Str),
         previousResultId |-> Opt(Str)]),
     DocumentDiagnosticReport |-> Tagged([full |-> Ref("FullDocumentDiagnosticReport"),
         unchanged |-> Ref("UnchangedDocumentDiagnosticReport")]),
     FullDocumentDiagnosticReport |-> Struct(<<"resultId" :> Opt(Str),
         "items" :> Vec(Ref("Diagnostic"))>>),
     UnchangedDocumentDiagnosticReport |-> Struct(<<"resultId" :> Str>>),
     WorkspaceDiagnosticParams |-> ByName(WorkDone @@ Partial @@ [identifier |-> Opt(Str),
         previousResultIds |-> Vec(Ref("PreviousResultId"))]),
     PreviousResultId |-> Struct(<<"uri" :> Str, "value" :> Str>>),
     WorkspaceDiagnosticReport |-> Struct(<<"items" :>
         Vec(Ref("WorkspaceDocumentDiagnosticReport"))>>),
     WorkspaceDocumentDiagnosticReport |-> Tagged([full |->
         Ref("WorkspaceFullDocumentDiagnosticReport"),
         unchanged |-> Ref("WorkspaceUnchangedDocumentDiagnosticReport")]),
     WorkspaceFullDocumentDiagnosticReport |-> Struct(<<"uri" :> Str, "version" :> Opt(Num),
         "resultId" :> Opt(Str), "items" :> Vec(Ref("Diagnostic"))>>)]

DiagnosticOptionTypes ==
    [WorkspaceUnchangedDocumentDiagnosticReport |-> Struct(<<"uri" :> Str, "version" :> Opt(Num),
         "resultId" :> Str>>),
     DiagnosticOptions |-> Struct(<<"workDoneProgress" :> Opt(Bool), "identifier" :> Opt(Str),
         "interFileDependencies" :> Bool, "workspaceDiagnostics" :> Bool>>)]

-----------------------------------------------------------------------------
(* lsp/document.rs *)

DocumentTypes ==
    [DidOpenTextDocumentParams |-> Struct(<<"textDocument" :> Ref("TextDocumentItem")>>),
     DidChangeTextDocumentParams |-> Struct(<<"textDocument" :>
         Ref("VersionedTextDocumentIdentifier"),
         "contentChanges" :> Vec(Ref("TextDocumentContentChangeEvent"))>>),
     TextDocumentContentChangeEvent |-> Struct(<<"range" :> Opt(Ref("Range")), "text" :> Str>>),
     DidCloseTextDocumentParams |-> Struct(<<"textDocument" :> Ref("TextDocumentIdentifier")>>),
     DidSaveTextDocumentParams |-> Struct(<<"textDocument" :> Ref("TextDocumentIdentifier"),
         "text" :> Opt(Str)>>),
     WillSaveTextDocumentParams |-> Struct(<<"textDocument" :> Ref("TextDocumentIdentifier"),
         "reason" :> Ref("TextDocumentSaveReason")>>),
     TextDocumentSyncOptions |-> Struct(<<"openClose" :> Opt(Bool),
         "change" :> Opt(Ref("TextDocumentSyncKind"))>> \o Flags(<<"willSave",
         "willSaveWaitUntil">>) \o <<"save" :> Opt(Ref("SaveOptionsCapability"))>>),
     SaveOptionsCapability |-> Union(<<Bool, Ref("SaveOptions")>>),
     SaveOptions |-> Struct(<<"includeText" :> Opt(Bool)>>)]

SyncCapabilityType ==
    [TextDocumentSyncCapability |-> Union(<<Ref("TextDocumentSyncKind"),
        Ref("TextDocumentSyncOptions")>>)]

-----------------------------------------------------------------------------
(* lsp/enums.rs *)

MessageEnums ==
    [TextDocumentSyncKind |-> Ints(0..2),
     MessageType |-> Ints(1..5),
     DiagnosticSeverity |-> Ints(1..4),
     CompletionTriggerKind |-> Ints(1..3),
     CompletionItemKind |-> Ints(1..25),
     FileChangeType |-> Ints(1..3)]

SymbolEnums ==
    [SymbolKind |-> Ints(1..26),
     SymbolTag |-> Ints(1..1)]
    @@ [t \in {"CodeActionTriggerKind", "InlayHintKind", "NotebookCellKind",
         "InlineCompletionTriggerKind"} |->
        Ints(1..2)]
    @@ [t \in {"SignatureHelpTriggerKind", "TextDocumentSaveReason", "DocumentHighlightKind"} |->
        Ints(1..3)]

CompletionEnums ==
    [CompletionItemTag |-> Ints(1..1),
     PrepareSupportDefaultBehavior |-> Ints(1..1),
     MarkupKind |-> Words({"plaintext", "markdown"}),
     PositionEncodingKind |-> Words({"utf-8", "utf-16", "utf-32"})]
    @@ [t \in {"InsertTextFormat", "InsertTextMode", "DiagnosticTag"} |->
        Ints(1..2)]

-----------------------------------------------------------------------------
(* lsp/features.rs *)

HoverTypes ==
    [HoverParams |-> ByName(AtPosition @@ WorkDone),
     Hover |-> Struct(<<"contents" :> Ref("MarkupContent"), "range" :> Opt(Ref("Range"))>>)]

MarkupType ==
    [MarkupContent |-> Struct(<<"kind" :> Ref("MarkupKind"), "value" :> Str>>)]

CompletionTypes ==
    [CompletionParams |-> ByName(AtPosition @@ WorkDone @@ Partial @@
         [context |-> Opt(Ref("CompletionContext"))]),
     CompletionContext |-> Struct(<<"triggerKind" :> Ref("CompletionTriggerKind"),
         "triggerCharacter" :> Opt(Str)>>),
     CompletionResponse |-> Union(<<Vec(Ref("CompletionItem")), Ref("CompletionList")>>),
     CompletionList |-> Struct(<<"isIncomplete" :> Bool,
         "itemDefaults" :> Opt(Ref("CompletionItemDefaults")),
         "items" :> Vec(Ref("CompletionItem"))>>),
     CompletionItemDefaults |-> Struct(<<"commitCharacters" :> Opt(Vec(Str)),
         "editRange" :> Opt(Ref("CompletionEditRange")),
         "insertTextFormat" :> Opt(Ref("InsertTextFormat")), "data" :> Opt(AnyValue)>>),
     CompletionEditRange |-> Union(<<Ref("Range"), ByName([insert |-> Ref("Range"),
         replace |-> Ref("Range")])>>)]

CompletionItemTypes ==
    [CompletionItem |-> Struct(<<"label" :> Str,
         "labelDetails" :> Opt(Ref("CompletionItemLabelDetails")),
         "kind" :> Opt(Ref("CompletionItemKind")), "tags" :> Opt(Vec(Ref("CompletionItemTag"))),
         "detail" :> Opt(Str), "documentation" :> Opt(Ref("Documentation"))>> \o
         Each(<<"sortText", "filterText", "insertText">>, Opt(Str)) \o
         <<"insertTextFormat" :> Opt(Ref("InsertTextFormat")),
         "textEdit" :> Opt(Ref("CompletionTextEdit")),
         "additionalTextEdits" :> Opt(Vec(Ref("TextEdit"))), "command" :> Opt(Ref("Command")),
         "data" :> Opt(AnyValue)>>),
     CompletionItemLabelDetails |-> Struct(<<"detail" :> Opt(Str), "description" :> Opt(Str)>>),
     CompletionTextEdit |-> Union(<<Ref("TextEdit"), Ref("InsertReplaceEdit")>>),
     InsertReplaceEdit |-> Struct(<<"newText" :> Str, "insert" :> Ref("Range"),
         "replace" :> Ref("Range")>>)]

GotoTypes ==
    [DocumentHighlight |-> Struct(<<"range" :> Ref("Range"),
         "kind" :> Opt(Ref("DocumentHighlightKind"))>>),
     GotoDefinitionResponse |-> Union(<<Ref("Location"), Vec(Ref("Location")),
         Vec(Ref("LocationLink"))>>)]
    @@ [t \in {"DocumentHighlightParams", "DefinitionParams", "DeclarationParams",
         "TypeDefinitionParams", "ImplementationParams"} |->
        ByName(AtPosition @@ WorkDone @@ Partial)]

ReferenceTypes ==
    [LocationLink |-> Struct(<<"originSelectionRange" :> Opt(Ref("Range")), "targetUri" :> Str,
         "targetRange" :> Ref("Range"), "targetSelectionRange" :> Ref("Range")>>),
     ReferenceParams |-> ByName(AtPosition @@ WorkDone @@ Partial @@
         [context |-> Ref("ReferenceContext")]),
     ReferenceContext |-> Struct(<<"includeDeclaration" :> Bool>>)]

-----------------------------------------------------------------------------
(* lsp/file_operations.rs *)

FileOperationTypes ==
    [FileCreate |-> Struct(<<"uri" :> Str>>),
     CreateFilesParams |-> Struct(<<"files" :> Vec(Ref("FileCreate"))>>),
     FileRename |-> Struct(<<"oldUri" :> Str, "newUri" :> Str>>),
     RenameFilesParams |-> Struct(<<"files" :> Vec(Ref("FileRename"))>>),
     FileDelete |-> Struct(<<"uri" :> Str>>),
     DeleteFilesParams |-> Struct(<<"files" :> Vec(Ref("FileDelete"))>>),
     FileOperationPattern |-> Struct(<<"glob" :> Str, "matches" :> Opt(Str),
         "ignoreCase" :> Opt(Bool)>>),
     FileOperationFilter |-> Struct(<<"scheme" :> Opt(Str),
         "pattern" :> Ref("FileOperationPattern")>>),
     FileOperationRegistrationOptions |-> Struct(<<"filters" :> Vec(Ref("FileOperationFilter"))>>),
     FileOperationsServerCapabilities |-> Struct(Each(<<"didCreate", "willCreate", "didRename",
         "willRename", "didDelete", "willDelete">>,
         Opt(Ref("FileOperationRegistrationOptions"))))]

-----------------------------------------------------------------------------
(* lsp/formatting.rs *)

FormattingTypes ==
    [FormattingOptions |-> ByName([tabSize |-> Num, insertSpaces |-> Bool, rest |-> Rest]),
     DocumentFormattingParams |-> ByName(WorkDone @@
         [textDocument |-> Ref("TextDocumentIdentifier"), options |-> Ref("FormattingOptions")]),
     DocumentRangeFormattingParams |-> Struct(<<"textDocument" :> Ref("TextDocumentIdentifier"),
         "range" :> Ref("Range"), "options" :> Ref("FormattingOptions")>>),
     DocumentOnTypeFormattingParams |-> ByName(AtPosition @@ [ch |-> Str,
         options |-> Ref("FormattingOptions")]),
     DocumentOnTypeFormattingOptions |-> Struct(<<"firstTriggerCharacter" :> Str,
         "moreTriggerCharacter" :> Many(Str)>>)]

-----------------------------------------------------------------------------
(* lsp/hierarchy.rs *)

HierarchyTypes ==
    [CallHierarchyPrepareParams |-> ByName(AtPosition @@ WorkDone),
     CallHierarchyItem |-> Struct(<<"name" :> Str, "kind" :> Ref("SymbolKind"),
         "tags" :> Many(Ref("SymbolTag")), "detail" :> Opt(Str), "uri" :> Str,
         "range" :> Ref("Range"), "selectionRange" :> Ref("Range"), "data" :> Opt(AnyValue)>>),
     CallHierarchyIncomingCallsParams |-> ByName(WorkDone @@ Partial @@
         [item |-> Ref("CallHierarchyItem")]),
     CallHierarchyIncomingCall |-> Struct(<<"from" :> Ref("CallHierarchyItem"),
         "fromRanges" :> Vec(Ref("Range"))>>),
     CallHierarchyOutgoingCallsParams |-> ByName(WorkDone @@ Partial @@
         [item |-> Ref("CallHierarchyItem")]),
     CallHierarchyOutgoingCall |-> Struct(<<"to" :> Ref("CallHierarchyItem"),
         "fromRanges" :> Vec(Ref("Range"))>>),
     TypeHierarchyPrepareParams |-> ByName(AtPosition @@ WorkDone),
     TypeHierarchyItem |-> Struct(<<"name" :> Str, "kind" :> Ref("SymbolKind"),
         "tags" :> Many(Ref("SymbolTag")), "detail" :> Opt(Str), "uri" :> Str,
         "range" :> Ref("Range"), "selectionRange" :> Ref("Range"), "data" :> Opt(AnyValue)>>),
     TypeHierarchySupertypesParams |-> ByName(WorkDone @@ Partial @@
         [item |-> Ref("TypeHierarchyItem")]),
     TypeHierarchySubtypesParams |-> ByName(WorkDone @@ Partial @@
         [item |-> Ref("TypeHierarchyItem")])]

HierarchyOptionTypes ==
    [CallHierarchyOptions |-> Struct(<<"workDoneProgress" :> Opt(Bool)>>),
     TypeHierarchyOptions |-> Struct(<<"workDoneProgress" :> Opt(Bool)>>)]

-----------------------------------------------------------------------------
(* lsp/inlay_hint.rs *)

InlayHintTypes ==
    [InlayHintParams |-> ByName(WorkDone @@ [textDocument |-> Ref("TextDocumentIdentifier"),
         range |-> Ref("Range")]),
     InlayHint |-> Struct(<<"position" :> Ref("Position"), "label" :> Ref("InlayHintLabel"),
         "kind" :> Opt(Ref("InlayHintKind")), "textEdits" :> Opt(Vec(Ref("TextEdit"))),
         "tooltip" :> Opt(Ref("Documentation"))>> \o Flags(<<"paddingLeft", "paddingRight">>) \o
         <<"data" :> Opt(AnyValue)>>)]

InlayHintLabelTypes ==
    [InlayHintLabel |-> Union(<<Str, Vec(Ref("InlayHintLabelPart"))>>),
     InlayHintLabelPart |-> Struct(<<"value" :> Str, "tooltip" :> Opt(Ref("Documentation")),
         "location" :> Opt(Ref("Location")), "command" :> Opt(Ref("Command"))>>),
     InlayHintOptions |-> Struct(Flags(<<"workDoneProgress", "resolveProvider">>))]

-----------------------------------------------------------------------------
(* lsp/inline_completion.rs *)

InlineCompletionTypes ==
    [InlineCompletionParams |-> ByName(AtPosition @@ WorkDone @@
         [context |-> Ref("InlineCompletionContext")]),
     InlineCompletionContext |-> Struct(<<"triggerKind" :> Ref("InlineCompletionTriggerKind"),
         "selectedCompletionInfo" :> Opt(Ref("SelectedCompletionInfo"))>>),
     SelectedCompletionInfo |-> Struct(<<"range" :> Ref("Range"), "text" :> Str>>),
     InlineCompletionInsertText |-> Union(<<Str, Ref("StringValue")>>),
     StringValue |-> Struct(<<"kind" :> Str, "value" :> Str>>),
     InlineCompletionItem |-> Struct(<<"insertText" :> Ref("InlineCompletionInsertText"),
         "filterText" :> Opt(Str), "range" :> Opt(Ref("Range")),
         "command" :> Opt(Ref("Command"))>>),
     InlineCompletionResponse |-> Union(<<Ref("InlineCompletionList"),
         Vec(Ref("InlineCompletionItem"))>>),
     InlineCompletionList |-> Struct(<<"items" :> Vec(Ref("InlineCompletionItem"))>>)]

-----------------------------------------------------------------------------
(* lsp/inline_value.rs *)

InlineValueTypes ==
    [InlineValueParams |-> ByName(WorkDone @@ [textDocument |-> Ref("TextDocumentIdentifier"),
         range |-> Ref("Range"), context |-> Ref("InlineValueContext")]),
     InlineValueContext |-> Struct(<<"frameId" :> Num, "stoppedLocation" :> Ref("Range")>>),
     InlineValue |-> Union(<<Ref("InlineValueText"), Ref("InlineValueVariableLookup"),
         Ref("InlineValueEvaluatableExpression")>>),
     InlineValueText |-> Struct(<<"range" :> Ref("Range"), "text" :> Str>>),
     InlineValueVariableLookup |-> Struct(<<"range" :> Ref("Range"), "variableName" :> Opt(Str),
         "caseSensitiveLookup" :> Bool>>),
     InlineValueEvaluatableExpression |-> Struct(<<"range" :> Ref("Range"),
         "expression" :> Opt(Str)>>)]

-----------------------------------------------------------------------------
(* lsp/links.rs *)

LinkAndColorTypes ==
    [DocumentLinkParams |-> ByName(WorkDone @@ Partial @@
         [textDocument |-> Ref("TextDocumentIdentifier")]),
     DocumentLink |-> Struct(<<"range" :> Ref("Range"), "target" :> Opt(Str),
         "tooltip" :> Opt(Str), "data" :> Opt(AnyValue)>>),
     DocumentLinkOptions |-> Struct(Flags(<<"workDoneProgress", "resolveProvider">>)),
     DocumentColorParams |-> ByName(WorkDone @@ Partial @@
         [textDocument |-> Ref("TextDocumentIdentifier")]),
     Color |-> Struct(Each(<<"red", "green", "blue", "alpha">>, Num)),
     ColorInformation |-> Struct(<<"range" :> Ref("Range"), "color" :> Ref("Color")>>),
     ColorPresentationParams |-> ByName(WorkDone @@ Partial @@
         [textDocument |-> Ref("TextDocumentIdentifier"), color |-> Ref("Color"),
         range |-> Ref("Range")]),
     ColorPresentation |-> Struct(<<"label" :> Str, "textEdit" :> Opt(Ref("TextEdit")),
         "additionalTextEdits" :> Opt(Vec(Ref("TextEdit")))>>)]

-----------------------------------------------------------------------------
(* lsp/moniker.rs *)

MonikerTypes ==
    [MonikerParams |-> ByName(AtPosition @@ WorkDone @@ Partial),
     UniquenessLevel |-> Words({"document", "project", "group", "scheme", "global"}),
     MonikerKind |-> Words({"import", "export", "local"}),
     Moniker |-> Struct(<<"scheme" :> Str, "identifier" :> Str,
         "unique" :> Ref("UniquenessLevel"), "kind" :> Opt(Ref("MonikerKind"))>>)]

-----------------------------------------------------------------------------
(* lsp/notebook.rs *)

NotebookTypes ==
    [NotebookCell |-> Struct(<<"kind" :> Ref("NotebookCellKind"), "document" :> Str,
         "metadata" :> Opt(MapTo(AnyValue)),
         "executionSummary" :> Opt(Ref("ExecutionSummary"))>>),
     ExecutionSummary |-> Struct(<<"executionOrder" :> Num, "success" :> Opt(Bool)>>),
     NotebookDocument |-> Struct(<<"uri" :> Str, "notebookType" :> Str, "version" :> Num,
         "metadata" :> Opt(MapTo(AnyValue)), "cells" :> Vec(Ref("NotebookCell"))>>),
     NotebookDocumentIdentifier |-> Struct(<<"uri" :> Str>>),
     VersionedNotebookDocumentIdentifier |-> Struct(<<"version" :> Num, "uri" :> Str>>),
     DidOpenNotebookDocumentParams |-> Struct(<<"notebookDocument" :> Ref("NotebookDocument"),
         "cellTextDocuments" :> Vec(Ref("TextDocumentItem"))>>),
     DidChangeNotebookDocumentParams |-> Struct(<<"notebookDocument" :>
         Ref("VersionedNotebookDocumentIdentifier"),
         "change" :> Ref("NotebookDocumentChangeEvent")>>),
     DidSaveNotebookDocumentParams |-> Struct(<<"notebookDocument" :>
         Ref("NotebookDocumentIdentifier")>>),
     DidCloseNotebookDocumentParams |-> Struct(<<"notebookDocument" :>
         Ref("NotebookDocumentIdentifier"),
         "cellTextDocuments" :> Vec(Ref("TextDocumentIdentifier"))>>),
     NotebookDocumentChangeEvent |-> Struct(<<"metadata" :> Opt(MapTo(AnyValue)),
         "cells" :> Opt(Ref("NotebookDocumentCellChanges"))>>),
     NotebookDocumentCellChanges |-> Struct(<<"structure" :>
         Opt(Ref("NotebookDocumentCellStructureChange")), "data" :> Opt(Vec(Ref("NotebookCell"))),
         "textContent" :> Opt(Vec(Ref("NotebookCellTextContentChange")))>>)]

NotebookChangeTypes ==
    [NotebookDocumentCellStructureChange |-> Struct(<<"array" :> Ref("NotebookCellArrayChange"),
         "didOpen" :> Opt(Vec(Ref("TextDocumentItem"))),
         "didClose" :> Opt(Vec(Ref("TextDocumentIdentifier")))>>),
     NotebookCellArrayChange |-> Struct(<<"start" :> Num, "deleteCount" :> Num,
         "cells" :> Opt(Vec(Ref("NotebookCell")))>>),
     NotebookCellTextContentChange |-> Struct(<<"document" :>
         Ref("VersionedTextDocumentIdentifier"),
         "changes" :> Vec(Ref("TextDocumentContentChangeEvent"))>>),
     NotebookDocumentSyncOptions |-> Struct(<<"notebookSelector" :> Vec(AnyValue),
         "save" :> Opt(Bool)>>)]

-----------------------------------------------------------------------------
(* lsp/ranges.rs *)

FoldingRangeTypes ==
    [FoldingRangeParams |-> ByName(WorkDone @@ Partial @@
         [textDocument |-> Ref("TextDocumentIdentifier")]),
     FoldingRange |-> Struct(<<"startLine" :> Num, "startCharacter" :> Opt(Num), "endLine" :> Num,
         "endCharacter" :> Opt(Num), "kind" :> Opt(Str), "collapsedText" :> Opt(Str)>>)]

SelectionRangeTypes ==
    [SelectionRangeParams |-> ByName(WorkDone @@ Partial @@
         [textDocument |-> Ref("TextDocumentIdentifier"), positions |-> Vec(Ref("Position"))]),
     SelectionRange |-> Struct(<<"range" :> Ref("Range"),
         "parent" :> Opt(Ref("SelectionRange"))>>)]

LinkedEditingTypes ==
    [LinkedEditingRangeParams |-> ByName(AtPosition @@ WorkDone),
     LinkedEditingRanges |-> Struct(<<"ranges" :> Vec(Ref("Range")), "wordPattern" :> Opt(Str)>>)]

-----------------------------------------------------------------------------
(* lsp/rename.rs *)

RenameTypes ==
    [RenameParams |-> ByName(AtPosition @@ [newName |-> Str]),
     PrepareRenameResponse |-> Union(<<Ref("Range"), ByName([range |-> Ref("Range"),
         placeholder |-> Str]), ByName([defaultBehavior |-> Bool])>>),
     RenameOptions |-> Struct(Flags(<<"workDoneProgress", "prepareProvider">>))]

-----------------------------------------------------------------------------
(* lsp/semantic_tokens.rs *)

SemanticTokensTypes ==
    [SemanticTokensLegend |-> Struct(<<"tokenTypes" :> Vec(Str), "tokenModifiers" :> Vec(Str)>>),
     SemanticTokensParams |-> ByName(WorkDone @@ Partial @@
         [textDocument |-> Ref("TextDocumentIdentifier")]),
     SemanticTokensDeltaParams |-> ByName(WorkDone @@ Partial @@
         [textDocument |-> Ref("TextDocumentIdentifier"), previousResultId |-> Str]),
     SemanticTokensRangeParams |-> ByName(WorkDone @@ Partial @@
         [textDocument |-> Ref("TextDocumentIdentifier"), range |-> Ref("Range")]),
     SemanticTokens |-> Struct(<<"resultId" :> Opt(Str), "data" :> Vec(Num)>>),
     SemanticTokensDeltaResult |-> Union(<<Ref("SemanticTokens"), Ref("SemanticTokensDelta")>>),
     SemanticTokensDelta |-> Struct(<<"resultId" :> Opt(Str),
         "edits" :> Vec(Ref("SemanticTokensEdit"))>>),
     SemanticTokensEdit |-> Struct(<<"start" :> Num, "deleteCount" :> Num,
         "data" :> Opt(Vec(Num))>>),
     SemanticTokensFullOptions |-> Union(<<Bool, ByName([delta |-> Opt(Bool)])>>),
     SemanticTokensOptions |-> Struct(<<"workDoneProgress" :> Opt(Bool),
         "legend" :> Ref("SemanticTokensLegend"), "range" :> Opt(Bool),
         "full" :> Opt(Ref("SemanticTokensFullOptions"))>>)]

-----------------------------------------------------------------------------
(* lsp/signature.rs *)

SignatureTypes ==
    [SignatureHelpParams |-> ByName(AtPosition @@ WorkDone @@
         [context |-> Opt(Ref("SignatureHelpContext"))]),
     SignatureHelpContext |-> Struct(<<"triggerKind" :> Ref("SignatureHelpTriggerKind"),
         "triggerCharacter" :> Opt(Str), "isRetrigger" :> Bool,
         "activeSignatureHelp" :> Opt(Ref("SignatureHelp"))>>),
     SignatureHelp |-> Struct(<<"signatures" :> Vec(Ref("SignatureInformation")),
         "activeSignature" :> Opt(Num), "activeParameter" :> Opt(Num)>>),
     SignatureInformation |-> Struct(<<"label" :> Str,
         "documentation" :> Opt(Ref("Documentation")),
         "parameters" :> Opt(Vec(Ref("ParameterInformation"))), "activeParameter" :> Opt(Num)>>),
     ParameterInformation |-> Struct(<<"label" :> Ref("ParameterLabel"),
         "documentation" :> Opt(Ref("Documentation"))>>),
     ParameterLabel |-> Union(<<Str, Tuple(<<Num, Num>>)>>),
     Documentation |-> Union(<<Str, Ref("MarkupContent")>>)]

-----------------------------------------------------------------------------
(* lsp/symbols.rs *)

DocumentSymbolTypes ==
    [DocumentSymbolParams |-> ByName(WorkDone @@ Partial @@
         [textDocument |-> Ref("TextDocumentIdentifier")]),
     DocumentSymbolOptions |-> Struct(<<"workDoneProgress" :> Opt(Bool), "label" :> Opt(Str)>>),
     DocumentSymbolResponse |-> Union(<<Vec(Ref("DocumentSymbol")),
         Vec(Ref("SymbolInformation"))>>),
     DocumentSymbol |-> Struct(<<"name" :> Str, "detail" :> Opt(Str), "kind" :> Ref("SymbolKind"),
         "tags" :> Opt(Vec(Ref("SymbolTag"))), "deprecated" :> Opt(Bool), "range" :> Ref("Range"),
         "selectionRange" :> Ref("Range"), "children" :> Opt(Vec(Ref("DocumentSymbol")))>>)]

WorkspaceSymbolTypes ==
    [SymbolInformation |-> Struct(<<"name" :> Str, "kind" :> Ref("SymbolKind"),
         "tags" :> Opt(Vec(Ref("SymbolTag"))), "deprecated" :> Opt(Bool),
         "location" :> Ref("Location"), "containerName" :> Opt(Str)>>),
     WorkspaceSymbolParams |-> ByName(WorkDone @@ Partial @@ [query |-> Str]),
     WorkspaceSymbolResponse |-> Union(<<Vec(Ref("SymbolInformation")),
         Vec(Ref("WorkspaceSymbol"))>>),
     WorkspaceSymbol |-> Struct(<<"name" :> Str, "kind" :> Ref("SymbolKind"),
         "tags" :> Opt(Vec(Ref("SymbolTag"))), "containerName" :> Opt(Str),
         "location" :> Ref("WorkspaceSymbolLocation"), "data" :> Opt(AnyValue)>>)]

\* Mutant: the alternative without a range comes first.
WorkspaceSymbolLocationType_UriFirst ==
    [WorkspaceSymbolLocation |-> Union(<<ByName([uri |-> Str]), Ref("Location")>>)]

WorkspaceSymbolLocationType ==
    [WorkspaceSymbolLocation |-> Union(<<Ref("Location"), ByName([uri |-> Str])>>)]

WorkspaceSymbolOptionsType ==
    [WorkspaceSymbolOptions |-> Struct(Flags(<<"workDoneProgress", "resolveProvider">>))]

-----------------------------------------------------------------------------
(* lsp/trace.rs *)

TraceTypes ==
    [TraceValue |-> Words({"off", "messages", "verbose"}),
     SetTraceParams |-> Struct(<<"value" :> Ref("TraceValue")>>),
     LogTraceParams |-> Struct(<<"message" :> Str, "verbose" :> Opt(Str)>>)]

-----------------------------------------------------------------------------
(* lsp/window.rs *)

WindowTypes ==
    [ShowMessageParams |-> Struct(<<"type" :> Ref("MessageType"), "message" :> Str>>),
     LogMessageParams |-> Struct(<<"type" :> Ref("MessageType"), "message" :> Str>>),
     ShowMessageRequestParams |-> Struct(<<"type" :> Ref("MessageType"), "message" :> Str,
         "actions" :> Opt(Vec(Ref("MessageActionItem")))>>),
     MessageActionItem |-> Struct(<<"title" :> Str>>),
     ShowDocumentParams |-> Struct(<<"uri" :> Str>> \o Flags(<<"external", "takeFocus">>) \o
         <<"selection" :> Opt(Ref("Range"))>>),
     ShowDocumentResult |-> Struct(<<"success" :> Bool>>)]

-----------------------------------------------------------------------------
(* lsp/workspace.rs *)

WorkspaceTypes ==
    [WorkspaceFolder |-> Struct(<<"uri" :> Str, "name" :> Str>>),
     DidChangeWorkspaceFoldersParams |-> Struct(<<"event" :> Ref("WorkspaceFoldersChangeEvent")>>),
     WorkspaceFoldersChangeEvent |-> Struct(Each(<<"added", "removed">>,
         Vec(Ref("WorkspaceFolder")))),
     ConfigurationParams |-> Struct(<<"items" :> Vec(Ref("ConfigurationItem"))>>),
     ConfigurationItem |-> Struct(<<"scopeUri" :> Opt(Str), "section" :> Opt(Str)>>),
     TextEdit |-> Struct(<<"range" :> Ref("Range"), "newText" :> Str>>),
     WorkspaceEdit |-> ByName([changes |-> Opt(MapTo(Vec(Ref("TextEdit")))),
         documentChanges |-> Opt(Vec(Ref("DocumentChange"))),
         changeAnnotations |-> Opt(MapTo(Ref("ChangeAnnotation"))), rest |-> Rest])]

WorkspaceEditTypes ==
    [DocumentChange |-> Union(<<Ref("TextDocumentEdit"), Ref("ResourceOperation")>>),
     TextDocumentEdit |-> Struct(<<"textDocument" :>
         Ref("OptionalVersionedTextDocumentIdentifier"),
         "edits" :> Vec(Ref("AnnotatedTextEdit"))>>),
     OptionalVersionedTextDocumentIdentifier |-> Struct(<<"uri" :> Str,
         "version" :> Nullable(Num)>>),
     AnnotatedTextEdit |-> Struct(<<"range" :> Ref("Range"), "newText" :> Str,
         "annotationId" :> Opt(Str)>>),
     ResourceOperation |-> Tagged([create |-> Ref("CreateFile"), rename |-> Ref("RenameFile"),
         delete |-> Ref("DeleteFile")]),
     CreateFile |-> Struct(<<"uri" :> Str, "options" :> Opt(Ref("CreateFileOptions")),
         "annotationId" :> Opt(Str)>>),
     CreateFileOptions |-> Struct(Flags(<<"overwrite", "ignoreIfExists">>)),
     RenameFile |-> Struct(<<"oldUri" :> Str, "newUri" :> Str,
         "options" :> Opt(Ref("CreateFileOptions")), "annotationId" :> Opt(Str)>>),
     DeleteFile |-> Struct(<<"uri" :> Str, "options" :> Opt(Ref("DeleteFileOptions")),
         "annotationId" :> Opt(Str)>>)]

WorkspaceEventTypes ==
    [DeleteFileOptions |-> Struct(Flags(<<"recursive", "ignoreIfNotExists">>)),
     ChangeAnnotation |-> Struct(<<"label" :> Str, "needsConfirmation" :> Opt(Bool),
         "description" :> Opt(Str)>>),
     ApplyWorkspaceEditParams |-> Struct(<<"label" :> Opt(Str), "edit" :> Ref("WorkspaceEdit")>>),
     ApplyWorkspaceEditResult |-> Struct(<<"applied" :> Bool, "failureReason" :> Opt(Str),
         "failedChange" :> Opt(Num)>>),
     DidChangeConfigurationParams |-> Struct(<<"settings" :> AnyValue>>),
     DidChangeWatchedFilesParams |-> Struct(<<"changes" :> Vec(Ref("FileEvent"))>>),
     FileEvent |-> Struct(<<"uri" :> Str, "type" :> Ref("FileChangeType")>>),
     ExecuteCommandParams |-> Struct(<<"command" :> Str, "arguments" :> Opt(Vec(AnyValue))>>),
     ExecuteCommandOptions |-> Struct(<<"workDoneProgress" :> Opt(Bool), "commands" :> Vec(Str)>>)]
-----------------------------------------------------------------------------
ProtocolSchemas ==
    BaseTypes @@ ProgressTokenType @@ ProgressTypes @@ CodeActionTypes @@ CommandTypes
        @@ CodeLensTypes @@ DiagnosticType @@ DiagnosticReportTypes @@
        DiagnosticOptionTypes @@ DocumentTypes @@ SyncCapabilityType @@ MessageEnums @@
        SymbolEnums @@ CompletionEnums @@ HoverTypes @@ MarkupType @@ CompletionTypes @@
        CompletionItemTypes @@ GotoTypes @@ ReferenceTypes @@ FileOperationTypes @@
        FormattingTypes @@ HierarchyTypes @@ HierarchyOptionTypes @@ InlayHintTypes @@
        InlayHintLabelTypes @@ InlineCompletionTypes @@ InlineValueTypes @@
        LinkAndColorTypes @@ MonikerTypes @@ NotebookTypes @@ NotebookChangeTypes @@
        FoldingRangeTypes @@ SelectionRangeTypes @@ LinkedEditingTypes @@ RenameTypes @@
        SemanticTokensTypes @@ SignatureTypes @@ DocumentSymbolTypes @@
        WorkspaceSymbolTypes @@ WorkspaceSymbolLocationType @@
        WorkspaceSymbolOptionsType @@ TraceTypes @@ WindowTypes @@ WorkspaceTypes @@
        WorkspaceEditTypes @@ WorkspaceEventTypes
=============================================================================
