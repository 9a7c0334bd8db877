---------------------------- MODULE CapabilityTypes ----------------------------
(***************************************************************************)
(* What the two sides announce to each other: the typed view of the        *)
(* client's capabilities, the server's capabilities, and the registrations *)
(* made later, as schemas of Serde.                                        *)
(***************************************************************************)
EXTENDS ProtocolTypes

-----------------------------------------------------------------------------
(* lsp/client_capabilities.rs *)

TagSupportCapability(T) == Struct(<<"valueSet" :> Many(T)>>)

WorkspaceCapabilities ==
    [DynamicRegistrationCapability |-> Struct(<<"dynamicRegistration" :> Opt(Bool)>>),
     RefreshSupportCapability |-> Struct(<<"refreshSupport" :> Opt(Bool)>>),
     ResolveSupportCapability |-> Struct(<<"properties" :> Many(Str)>>),
     WorkspaceClientCapabilities |-> Struct(<<"applyEdit" :> Opt(Bool),
         "workspaceEdit" :> Opt(Ref("WorkspaceEditClientCapabilities")),
         "didChangeConfiguration" :> Opt(Ref("DynamicRegistrationCapability")),
         "didChangeWatchedFiles" :> Opt(Ref("DidChangeWatchedFilesClientCapabilities")),
         "symbol" :> Opt(Ref("WorkspaceSymbolClientCapabilities")),
         "executeCommand" :> Opt(Ref("DynamicRegistrationCapability"))>> \o
         Flags(<<"workspaceFolders", "configuration">>) \o Each(<<"semanticTokens", "codeLens">>,
         Opt(Ref("RefreshSupportCapability"))) \o
         <<"fileOperations" :> Opt(Ref("FileOperationClientCapabilities"))>> \o
         Each(<<"inlineValue", "inlayHint", "diagnostics">>,
         Opt(Ref("RefreshSupportCapability")))),
     WorkspaceEditClientCapabilities |-> Struct(<<"documentChanges" :> Opt(Bool),
         "resourceOperations" :> Many(Ref("ResourceOperationKind")),
         "failureHandling" :> Opt(Ref("FailureHandlingKind")),
         "normalizesLineEndings" :> Opt(Bool),
         "changeAnnotationSupport" :> Opt(Ref("ChangeAnnotationSupportCapability"))>>),
     ResourceOperationKind |-> Words({"create", "rename", "delete"})]

WorkspaceAndWindowCapabilities ==
    [FailureHandlingKind |-> Words({"abort", "transactional", "undo", "textOnlyTransactional"}),
     ChangeAnnotationSupportCapability |-> Struct(<<"groupsOnLabel" :> Opt(Bool)>>),
     DidChangeWatchedFilesClientCapabilities |-> Struct(Flags(<<"dynamicRegistration",
         "relativePatternSupport">>)),
     WorkspaceSymbolClientCapabilities |-> Struct(<<"dynamicRegistration" :> Opt(Bool),
         "symbolKind" :> Opt(Ref("SymbolKindCapability")),
         "tagSupport" :> Opt(TagSupportCapability(Ref("SymbolTag"))),
         "resolveSupport" :> Opt(Ref("ResolveSupportCapability"))>>),
     SymbolKindCapability |-> Struct(<<"valueSet" :> Opt(Vec(Ref("SymbolKind")))>>),
     FileOperationClientCapabilities |-> Struct(Flags(<<"dynamicRegistration", "didCreate",
         "willCreate", "didRename", "willRename", "didDelete", "willDelete">>)),
     WindowClientCapabilities |-> Struct(<<"workDoneProgress" :> Opt(Bool),
         "showMessage" :> Opt(Ref("ShowMessageClientCapabilities")),
         "showDocument" :> Opt(Ref("ShowDocumentClientCapabilities"))>>),
     ShowMessageClientCapabilities |-> Struct(<<"messageActionItem" :>
         Opt(Ref("MessageActionItemCapability"))>>),
     MessageActionItemCapability |-> Struct(<<"additionalPropertiesSupport" :> Opt(Bool)>>),
     ShowDocumentClientCapabilities |-> Struct(<<"support" :> Bool>>)]

GeneralCapabilities ==
    [GeneralClientCapabilities |-> Struct(<<"staleRequestSupport" :>
         Opt(Ref("StaleRequestSupportCapability")),
         "regularExpressions" :> Opt(Ref("RegularExpressionsClientCapabilities")),
         "markdown" :> Opt(Ref("MarkdownClientCapabilities")),
         "positionEncodings" :> Many(Ref("PositionEncodingKind"))>>),
     StaleRequestSupportCapability |-> Struct(<<"cancel" :> Opt(Bool),
         "retryOnContentModified" :> Many(Str)>>),
     RegularExpressionsClientCapabilities |-> Struct(<<"engine" :> Opt(Str),
         "version" :> Opt(Str)>>),
     MarkdownClientCapabilities |-> Struct(<<"parser" :> Opt(Str), "version" :> Opt(Str),
         "allowedTags" :> Many(Str)>>),
     NotebookDocumentClientCapabilities |-> Struct(<<"synchronization" :>
         Default(Ref("NotebookDocumentSyncClientCapabilities"))>>),
     NotebookDocumentSyncClientCapabilities |-> Struct(Flags(<<"dynamicRegistration",
         "executionSummarySupport">>)),
     GotoClientCapabilities |-> Struct(Flags(<<"dynamicRegistration", "linkSupport">>))]

TextDocumentCapabilities ==
    [TextDocumentClientCapabilities |-> Struct(<<"synchronization" :>
         Opt(Ref("TextDocumentSyncClientCapabilities")),
         "completion" :> Opt(Ref("CompletionClientCapabilities")),
         "hover" :> Opt(Ref("HoverClientCapabilities")),
         "signatureHelp" :> Opt(Ref("SignatureHelpClientCapabilities"))>> \o Each(<<"declaration",
         "definition", "typeDefinition", "implementation">>, Opt(Ref("GotoClientCapabilities")))
         \o Each(<<"references", "documentHighlight">>, Opt(Ref("DynamicRegistrationCapability")))
         \o <<"documentSymbol" :> Opt(Ref("DocumentSymbolClientCapabilities")),
         "codeAction" :> Opt(Ref("CodeActionClientCapabilities")),
         "codeLens" :> Opt(Ref("DynamicRegistrationCapability")),
         "documentLink" :> Opt(Ref("DocumentLinkClientCapabilities"))>> \o Each(<<"colorProvider",
         "formatting", "rangeFormatting", "onTypeFormatting">>,
         Opt(Ref("DynamicRegistrationCapability"))) \o
         <<"rename" :> Opt(Ref("RenameClientCapabilities")),
         "foldingRange" :> Opt(Ref("FoldingRangeClientCapabilities")),
         "selectionRange" :> Opt(Ref("DynamicRegistrationCapability")),
         "publishDiagnostics" :> Opt(Ref("PublishDiagnosticsClientCapabilities")),
         "callHierarchy" :> Opt(Ref("DynamicRegistrationCapability")),
         "semanticTokens" :> Opt(Ref("SemanticTokensClientCapabilities"))>> \o
         Each(<<"linkedEditingRange", "moniker", "typeHierarchy", "inlineValue">>,
         Opt(Ref("DynamicRegistrationCapability"))) \o
         <<"inlayHint" :> Opt(Ref("InlayHintClientCapabilities")),
         "diagnostic" :> Opt(Ref("DiagnosticClientCapabilities"))>>),
     TextDocumentSyncClientCapabilities |-> Struct(Flags(<<"dynamicRegistration", "willSave",
         "willSaveWaitUntil", "didSave">>)),
     CompletionClientCapabilities |-> Struct(<<"dynamicRegistration" :> Opt(Bool),
         "completionItem" :> Opt(Ref("CompletionItemCapability")),
         "completionItemKind" :> Opt(Ref("CompletionItemKindCapability")),
         "insertTextMode" :> Opt(Ref("InsertTextMode")), "contextSupport" :> Opt(Bool),
         "completionList" :> Opt(Ref("CompletionListCapability"))>>)]

CompletionCapabilities ==
    [CompletionItemCapability |-> Struct(Flags(<<"snippetSupport", "commitCharactersSupport">>) \o
         <<"documentationFormat" :> Many(Ref("MarkupKind"))>> \o Flags(<<"deprecatedSupport",
         "preselectSupport">>) \o
         <<"tagSupport" :> Opt(TagSupportCapability(Ref("CompletionItemTag"))),
         "insertReplaceSupport" :> Opt(Bool),
         "resolveSupport" :> Opt(Ref("ResolveSupportCapability")),
         "insertTextModeSupport" :> Opt(Ref("InsertTextModeSupportCapability")),
         "labelDetailsSupport" :> Opt(Bool)>>),
     InsertTextModeSupportCapability |-> Struct(<<"valueSet" :> Many(Ref("InsertTextMode"))>>),
     CompletionItemKindCapability |-> Struct(<<"valueSet" :>
         Opt(Vec(Ref("CompletionItemKind")))>>),
     CompletionListCapability |-> Struct(<<"itemDefaults" :> Many(Str)>>),
     HoverClientCapabilities |-> Struct(<<"dynamicRegistration" :> Opt(Bool),
         "contentFormat" :> Many(Ref("MarkupKind"))>>),
     SignatureHelpClientCapabilities |-> Struct(<<"dynamicRegistration" :> Opt(Bool),
         "signatureInformation" :> Opt(Ref("SignatureInformationCapability")),
         "contextSupport" :> Opt(Bool)>>),
     SignatureInformationCapability |-> Struct(<<"documentationFormat" :> Many(Ref("MarkupKind")),
         "parameterInformation" :> Opt(Ref("ParameterInformationCapability")),
         "activeParameterSupport" :> Opt(Bool)>>),
     ParameterInformationCapability |-> Struct(<<"labelOffsetSupport" :> Opt(Bool)>>),
     DocumentSymbolClientCapabilities |-> Struct(<<"dynamicRegistration" :> Opt(Bool),
         "symbolKind" :> Opt(Ref("SymbolKindCapability")),
         "hierarchicalDocumentSymbolSupport" :> Opt(Bool),
         "tagSupport" :> Opt(TagSupportCapability(Ref("SymbolTag"))),
         "labelSupport" :> Opt(Bool)>>)]

CodeActionCapabilities ==
    [CodeActionClientCapabilities |-> Struct(<<"dynamicRegistration" :> Opt(Bool),
         "codeActionLiteralSupport" :> Opt(Ref("CodeActionLiteralSupportCapability"))>> \o
         Flags(<<"isPreferredSupport", "disabledSupport", "dataSupport">>) \o
         <<"resolveSupport" :> Opt(Ref("ResolveSupportCapability")),
         "honorsChangeAnnotations" :> Opt(Bool)>>),
     CodeActionLiteralSupportCapability |-> Struct(<<"codeActionKind" :>
         Default(Ref("CodeActionKindCapability"))>>),
     CodeActionKindCapability |-> Struct(<<"valueSet" :> Many(Str)>>),
     DocumentLinkClientCapabilities |-> Struct(Flags(<<"dynamicRegistration", "tooltipSupport">>)),
     RenameClientCapabilities |-> Struct(Flags(<<"dynamicRegistration", "prepareSupport">>) \o
         <<"prepareSupportDefaultBehavior" :> Opt(Ref("PrepareSupportDefaultBehavior")),
         "honorsChangeAnnotations" :> Opt(Bool)>>),
     FoldingRangeClientCapabilities |-> Struct(<<"dynamicRegistration" :> Opt(Bool),
         "rangeLimit" :> Opt(Num), "lineFoldingOnly" :> Opt(Bool),
         "foldingRangeKind" :> Opt(Ref("FoldingRangeKindCapability")),
         "foldingRange" :> Opt(Ref("FoldingRangeCollapsedTextCapability"))>>),
     FoldingRangeKindCapability |-> Struct(<<"valueSet" :> Opt(Vec(Str))>>),
     FoldingRangeCollapsedTextCapability |-> Struct(<<"collapsedText" :> Opt(Bool)>>),
     PublishDiagnosticsClientCapabilities |-> Struct(<<"relatedInformation" :> Opt(Bool),
         "tagSupport" :> Opt(TagSupportCapability(Ref("DiagnosticTag")))>> \o
         Flags(<<"versionSupport", "codeDescriptionSupport", "dataSupport">>))]

SemanticTokensCapabilities ==
    [SemanticTokensClientCapabilities |-> Struct(<<"dynamicRegistration" :> Opt(Bool),
         "requests" :> Default(Ref("SemanticTokensRequestsCapability"))>> \o Each(<<"tokenTypes",
         "tokenModifiers", "formats">>, Many(Str)) \o Flags(<<"overlappingTokenSupport",
         "multilineTokenSupport", "serverCancelSupport", "augmentsSyntaxTokens">>)),
     SemanticTokensRequestsCapability |-> Struct(<<"range" :>
         Opt(Ref("SemanticTokensRangeClientCapability")),
         "full" :> Opt(Ref("SemanticTokensFullClientCapability"))>>),
     SemanticTokensRangeClientCapability |-> Union(<<Bool, Ref("EmptyCapability")>>),
     SemanticTokensFullClientCapability |-> Union(<<Bool,
         Ref("SemanticTokensFullClientCapabilityOptions")>>),
     SemanticTokensFullClientCapabilityOptions |-> Struct(<<"delta" :> Opt(Bool)>>),
     EmptyCapability |-> Struct(<<>>),
     InlayHintClientCapabilities |-> Struct(<<"dynamicRegistration" :> Opt(Bool),
         "resolveSupport" :> Opt(Ref("ResolveSupportCapability"))>>),
     DiagnosticClientCapabilities |-> Struct(Flags(<<"dynamicRegistration",
         "relatedDocumentSupport">>))]

-----------------------------------------------------------------------------
(* lsp/lifecycle.rs *)

InitializeParamsType ==
    [InitializeParams |-> ByName([processId |-> Opt(Num), clientInfo |-> Opt(Ref("ClientInfo")),
         rootUri |-> Opt(Str), workspaceFolders |-> Opt(Vec(Ref("WorkspaceFolder"))),
         capabilities |-> Default(MapTo(AnyValue)), initializationOptions |-> Opt(AnyValue),
         rest |-> Rest])]

ClientInfoType ==
    [ClientInfo |-> Struct(<<"name" :> Str, "version" :> Opt(Str)>>)]

InitializeResultTypes ==
    [InitializeResult |-> Struct(<<"capabilities" :> Ref("ServerCapabilities"),
         "serverInfo" :> Opt(Ref("ServerInfo"))>>),
     ServerInfo |-> Struct(<<"name" :> Str, "version" :> Opt(Str)>>)]

ServerCapabilityTypes ==
    [ServerCapabilities |-> ByName([positionEncoding |-> Opt(Ref("PositionEncodingKind")),
         textDocumentSync |-> Opt(Ref("TextDocumentSyncCapability")),
         hoverProvider |-> Opt(Ref("HoverProviderCapability")),
         completionProvider |-> Opt(Ref("CompletionOptions")),
         definitionProvider |-> Opt(Ref("DefinitionProviderCapability")),
         declarationProvider |-> Opt(Ref("DeclarationProviderCapability")),
         typeDefinitionProvider |-> Opt(Ref("TypeDefinitionProviderCapability")),
         implementationProvider |-> Opt(Ref("ImplementationProviderCapability")),
         referencesProvider |-> Opt(Ref("ReferencesProviderCapability")),
         documentHighlightProvider |-> Opt(Ref("DocumentHighlightProviderCapability")),
         documentSymbolProvider |-> Opt(Ref("DocumentSymbolProviderCapability")),
         workspaceSymbolProvider |-> Opt(Ref("WorkspaceSymbolProviderCapability")),
         signatureHelpProvider |-> Opt(Ref("SignatureHelpOptions")),
         codeActionProvider |-> Opt(Ref("CodeActionProviderCapability")),
         renameProvider |-> Opt(Ref("RenameProviderCapability")),
         executeCommandProvider |-> Opt(Ref("ExecuteCommandOptions")),
         documentFormattingProvider |-> Opt(Ref("DocumentFormattingProviderCapability")),
         documentRangeFormattingProvider |-> Opt(Ref("DocumentRangeFormattingProviderCapability")),
         documentOnTypeFormattingProvider |-> Opt(Ref("DocumentOnTypeFormattingOptions")),
         foldingRangeProvider |-> Opt(Ref("FoldingRangeProviderCapability")),
         selectionRangeProvider |-> Opt(Ref("SelectionRangeProviderCapability")),
         codeLensProvider |-> Opt(Ref("CodeLensOptions")),
         documentLinkProvider |-> Opt(Ref("DocumentLinkOptions")),
         colorProvider |-> Opt(Ref("ColorProviderCapability")),
         semanticTokensProvider |-> Opt(Ref("SemanticTokensOptions")),
         inlayHintProvider |-> Opt(Ref("InlayHintOptions")),
         diagnosticProvider |-> Opt(Ref("DiagnosticOptions")),
         workspace |-> Opt(Ref("WorkspaceServerCapabilities")),
         callHierarchyProvider |-> Opt(Ref("CallHierarchyProviderCapability")),
         typeHierarchyProvider |-> Opt(Ref("TypeHierarchyProviderCapability")),
         notebookDocumentSync |-> Opt(Ref("NotebookDocumentSyncOptions")),
         monikerProvider |-> Opt(Ref("MonikerProviderCapability")),
         linkedEditingRangeProvider |-> Opt(Ref("LinkedEditingRangeProviderCapability")),
         inlineValueProvider |-> Opt(Ref("InlineValueProviderCapability")),
         inlineCompletionProvider |-> Opt(Bool), rest |-> Rest]),
     WorkspaceServerCapabilities |-> Struct(<<"workspaceFolders" :>
         Opt(Ref("WorkspaceFoldersServerCapabilities")),
         "fileOperations" :> Opt(Ref("FileOperationsServerCapabilities"))>>)]

ProviderTypes ==
    [WorkspaceFoldersServerCapabilities |-> Struct(<<"supported" :> Opt(Bool),
         "changeNotifications" :> Opt(Ref("WorkspaceFoldersChangeNotifications"))>>),
     WorkspaceFoldersChangeNotifications |-> Union(<<Bool, Str>>),
     CompletionOptions |-> Struct(<<"workDoneProgress" :> Opt(Bool),
         "triggerCharacters" :> Many(Str), "allCommitCharacters" :> Opt(Vec(Str)),
         "resolveProvider" :> Opt(Bool),
         "completionItem" :> Opt(Ref("CompletionOptionsCompletionItem"))>>),
     CompletionOptionsCompletionItem |-> Struct(<<"labelDetailsSupport" :> Opt(Bool)>>),
     SignatureHelpOptions |-> Struct(<<"workDoneProgress" :> Opt(Bool),
         "triggerCharacters" :> Many(Str), "retriggerCharacters" :> Many(Str)>>),
     CodeActionProviderCapability |-> Union(<<Bool, Ref("CodeActionOptions")>>),
     RenameProviderCapability |-> Union(<<Bool, Ref("RenameOptions")>>),
     WorkspaceSymbolProviderCapability |-> Union(<<Bool, Ref("WorkspaceSymbolOptions")>>),
     CallHierarchyProviderCapability |-> Union(<<Bool, Ref("CallHierarchyOptions")>>)]

\* The unions of the macro work_done_progress_provider_capability!
WorkDoneProviderTypes ==
    [t \in {"HoverProviderCapability", "DefinitionProviderCapability",
     "DeclarationProviderCapability", "TypeDefinitionProviderCapability",
     "ImplementationProviderCapability", "ReferencesProviderCapability",
     "DocumentHighlightProviderCapability", "DocumentFormattingProviderCapability",
     "DocumentRangeFormattingProviderCapability", "FoldingRangeProviderCapability",
     "SelectionRangeProviderCapability", "ColorProviderCapability",
     "MonikerProviderCapability", "LinkedEditingRangeProviderCapability",
     "InlineValueProviderCapability"} |->
        Union(<<Bool, Ref("WorkDoneProgressOptions")>>)]


TypeHierarchyProviderType ==
    [TypeHierarchyProviderCapability |-> Union(<<Bool, Ref("TypeHierarchyOptions")>>)]

DocumentSymbolProviderType ==
    [DocumentSymbolProviderCapability |-> Union(<<Bool, Ref("DocumentSymbolOptions")>>)]

-----------------------------------------------------------------------------
(* lsp/registration.rs *)

RegistrationType ==
    [Registration |-> Struct(<<"id" :> Str, "method" :> Str, "registerOptions" :> Opt(AnyValue)>>)]

RegistrationParamsTypes ==
    [RegistrationParams |-> Struct(<<"registrations" :> Vec(Ref("Registration"))>>),
     Unregistration |-> Struct(<<"id" :> Str, "method" :> Str>>),
     UnregistrationParams |-> Struct(<<"unregisterations" :> Vec(Ref("Unregistration"))>>)]

DocumentFilterType ==
    [DocumentFilter |-> Struct(Each(<<"language", "scheme", "pattern">>, Opt(Str)))]

TextDocumentRegistrationType ==
    [TextDocumentRegistrationOptions |-> Struct(<<"documentSelector" :>
         Nullable(Vec(Ref("DocumentFilter")))>>)]

WatcherTypes ==
    [GlobPattern |-> Union(<<Str, Ref("RelativePattern")>>),
     RelativePattern |-> Struct(<<"baseUri" :> Str, "pattern" :> Str>>),
     FileSystemWatcher |-> Struct(<<"globPattern" :> Ref("GlobPattern"), "kind" :> Opt(Num)>>)]

WatchedFilesRegistrationType ==
    [DidChangeWatchedFilesRegistrationOptions |-> Struct(<<"watchers" :>
         Vec(Ref("FileSystemWatcher"))>>)]

SimpleRegistrationTypes ==
    [StaticRegistrationOptions |-> Struct(<<"id" :> Opt(Str)>>),
     SimpleRegistrationOptions |-> Struct(<<"documentSelector" :> Opt(Vec(Ref("DocumentFilter"))),
         "workDoneProgress" :> Opt(Bool), "id" :> Opt(Str)>>)]

FeatureRegistrationTypes ==
    [SemanticTokensRegistrationOptions |-> ByName(SemanticTokensTypes.SemanticTokensOptions.struct
         @@ [documentSelector |-> Opt(Vec(Ref("DocumentFilter"))), id |-> Opt(Str)]),
     DiagnosticRegistrationOptions |-> ByName(DiagnosticOptionTypes.DiagnosticOptions.struct @@
         [documentSelector |-> Opt(Vec(Ref("DocumentFilter"))), id |-> Opt(Str)]),
     CallHierarchyRegistrationOptions |-> ByName(HierarchyOptionTypes.CallHierarchyOptions.struct
         @@ [documentSelector |-> Opt(Vec(Ref("DocumentFilter"))), id |-> Opt(Str)]),
     TypeHierarchyRegistrationOptions |-> ByName(HierarchyOptionTypes.TypeHierarchyOptions.struct
         @@ [documentSelector |-> Opt(Vec(Ref("DocumentFilter"))), id |-> Opt(Str)])]
-----------------------------------------------------------------------------
CapabilitySchemas ==
    WorkspaceCapabilities @@ WorkspaceAndWindowCapabilities @@ GeneralCapabilities @@
        TextDocumentCapabilities @@ CompletionCapabilities @@ CodeActionCapabilities @@
        SemanticTokensCapabilities @@ InitializeParamsType @@ ClientInfoType @@
        InitializeResultTypes @@ ServerCapabilityTypes @@ ProviderTypes @@
        TypeHierarchyProviderType @@ DocumentSymbolProviderType @@ RegistrationType @@
        RegistrationParamsTypes @@ DocumentFilterType @@ TextDocumentRegistrationType @@
        WatcherTypes @@ WatchedFilesRegistrationType @@ SimpleRegistrationTypes @@
        FeatureRegistrationTypes @@ WorkDoneProviderTypes

\* The schema of every type, by name.
Types == ProtocolSchemas @@ CapabilitySchemas
=============================================================================
