-------------------------------- MODULE Dispatch --------------------------------
(***************************************************************************)
(* From a message to its handler and back, in both directions: the routes  *)
(* of dispatch_request and dispatch_notification (src/src/server.rs), what *)
(* a handler that the application leaves out returns (src/src/service.rs), *)
(* and the calls that Client wraps (src/src/client.rs).                    *)
(*                                                                         *)
(* The messages are those between initialize and shutdown, one at a time:  *)
(* the order of several is module LspServer.  An outcome is the value of a *)
(* handler's Option, as a set of at most one, or what it failed with.      *)
(***************************************************************************)
EXTENDS CapabilityTypes, JsonRpc

-----------------------------------------------------------------------------
(* Results *)

NoValue == [none |-> TRUE]
GivenValue == [same |-> TRUE]
Maybe(T) == [type |-> T, optional |-> TRUE, default |-> NoValue]
Same(T) == [type |-> T, optional |-> FALSE, default |-> GivenValue]
Else(T, v) == [type |-> T, optional |-> FALSE, default |-> [value |-> v]]
\* (), which is written as null and read from nothing else.
Nothing == Maybe(Words({}))

ToJson(result, outcome) == IF outcome = {} THEN Null ELSE Encode(Types, result.type, Only(outcome))

\* The outcomes that json reads as: one, or none where it is an error.
FromJson(result, json) ==
    IF json = Null /\ result.optional THEN {{}}
    ELSE {{v} : v \in Decode(Types, result.type, json)}

-----------------------------------------------------------------------------
(* The routes: the handler of a method, and the type of its parameters *)

To(handler, params) == [handler |-> handler, params |-> params]

NavigationAndEditRequests ==
    "textDocument/hover" :> To("hover", "HoverParams")
    @@ "textDocument/completion" :> To("completion", "CompletionParams")
    @@ "textDocument/definition" :> To("definition", "DefinitionParams")
    @@ "textDocument/declaration" :> To("declaration", "DeclarationParams")
    @@ "textDocument/typeDefinition" :> To("type_definition", "TypeDefinitionParams")
    @@ "textDocument/implementation" :> To("implementation", "ImplementationParams")
    @@ "textDocument/references" :> To("references", "ReferenceParams")
    @@ "textDocument/documentHighlight" :> To("document_highlight", "DocumentHighlightParams")
    @@ "completionItem/resolve" :> To("completion_resolve", "CompletionItem")
    @@ "textDocument/documentSymbol" :> To("document_symbol", "DocumentSymbolParams")
    @@ "workspace/symbol" :> To("symbol", "WorkspaceSymbolParams")
    @@ "workspaceSymbol/resolve" :> To("workspace_symbol_resolve", "WorkspaceSymbol")
    @@ "textDocument/signatureHelp" :> To("signature_help", "SignatureHelpParams")
    @@ "textDocument/codeAction" :> To("code_action", "CodeActionParams")
    @@ "codeAction/resolve" :> To("code_action_resolve", "CodeAction")
    @@ "textDocument/rename" :> To("rename", "RenameParams")
    @@ "textDocument/prepareRename" :> To("prepare_rename", "TextDocumentPositionParams")
    @@ "workspace/executeCommand" :> To("execute_command", "ExecuteCommandParams")
    @@ "textDocument/formatting" :> To("formatting", "DocumentFormattingParams")
    @@ "textDocument/rangeFormatting" :> To("range_formatting", "DocumentRangeFormattingParams")
    @@ "textDocument/onTypeFormatting" :>
            To("on_type_formatting", "DocumentOnTypeFormattingParams")
    @@ "textDocument/foldingRange" :> To("folding_range", "FoldingRangeParams")
    @@ "textDocument/selectionRange" :> To("selection_range", "SelectionRangeParams")
    @@ "textDocument/codeLens" :> To("code_lens", "CodeLensParams")
    @@ "codeLens/resolve" :> To("code_lens_resolve", "CodeLens")
    @@ "textDocument/documentLink" :> To("document_link", "DocumentLinkParams")
    @@ "documentLink/resolve" :> To("document_link_resolve", "DocumentLink")
    @@ "textDocument/documentColor" :> To("document_color", "DocumentColorParams")
    @@ "textDocument/colorPresentation" :> To("color_presentation", "ColorPresentationParams")

OtherRequests ==
    "textDocument/semanticTokens/full" :> To("semantic_tokens_full", "SemanticTokensParams")
    @@ "textDocument/semanticTokens/full/delta" :>
            To("semantic_tokens_full_delta", "SemanticTokensDeltaParams")
    @@ "textDocument/semanticTokens/range" :>
            To("semantic_tokens_range", "SemanticTokensRangeParams")
    @@ "textDocument/inlayHint" :> To("inlay_hint", "InlayHintParams")
    @@ "inlayHint/resolve" :> To("inlay_hint_resolve", "InlayHint")
    @@ "textDocument/diagnostic" :> To("diagnostic", "DocumentDiagnosticParams")
    @@ "workspace/diagnostic" :> To("workspace_diagnostic", "WorkspaceDiagnosticParams")
    @@ "textDocument/willSaveWaitUntil" :>
            To("will_save_wait_until", "WillSaveTextDocumentParams")
    @@ "workspace/willCreateFiles" :> To("will_create_files", "CreateFilesParams")
    @@ "workspace/willRenameFiles" :> To("will_rename_files", "RenameFilesParams")
    @@ "workspace/willDeleteFiles" :> To("will_delete_files", "DeleteFilesParams")
    @@ "textDocument/prepareCallHierarchy" :>
            To("prepare_call_hierarchy", "CallHierarchyPrepareParams")
    @@ "callHierarchy/incomingCalls" :> To("incoming_calls", "CallHierarchyIncomingCallsParams")
    @@ "callHierarchy/outgoingCalls" :> To("outgoing_calls", "CallHierarchyOutgoingCallsParams")
    @@ "textDocument/prepareTypeHierarchy" :>
            To("prepare_type_hierarchy", "TypeHierarchyPrepareParams")
    @@ "typeHierarchy/supertypes" :> To("supertypes", "TypeHierarchySupertypesParams")
    @@ "typeHierarchy/subtypes" :> To("subtypes", "TypeHierarchySubtypesParams")
    @@ "textDocument/moniker" :> To("moniker", "MonikerParams")
    @@ "textDocument/linkedEditingRange" :>
            To("linked_editing_range", "LinkedEditingRangeParams")
    @@ "textDocument/inlineValue" :> To("inline_value", "InlineValueParams")
    @@ "textDocument/inlineCompletion" :> To("inline_completion", "InlineCompletionParams")

NotificationRoutes ==
    "textDocument/didOpen" :> To("did_open", "DidOpenTextDocumentParams")
    @@ "textDocument/didChange" :> To("did_change", "DidChangeTextDocumentParams")
    @@ "textDocument/didClose" :> To("did_close", "DidCloseTextDocumentParams")
    @@ "textDocument/didSave" :> To("did_save", "DidSaveTextDocumentParams")
    @@ "workspace/didChangeWorkspaceFolders" :>
            To("did_change_workspace_folders", "DidChangeWorkspaceFoldersParams")
    @@ "window/workDoneProgress/cancel" :>
            To("work_done_progress_cancel", "WorkDoneProgressCancelParams")
    @@ "workspace/didChangeConfiguration" :>
            To("did_change_configuration", "DidChangeConfigurationParams")
    @@ "workspace/didChangeWatchedFiles" :>
            To("did_change_watched_files", "DidChangeWatchedFilesParams")
    @@ "textDocument/willSave" :> To("will_save", "WillSaveTextDocumentParams")
    @@ "workspace/didCreateFiles" :> To("did_create_files", "CreateFilesParams")
    @@ "workspace/didRenameFiles" :> To("did_rename_files", "RenameFilesParams")
    @@ "workspace/didDeleteFiles" :> To("did_delete_files", "DeleteFilesParams")
    @@ "$/setTrace" :> To("set_trace", "SetTraceParams")
    @@ "notebookDocument/didOpen" :>
            To("did_open_notebook_document", "DidOpenNotebookDocumentParams")
    @@ "notebookDocument/didChange" :>
            To("did_change_notebook_document", "DidChangeNotebookDocumentParams")
    @@ "notebookDocument/didSave" :>
            To("did_save_notebook_document", "DidSaveNotebookDocumentParams")
    @@ "notebookDocument/didClose" :>
            To("did_close_notebook_document", "DidCloseNotebookDocumentParams")

-----------------------------------------------------------------------------
(* The handlers' results, and what they return where they are left out *)

NoItems == [vec |-> <<>>]
EmptyReport == [variant |-> "full", of |-> [struct |-> [items |-> NoItems]]]

NavigationResults ==
    [hover |-> Maybe(Ref("Hover")),
     completion |-> Maybe(Ref("CompletionResponse")),
     definition |-> Maybe(Ref("GotoDefinitionResponse")),
     declaration |-> Maybe(Ref("GotoDefinitionResponse")),
     type_definition |-> Maybe(Ref("GotoDefinitionResponse")),
     implementation |-> Maybe(Ref("GotoDefinitionResponse")),
     references |-> Maybe(Vec(Ref("Location"))),
     document_highlight |-> Maybe(Vec(Ref("DocumentHighlight"))),
     completion_resolve |-> Same(Ref("CompletionItem")),
     document_symbol |-> Maybe(Ref("DocumentSymbolResponse")),
     symbol |-> Maybe(Ref("WorkspaceSymbolResponse")),
     workspace_symbol_resolve |-> Same(Ref("WorkspaceSymbol")),
     signature_help |-> Maybe(Ref("SignatureHelp")),
     code_action |-> Maybe(Vec(Ref("CodeActionOrCommand")))]

EditingResults ==
    [code_action_resolve |-> Same(Ref("CodeAction")),
     rename |-> Maybe(Ref("WorkspaceEdit")),
     prepare_rename |-> Maybe(Ref("PrepareRenameResponse")),
     execute_command |-> Maybe(AnyValue),
     formatting |-> Maybe(Vec(Ref("TextEdit"))),
     range_formatting |-> Maybe(Vec(Ref("TextEdit"))),
     on_type_formatting |-> Maybe(Vec(Ref("TextEdit"))),
     folding_range |-> Maybe(Vec(Ref("FoldingRange"))),
     selection_range |-> Maybe(Vec(Ref("SelectionRange"))),
     code_lens |-> Maybe(Vec(Ref("CodeLens"))),
     code_lens_resolve |-> Same(Ref("CodeLens")),
     document_link |-> Maybe(Vec(Ref("DocumentLink")))]

PresentationResults ==
    [document_link_resolve |-> Same(Ref("DocumentLink")),
     document_color |-> Else(Vec(Ref("ColorInformation")), NoItems),
     color_presentation |-> Else(Vec(Ref("ColorPresentation")), NoItems),
     semantic_tokens_full |-> Maybe(Ref("SemanticTokens")),
     semantic_tokens_full_delta |-> Maybe(Ref("SemanticTokensDeltaResult")),
     semantic_tokens_range |-> Maybe(Ref("SemanticTokens")),
     inlay_hint |-> Maybe(Vec(Ref("InlayHint"))),
     inlay_hint_resolve |-> Same(Ref("InlayHint")),
     diagnostic |-> Else(Ref("DocumentDiagnosticReport"), EmptyReport),
     workspace_diagnostic |-> Else(Ref("WorkspaceDiagnosticReport"), [struct |-> [items |-> NoItems]]),
     will_save_wait_until |-> Maybe(Vec(Ref("TextEdit"))),
     will_create_files |-> Maybe(Ref("WorkspaceEdit")),
     will_rename_files |-> Maybe(Ref("WorkspaceEdit"))]

HierarchyResults ==
    [will_delete_files |-> Maybe(Ref("WorkspaceEdit")),
     prepare_call_hierarchy |-> Maybe(Vec(Ref("CallHierarchyItem"))),
     incoming_calls |-> Maybe(Vec(Ref("CallHierarchyIncomingCall"))),
     outgoing_calls |-> Maybe(Vec(Ref("CallHierarchyOutgoingCall"))),
     prepare_type_hierarchy |-> Maybe(Vec(Ref("TypeHierarchyItem"))),
     supertypes |-> Maybe(Vec(Ref("TypeHierarchyItem"))),
     subtypes |-> Maybe(Vec(Ref("TypeHierarchyItem"))),
     moniker |-> Maybe(Vec(Ref("Moniker"))),
     linked_editing_range |-> Maybe(Ref("LinkedEditingRanges")),
     inline_value |-> Maybe(Vec(Ref("InlineValue"))),
     inline_completion |-> Maybe(Ref("InlineCompletionResponse"))]

-----------------------------------------------------------------------------
(* The server's reply to a message *)

Requests == NavigationAndEditRequests @@ OtherRequests
Results == NavigationResults @@ EditingResults @@ PresentationResults @@ HierarchyResults

\* Absent params read as an empty object.
ParseParams(type, params) ==
    Decode(Types, Ref(type), IF params = {} THEN Object(NoMembers) ELSE Only(params))

DefaultOutcome(result, v) ==
    CASE result.default = NoValue -> {}
      [] result.default = GivenValue -> {v}
      [] OTHER -> {result.default.value}

Failed(outcome) == outcome # {} /\ "error" \in DOMAIN Only(outcome)
Failure(err) == {[error |-> err]}
ResponseFailure(code) == Failure([response |-> ErrorOf(code)])

\* The application's handler returns `given`, or is left out.
LeftOut == {[leftOut |-> TRUE]}

DispatchRequest(method, params, given) ==
    IF method \notin DOMAIN Requests
    THEN IF given = LeftOut THEN ResponseFailure(Codes.methodNotFound) ELSE given
    ELSE LET route == Requests[method]
             read == ParseParams(route.params, params)
         IN IF read = {} THEN ResponseFailure(Codes.invalidParams)
            ELSE IF given = LeftOut THEN DefaultOutcome(Results[route.handler], Only(read))
            ELSE given

\* The result of a method the framework has no handler for is any JSON.
ResultOf(method) ==
    IF method \in DOMAIN Requests THEN Results[Requests[method].handler]
    ELSE [type |-> AnyValue, optional |-> FALSE, default |-> NoValue]

ReplyToRequest(id, method, outcome) ==
    IF Failed(outcome)
    THEN Response({id}, {}, {IntoResponseError(Only(outcome).error)})
    ELSE Response({id}, {ToJson(ResultOf(method), outcome)}, {})

Warning(method) ==
    Notification("window/logMessage",
        {Object("type" :> Number(2) @@ "message" :> String(method))})

ReplyToNotification(method, params) ==
    IF /\ method \in DOMAIN NotificationRoutes
       /\ ParseParams(NotificationRoutes[method].params, params) = {}
    THEN {Warning(method)}
    ELSE {}

ReplyTo(msg, given) ==
    LET method == Only(msg.method)
    IN CASE msg.kind = "response" -> {}
         [] msg.kind = "notification" -> ReplyToNotification(method, msg.params)
         [] method = "initialize" -> {Response(msg.id, {}, {ErrorOf(Codes.invalidRequest)})}
         [] method = "shutdown" -> {Response(msg.id, {Null}, {})}
         [] OTHER -> {ReplyToRequest(Only(msg.id), method, DispatchRequest(method, msg.params, given))}

\* What the server sends for one frame's body.
Reply(json, given) ==
    LET msgs == Classify(Types, json)
    IN IF msgs = {} THEN {Response({}, {}, {ErrorOf(Codes.parseError)})}
       ELSE ReplyTo(Only(msgs), given)

-----------------------------------------------------------------------------
(* The calls of Client: their method, parameters and result *)

Call(method, params, result) ==
    [method |-> method, params |-> {params}, result |-> result, answered |-> TRUE]
Refresh(method, result) ==
    [method |-> method, params |-> {}, result |-> result, answered |-> TRUE]
Notice(method, params) ==
    [method |-> method, params |-> {params}, result |-> Nothing, answered |-> FALSE]

MessageCalls ==
    [publish_diagnostics |-> Notice("textDocument/publishDiagnostics", "PublishDiagnosticsParams"),
     log_message |-> Notice("window/logMessage", "LogMessageParams"),
     show_message |-> Notice("window/showMessage", "ShowMessageParams"),
     show_message_request |-> Call("window/showMessageRequest", "ShowMessageRequestParams",
                                   Maybe(Ref("MessageActionItem"))),
     show_document |-> Call("window/showDocument", "ShowDocumentParams",
                            Same(Ref("ShowDocumentResult"))),
     register_capability |-> Call("client/registerCapability", "RegistrationParams", Nothing),
     unregister_capability |-> Call("client/unregisterCapability", "UnregistrationParams", Nothing),
     log_trace |-> Notice("$/logTrace", "LogTraceParams"),
     create_progress |-> Call("window/workDoneProgress/create",
                              "WorkDoneProgressCreateParams", Nothing)]

WorkspaceCalls ==
    [progress |-> Notice("$/progress", "ProgressParams"),
     configuration |-> Call("workspace/configuration", "ConfigurationParams", Same(Vec(AnyValue))),
     apply_edit |-> Call("workspace/applyEdit", "ApplyWorkspaceEditParams",
                         Same(Ref("ApplyWorkspaceEditResult")))]

RefreshCalls ==
    [refresh_semantic_tokens |-> Refresh("workspace/semanticTokens/refresh", Nothing),
     refresh_code_lenses |-> Refresh("workspace/codeLens/refresh", Nothing),
     refresh_inlay_hints |-> Refresh("workspace/inlayHint/refresh", Nothing),
     refresh_diagnostics |-> Refresh("workspace/diagnostic/refresh", Nothing),
     refresh_folding_ranges |-> Refresh("workspace/foldingRange/refresh", Nothing),
     refresh_inline_values |-> Refresh("workspace/inlineValue/refresh", Nothing),
     workspace_folders |-> Refresh("workspace/workspaceFolders",
                                   Maybe(Vec(Ref("WorkspaceFolder"))))]

Calls == MessageCalls @@ WorkspaceCalls @@ RefreshCalls

\* What a call sends; params that would be null are left out.
CallMessage(call, id, v) ==
    LET params == {Encode(Types, Ref(T), v) : T \in call.params}
    IN IF call.answered THEN Request(id, call.method, params) ELSE Notification(call.method, params)

\* Mutant: a response without a result is no answer.
DecodeResponse_NoNull(result, response) ==
    IF response.error # {} THEN {Failure([response |-> Only(response.error)])}
    ELSE UNION {FromJson(result, json) : json \in response.result}

\* What the call returns for a response: its outcome, or nothing where the
\* result is not of its type.  A result that is not there is null.
DecodeResponse(result, response) ==
    IF response.error # {} THEN {Failure([response |-> Only(response.error)])}
    ELSE FromJson(result, IF response.result = {} THEN Null ELSE Only(response.result))
=============================================================================
