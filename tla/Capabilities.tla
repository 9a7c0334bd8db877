------------------------------ MODULE Capabilities ------------------------------
(***************************************************************************)
(* What a server may learn of its client from ClientCapabilities           *)
(* (src/src/lsp/lifecycle.rs): paths into the JSON the client sent, typed  *)
(* views of parts of it, and the choice of a position encoding.            *)
(*                                                                         *)
(* The capabilities are a JSON object; a path is the sequence of its       *)
(* segments.                                                               *)
(***************************************************************************)
EXTENDS CapabilityTypes, SequencesExt

Encodings == {"utf-8", "utf-16", "utf-32"}

\* The values at a path: one, or none where a segment is missing.
At(caps, path) ==
    FoldLeft(LAMBDA found, segment :
                 {j.object[segment] :
                     j \in {j \in found : IsObject(j) /\ segment \in DOMAIN j.object}},
             {caps}, path)

\* Anything there but null and false is a yes.
Supports(caps, path) == \E j \in At(caps, path) : j \notin {Null, Boolean(FALSE)}

\* Unknown encodings are skipped, each by itself.
PositionEncodings(caps) ==
    LET at == At(caps, <<"general", "positionEncodings">>)
        known(j) == IsString(j) /\ j.string \in Encodings
    IN IF \E j \in at : IsArray(j)
       THEN [i \in DOMAIN SelectSeq(Only(at).array, known) |->
                 SelectSeq(Only(at).array, known)[i].string]
       ELSE <<>>

\* Mutant: the client's favourite, whatever the server prefers.
NegotiatePositionEncoding_ClientFirst(caps, preference) ==
    LET supported == PositionEncodings(caps)
    IN IF supported = <<>> THEN "utf-16" ELSE supported[1]

\* The first of the server's preferences that the client supports.
NegotiatePositionEncoding(caps, preference) ==
    LET supported == SelectSeq(preference, LAMBDA e : e \in Range(PositionEncodings(caps)))
    IN IF supported = <<>> THEN "utf-16" ELSE supported[1]

-----------------------------------------------------------------------------
(* Typed views *)

Views == [workspace |-> "WorkspaceClientCapabilities",
          window |-> "WindowClientCapabilities",
          general |-> "GeneralClientCapabilities",
          notebookDocument |-> "NotebookDocumentClientCapabilities",
          textDocument |-> "TextDocumentClientCapabilities"]

\* A view of which every member is absent.
DefaultView(types, group) == Only(Decode(types, Ref(Views[group]), Object(NoMembers)))

\* One member that cannot be read, and the whole view is the default one.
View(types, caps, group) ==
    LET read == UNION {Decode(types, Ref(Views[group]), j) : j \in At(caps, <<group>>)}
    IN IF read = {} THEN DefaultView(types, group) ELSE Only(read)
=============================================================================
