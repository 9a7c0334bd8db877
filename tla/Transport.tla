------------------------------- MODULE Transport -------------------------------
(***************************************************************************)
(* The framing of src/src/transport.rs.  A frame is a Content-Length line, *)
(* an empty line and the body; the stream is a sequence of pieces, cut at  *)
(* the places that matter to a reader that starts there:                   *)
(*                                                                         *)
(*     name            colon  number   blank   open        rest            *)
(*     Content-Length  :      17\r\n   \r\n    {"jsonrpc"  :"2.0", ...}    *)
(*                                                                         *)
(* A body is JSON without line breaks, so a line that starts in one ends   *)
(* with the number of the next frame.  The limit on the length is left out.*)
(***************************************************************************)
EXTENDS Naturals, Sequences, SequencesExt

HeaderParts == <<"name", "colon", "number", "blank">>
BodyParts == <<"open", "rest">>
Parts == HeaderParts \o BodyParts

\* encode_message.
Frame(m) == [i \in DOMAIN Parts |-> [of |-> m, part |-> Parts[i]]]

-----------------------------------------------------------------------------
(* read_message, as the state of its future after some pieces: the line it *)
(* is in, the length it has seen (0 if none), what is left of the body,    *)
(* and what it returns, if it is done.                                     *)

StartRead == [line |-> <<>>, length |-> 0, left |-> 0, begun |-> FALSE, result |-> "none"]

EndsLine(part) == part \in {"number", "blank"}
HasColon(part) == part \in {"colon", "open", "rest"}

\* The end of a line of the header block.
ReadLine(state, line) ==
    CASE line = <<"blank">> ->
            IF state.length = 0 THEN [state EXCEPT !.result = "error"]
            ELSE [state EXCEPT !.line = <<>>, !.left = state.length]
      [] line = <<"name", "colon", "number">> ->
            [state EXCEPT !.line = <<>>, !.length = Len(BodyParts)]
      [] line # <<"blank">> /\ ~\E i \in DOMAIN line : HasColon(line[i]) ->
            [state EXCEPT !.result = "error"]
      \* another header, or what looks like one
      [] OTHER -> [state EXCEPT !.line = <<>>]

\* One more piece.
ReadPiece(state, piece) ==
    LET begun == [state EXCEPT !.begun = TRUE]
        line == Append(state.line, piece.part)
    IN CASE state.left > 0 ->
              [begun EXCEPT !.left = @ - 1, !.result = IF state.left = 1 THEN "message" ELSE @]
         [] state.left = 0 /\ EndsLine(piece.part) -> ReadLine(begun, line)
         [] OTHER -> [begun EXCEPT !.line = line]
=============================================================================
