----------------------------- MODULE MCDocuments -----------------------------
(* Small instances of Documents for TLC. *)
EXTENDS Documents

\* An empty document, and one with a wide character on its first line.
SomeTexts == {<<>>, <<"astral", "newline">>}

\* Nothing (a deletion), and a line break after a wide character.
Insertions == {<<>>, <<"accent", "newline">>}
=============================================================================
