--------------------------- MODULE MCJsonlTailer ---------------------------
(* Row shapes for model checking JsonlTailer. *)
EXTENDS JsonlTailer

Short == <<"brace", "x", "newline">>
Nested == <<"brace", "brace", "newline">>
Wide == <<"brace", "lead", "cont", "newline">>

AllShapes == {Short, Nested, Wide}
=============================================================================
