---------------------------- MODULE MCCompletion ----------------------------
(* Small instances of Completion. *)
EXTENDS Completion

CONSTANTS a, b, blank

\* Expectations with and without borders, one with white space.
MCNeedles == {None, <<a>>, <<a, a, b>>, <<a, b, a>>, <<b, blank, b>>}
MCPieces == {<<>>, <<a>>, <<b>>, <<blank>>, <<a, b>>, <<a, a>>}
=============================================================================
