------------------------- MODULE MCFileMutationQueue -------------------------
(* An instance of FileMutationQueue. *)
EXTENDS FileMutationQueue

CONSTANTS edit, write, astEdit, applyAst

\* Two mutations of file 1 and two that need both files.
Pairs == [c \in Calls |-> IF c \in {astEdit, applyAst} THEN {1, 2} ELSE {1}]

=============================================================================
