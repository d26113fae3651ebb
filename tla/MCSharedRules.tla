--------------------------- MODULE MCSharedRules ---------------------------
(***************************************************************************)
(* SharedRules with a pattern that has white space before it.              *)
(***************************************************************************)
EXTENDS SharedRules

MCTexts == {<<" ", " ", "a", "b">>}

=============================================================================
