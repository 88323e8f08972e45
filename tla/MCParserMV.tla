---------------------------- MODULE MCParserMV ----------------------------
(***************************************************************************)
(* ParserMV with a grammar in which a model variable sits between two     *)
(* lexemes:                                                                *)
(*   1 (A) = "a"                                                           *)
(*   S -> A M A        M carries model variable "mv" and has no lexeme     *)
(* After "a", the controller reports "mv": scan_model_variable finds the   *)
(* item S -> A . M A and pushes its row.                                   *)
(***************************************************************************)
EXTENDS ParserMV

MCBytes == {"a"}
MCByteOrder == <<"a">>
MCLexemes == {0, 1}
MCLexStrings == (0 :> {}) @@ (1 :> {<<"a">>})
MCHiddenLen == [l \in MCLexemes |-> 0]
MCLazy == [l \in MCLexemes |-> FALSE]

MCSymbols == {"S", "A", "M"}
MCRules == << [lhs |-> "S", rhs |-> <<"A", "M", "A">>] >>
MCSymLexeme == [s \in MCSymbols |-> IF s = "A" THEN 1 ELSE -2]
MCCaptureName == [s \in MCSymbols |-> NoName]
MCStopCaptureName == [s \in MCSymbols |-> NoName]
MCMaxTokens == [s \in MCSymbols |-> 1000]
MCNoLexeme == -2
MCModelVar == [s \in MCSymbols |-> IF s = "M" THEN "mv" ELSE NoMV]
MCMaxStack == 4
MCMaxWord == MCMaxStack + 1

=============================================================================
