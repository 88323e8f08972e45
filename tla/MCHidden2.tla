----------------------------- MODULE MCHidden2 ----------------------------
(***************************************************************************)
(* Parser with a lexeme whose hidden stop suffix is two bytes long, forced *)
(* by the lexeme that follows, and no whitespace:                         *)
(*   1 (G) = "xcd", hidden "cd"      2 (T) = "cde"                         *)
(*   S -> G T                                                              *)
(* With "x" committed, the walker pushes "c" and "d"; "d" ends G and      *)
(* handle_hidden_bytes replaces the walker's own frame of "c" by one on    *)
(* the new row, so pop_bytes(1) does not give back the stack before "d".  *)
(***************************************************************************)
EXTENDS Parser

MCBytes == {"x", "c", "d", "e"}
MCByteOrder == <<"c", "d", "e", "x">>
MCLexemes == {0, 1, 2}
MCLexStrings == (0 :> {}) @@ (1 :> {<<"x", "c", "d">>}) @@ (2 :> {<<"c", "d", "e">>})
MCHiddenLen == (0 :> 0) @@ (1 :> 2) @@ (2 :> 0)
MCLazy == (0 :> FALSE) @@ (1 :> TRUE) @@ (2 :> FALSE)

MCSymbols == {"S", "G", "T"}
MCRules == << [lhs |-> "S", rhs |-> <<"G", "T">>] >>
MCSymLexeme == [s \in MCSymbols |-> CASE s = "G" -> 1 [] s = "T" -> 2 [] OTHER -> -2]
MCCaptureName == [s \in MCSymbols |-> NoName]
MCStopCaptureName == [s \in MCSymbols |-> NoName]
MCMaxTokens == [s \in MCSymbols |-> 1000]
MCNoLexeme == -2
MCMaxStack == 6
MCMaxWord == MCMaxStack + 1

=============================================================================
