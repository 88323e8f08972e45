----------------------------- MODULE MCParser -----------------------------
(***************************************************************************)
(* A small grammar for Parser, with lexemes that exercise every branch of  *)
(* advance_parser and of handle_hidden_bytes:                              *)
(*   SKIP = " "          whitespace between lexemes                       *)
(*   1 (A) = "a"         ends with its byte (lexeme_byte)                 *)
(*   2 (B) = "b" | "bb"  ends only on the following byte (byte_next_row)  *)
(*   3 (D) = "cd"        two bytes: the second one is forced              *)
(*   4 (G1) = "xd", 5 (G2) = "yd"   a one-byte hidden stop suffix "d"      *)
(*   6 (T) = "de"        7 (U) = "f"                                       *)
(*   S  -> X B Y | X B2 Cp | S1 T | G2 V                                   *)
(*   X  -> A X | <empty>    Y -> Cp | <empty>    Cp -> D                   *)
(*   S1 -> G1               V -> T | U                                     *)
(* Cp is captured as "cap".  B and B2 are two terminals of lexeme 2: B    *)
(* has max_tokens 2, B2 none, so both budgets meet in one row.  After G1  *)
(* only T may follow, but whitespace may too, so has_forced_bytes is      *)
(* false and the hidden "d" starts a fresh lexeme, as it does after G2    *)
(* (T or U).  The forced replay of hidden bytes is reached in MCApply and *)
(* MCHidden2, whose whitespace lexeme has no strings.  S1 stop-captures   *)
(* its hidden bytes as "stop".                                             *)
(***************************************************************************)
EXTENDS ParserMV

MCBytes == {" ", "a", "b", "c", "d", "e", "f", "x", "y"}
MCByteOrder == <<" ", "a", "b", "c", "d", "e", "f", "x", "y">>
MCLexemes == 0..7
MCLexStrings == (0 :> {<<" ">>}) @@ (1 :> {<<"a">>}) @@ (2 :> {<<"b">>, <<"b", "b">>})
                @@ (3 :> {<<"c", "d">>}) @@ (4 :> {<<"x", "d">>}) @@ (5 :> {<<"y", "d">>})
                @@ (6 :> {<<"d", "e">>}) @@ (7 :> {<<"f">>})
MCHiddenLen == [l \in MCLexemes |-> IF l \in {4, 5} THEN 1 ELSE 0]
MCLazy == [l \in MCLexemes |-> l \in {4, 5}]

MCSymbols == {"S", "X", "Y", "Cp", "A", "B", "B2", "D", "S1", "V", "G1", "G2", "T", "U"}
MCRules == << [lhs |-> "S", rhs |-> <<"X", "B", "Y">>],
              [lhs |-> "X", rhs |-> <<"A", "X">>],
              [lhs |-> "X", rhs |-> <<>>],
              [lhs |-> "Y", rhs |-> <<"Cp">>],
              [lhs |-> "Y", rhs |-> <<>>],
              [lhs |-> "Cp", rhs |-> <<"D">>],
              [lhs |-> "S", rhs |-> <<"X", "B2", "Cp">>],
              [lhs |-> "S", rhs |-> <<"S1", "T">>],
              [lhs |-> "S", rhs |-> <<"G2", "V">>],
              [lhs |-> "S1", rhs |-> <<"G1">>],
              [lhs |-> "V", rhs |-> <<"T">>],
              [lhs |-> "V", rhs |-> <<"U">>] >>
MCSymLexeme == [s \in MCSymbols |-> CASE s = "A" -> 1 [] s \in {"B", "B2"} -> 2 [] s = "D" -> 3
                                         [] s = "G1" -> 4 [] s = "G2" -> 5 [] s = "T" -> 6
                                         [] s = "U" -> 7 [] OTHER -> -2]
MCCaptureName == [s \in MCSymbols |-> IF s = "Cp" THEN "cap" ELSE NoName]
MCStopCaptureName == [s \in MCSymbols |-> IF s = "S1" THEN "stop" ELSE NoName]
MCMaxTokens == [s \in MCSymbols |-> IF s = "B" THEN 2 ELSE 1000]
MCNoLexeme == -2
(* No symbol is a model variable: only EOS is reported.                   *)
MCModelVar == [s \in MCSymbols |-> NoMV]
MCMaxStack == 6
MCMaxWord == MCMaxStack + 1

=============================================================================
