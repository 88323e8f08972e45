----------------------------- MODULE MCApply ------------------------------
(***************************************************************************)
(* ApplyTokens over a grammar with a nonterminal budget, a terminal budget *)
(* and a hidden stop suffix, and no whitespace (SKIP matches nothing):     *)
(*   1 (A) = "a"    2 (B) = "bb" | "bbb"    3 (G) = "xd", hidden "d", lazy *)
(*   4 (T) = "de"   5 (U) = "f"                                            *)
(*   S -> N B G V     N -> A A A     V -> T | U                            *)
(* N has max_tokens 2 (filter_max_tokens); B has max_tokens 1, or 2 with   *)
(* MCMaxTokens2 (the per-lexeme limiting of apply_tokens).  B's row is     *)
(* opened by the byte that ends N, so the limit applies from B's first     *)
(* token.  With MCRules T or U may follow G, so G's hidden "d" is not      *)
(* forced and is dropped; with MCRulesForced (no V -> U) it is forced and  *)
(* re-lexed as the start of T.  Tokens are one or two bytes and some cross *)
(* lexeme boundaries ("bx", "xd").                                         *)
(***************************************************************************)
EXTENDS ApplyTokens

MCBytes == {"a", "b", "x", "d", "e", "f"}
MCByteOrder == <<"a", "b", "d", "e", "f", "x">>
MCLexemes == {0, 1, 2, 3, 4, 5}
MCLexStrings == (0 :> {}) @@ (1 :> {<<"a">>}) @@ (2 :> {<<"b", "b">>, <<"b", "b", "b">>})
                @@ (3 :> {<<"x", "d">>}) @@ (4 :> {<<"d", "e">>}) @@ (5 :> {<<"f">>})
MCHiddenLen == [l \in MCLexemes |-> IF l = 3 THEN 1 ELSE 0]
MCLazy == [l \in MCLexemes |-> l = 3]

MCSymbols == {"S", "N", "V", "A", "B", "G", "T", "U"}
MCRules == << [lhs |-> "S", rhs |-> <<"N", "B", "G", "V">>],
              [lhs |-> "N", rhs |-> <<"A", "A", "A">>],
              [lhs |-> "V", rhs |-> <<"T">>],
              [lhs |-> "V", rhs |-> <<"U">>] >>
MCRulesForced == SubSeq(MCRules, 1, 3)
MCSymLexeme == [s \in MCSymbols |-> CASE s = "A" -> 1 [] s = "B" -> 2 [] s = "G" -> 3
                                         [] s = "T" -> 4 [] s = "U" -> 5 [] OTHER -> -2]
MCCaptureName == [s \in MCSymbols |-> NoName]
MCStopCaptureName == [s \in MCSymbols |-> NoName]
MCMaxTokens == [s \in MCSymbols |-> CASE s = "N" -> 2 [] s = "B" -> 1 [] OTHER -> 1000]
MCMaxTokens2 == [MCMaxTokens EXCEPT !["B"] = 2]
MCNoLexeme == -2
MCMaxStack == 12
MCMaxWord == 8

MCTokBytes == ("a" :> <<"a">>) @@ ("aa" :> <<"a", "a">>) @@ ("b" :> <<"b">>) @@ ("bb" :> <<"b", "b">>)
              @@ ("bx" :> <<"b", "x">>) @@ ("xd" :> <<"x", "d">>) @@ ("d" :> <<"d">>)
              @@ ("de" :> <<"d", "e">>) @@ ("e" :> <<"e">>) @@ ("f" :> <<"f">>)

=============================================================================
