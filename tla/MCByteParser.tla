---------------------------- MODULE MCByteParser ----------------------------
(***************************************************************************)
(* A guidance-style grammar for ByteParser: a gen with a stop string.      *)
(*   S    -> C TB | TA EV TA        C -> Body STOP   (captured as "c")     *)
(*   Body -> TAB Body | <empty>     STOP -> TX       (commit point, hidden)*)
(*   S    -> TB H TA            H -> K TX        (hidden, not a commit point)*)
(*   K    -> TA                 (captured as "k", inside the hidden H)     *)
(* TA = {a}, TB = {b}, TX = {x}, TAB = {a, b}; EV is a model variable "m". *)
(* After the stop x is hidden, only b may follow, so it is forced.         *)
(* MCRulesNonEmpty is the same gen with Body -> TAB Body | TAB: the        *)
(* generation before the stop holds at least one byte.                     *)
(***************************************************************************)
EXTENDS ByteParser

MCBytes == {"a", "b", "x"}
MCTerminals == {"TA", "TB", "TX", "TAB"}
MCSymbols == {"S", "C", "Body", "STOP", "EV", "H", "K"} \cup MCTerminals
MCRules == << [lhs |-> "S", rhs |-> <<"C", "TB">>],
              [lhs |-> "S", rhs |-> <<"TA", "EV", "TA">>],
              [lhs |-> "C", rhs |-> <<"Body", "STOP">>],
              [lhs |-> "Body", rhs |-> <<"TAB", "Body">>],
              [lhs |-> "Body", rhs |-> <<>>],
              [lhs |-> "STOP", rhs |-> <<"TX">>],
              [lhs |-> "S", rhs |-> <<"TB", "H", "TA">>],
              [lhs |-> "H", rhs |-> <<"K", "TX">>],
              [lhs |-> "K", rhs |-> <<"TA">>] >>
MCRulesNonEmpty == [MCRules EXCEPT ![5] = [lhs |-> "Body", rhs |-> <<"TAB">>]]
MCSymLexeme == [s \in MCSymbols |-> IF s \in MCTerminals THEN s ELSE "none"]
MCTermBytes == [s \in MCSymbols |-> CASE s = "TA" -> {"a"} [] s = "TB" -> {"b"}
                                        [] s = "TX" -> {"x"} [] s = "TAB" -> {"a", "b"}
                                        [] OTHER -> {}]
MCCaptureName == [s \in MCSymbols |-> CASE s = "C" -> "c" [] s = "K" -> "k" [] OTHER -> NoName]
MCStopCaptureName == [s \in MCSymbols |-> NoName]
MCMaxTokens == [s \in MCSymbols |-> 1000]
MCModelVar == [s \in MCSymbols |-> IF s = "EV" THEN "m" ELSE NoMV]
MCMaskTokens == {<<b>> : b \in MCBytes} \cup {<<b, c>> : b, c \in MCBytes}

=============================================================================
