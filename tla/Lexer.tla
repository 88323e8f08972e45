------------------------------- MODULE Lexer -------------------------------
(***************************************************************************)
(* The lexer contract the Earley parser relies on (spec section 6, "Lexer  *)
(* contract").  The DFA itself is compiled outside src/ (earley/lexer.rs,  *)
(* lexerspec.rs), so this module is modelled from the spec: a lexer state  *)
(* is the set of lexemes still allowed plus the bytes consumed since the   *)
(* lexeme started, which is what a derivative-based DFA state stands for.  *)
(* Each lexeme is a finite set of byte strings.  A lexeme whose strings    *)
(* end in a stop string carries HiddenLen[l] > 0: those trailing bytes are *)
(* lookahead that must be given back to the next lexeme.                   *)
(***************************************************************************)
EXTENDS Integers, Sequences, SequencesExt, FiniteSets

CONSTANTS
  Bytes,       \* the byte alphabet (strings of length one)
  NoByte,      \* Option<u8>::None
  Lexemes,     \* lexeme indices (natural numbers)
  SKIP,        \* LexemeIdx::SKIP
  LexStrings,  \* LexStrings[l]: the finite language of lexeme l
  HiddenLen,   \* HiddenLen[l]: length of l's hidden stop suffix
  Lazy         \* Lazy[l]: l ends at its first match instead of its longest

ASSUME NoByte \notin Bytes
ASSUME SKIP \in Lexemes /\ Lexemes \subseteq Nat
ASSUME \A l \in Lexemes : LexStrings[l] \subseteq Seq(Bytes)
ASSUME \A l \in Lexemes : HiddenLen[l] \in Nat /\ Lazy[l] \in BOOLEAN

(* A lexer state (StateID).  dead marks LexerSpec's dead state.            *)
LexState(allowed, buf) == [dead |-> FALSE, allowed |-> allowed, buf |-> buf]
Dead == [dead |-> TRUE, allowed |-> {}, buf |-> <<>>]

(* PreLexeme { idx, byte, byte_next_row, hidden_len }.                     *)
PreLexeme(idx, byte, nextRow, hidden) ==
  [idx |-> idx, byte |-> byte, nextRow |-> nextRow, hidden |-> hidden]
NoPre == PreLexeme(-1, NoByte, FALSE, 0)

(* LexerResult: State(next_state, byte) | Lexeme(pre_lexeme) | Error.      *)
StateRes(s, b) == [kind |-> "State", state |-> s, byte |-> b, pre |-> NoPre]
LexemeRes(p)   == [kind |-> "Lexeme", state |-> Dead, byte |-> NoByte, pre |-> p]
ErrorRes       == [kind |-> "Error", state |-> Dead, byte |-> NoByte, pre |-> NoPre]

(* w can still grow into (or already is) a string of an allowed lexeme.    *)
IsLexPrefix(allowed, w) == \E l \in allowed : \E s \in LexStrings[l] : IsPrefix(w, s)
Extendable(allowed, w) == \E l \in allowed : \E s \in LexStrings[l] : IsStrictPrefix(w, s)
Matching(allowed, w) == {l \in allowed : w \in LexStrings[l]}
(* Among several matching lexemes the lowest index wins.                   *)
Winner(S) == CHOOSE l \in S : \A m \in S : l <= m
(* A match that ends the lexeme without looking at one more byte.          *)
EndsHere(allowed, w) ==
  /\ Matching(allowed, w) # {}
  /\ ~Extendable(allowed, w) \/ Lazy[Winner(Matching(allowed, w))]

(* start_state(allowed_lexemes, transition_byte)                           *)
StartState(allowed, tb) ==
  LET buf == IF tb = NoByte THEN <<>> ELSE <<tb>>
  IN IF IsLexPrefix(allowed, buf) THEN LexState(allowed, buf) ELSE Dead

(* advance(state, byte): still inside a lexeme, a lexeme that ends with    *)
(* this byte, a lexeme that ended before it (the byte starts the next      *)
(* row: byte_next_row), or an error.                                       *)
Advance(st, b) ==
  LET w == st.buf \o <<b>>
      a == st.allowed
  IN CASE st.dead -> ErrorRes
       [] EndsHere(a, w) ->
            LexemeRes(PreLexeme(Winner(Matching(a, w)), b, FALSE,
                                HiddenLen[Winner(Matching(a, w))]))
       [] Extendable(a, w) -> StateRes(LexState(a, w), b)
       [] Matching(a, st.buf) # {} ->
            LexemeRes(PreLexeme(Winner(Matching(a, st.buf)), b, TRUE,
                                HiddenLen[Winner(Matching(a, st.buf))]))
       [] OTHER -> ErrorRes

(* try_lexeme_end / force_lexeme_end: end the lexeme at end of input.      *)
TryLexemeEnd(st) ==
  IF ~st.dead /\ Matching(st.allowed, st.buf) # {}
  THEN LexemeRes(PreLexeme(Winner(Matching(st.allowed, st.buf)), NoByte, FALSE,
                           HiddenLen[Winner(Matching(st.allowed, st.buf))]))
  ELSE ErrorRes
ForceLexemeEnd(st) == TryLexemeEnd(st)

AllowsEos(st) == ~st.dead /\ Matching(st.allowed, st.buf) # {}

PossibleLexemes(st) ==
  {l \in st.allowed : \E s \in LexStrings[l] : IsPrefix(st.buf, s)}

LimitStateTo(st, set) ==
  IF ~st.dead /\ IsLexPrefix(st.allowed \cap set, st.buf)
  THEN LexState(st.allowed \cap set, st.buf) ELSE Dead

(* check_for_single_byte_lexeme(state, byte): state is start_state(_, b).  *)
(* The result is a set holding the PreLexeme, or empty for None.           *)
CheckForSingleByteLexeme(st, b) ==
  IF ~st.dead /\ EndsHere(st.allowed, st.buf)
  THEN {PreLexeme(Winner(Matching(st.allowed, st.buf)), b, FALSE,
                  HiddenLen[Winner(Matching(st.allowed, st.buf))])}
  ELSE {}

(* lexerspec's LexemeSpec::has_forced_bytes: every string of l starts      *)
(* with the given bytes.                                                   *)
LexForcesBytes(l, w) == \A s \in LexStrings[l] : IsPrefix(w, s)

=============================================================================
