------------------------------ MODULE Grammar ------------------------------
(***************************************************************************)
(* The compiled grammar (CGrammar) the parser reads, spec section 6        *)
(* "Grammar contract".  It is built outside src/ (earley/grammar.rs), so   *)
(* it is modelled from the spec.  A rule index is <<r, d>>: rule r with    *)
(* the dot before its (d+1)-th symbol; advancing the dot adds one to d,    *)
(* as rule_idx + 1 does in the packed layout.                              *)
(*                                                                         *)
(* The module also gives the reference the Earley rows are checked         *)
(* against: the language of each symbol, over lexeme indices, cut at       *)
(* MaxWord lexemes, computed as a least fixpoint.                          *)
(***************************************************************************)
EXTENDS Integers, Sequences, SequencesExt, FiniteSets

CONSTANTS
  Symbols,          \* grammar symbols (strings)
  Start,            \* the start symbol
  Rules,            \* Seq of [lhs |-> symbol, rhs |-> Seq(symbol)]
  SymLexeme,        \* SymLexeme[s]: the lexeme of terminal s, NoLexeme otherwise
  NoLexeme,
  CaptureName,      \* props.capture_name, NoName if none
  StopCaptureName,  \* props.stop_capture_name, NoName if none
  NoName,
  MaxTokens,        \* props.max_tokens, Unlimited when unbounded (usize::MAX)
  Unlimited,
  MaxWord           \* length bound of the reference language

NullSym == ""       \* CSymIdx::NULL
ASSUME NullSym \notin Symbols /\ Start \in Symbols
ASSUME \A r \in DOMAIN Rules : Rules[r].lhs \in Symbols
                               /\ Rules[r].rhs \in Seq(Symbols)

RuleIds == DOMAIN Rules
RuleIdx == UNION {{<<r, d>> : d \in 0..Len(Rules[r].rhs)} : r \in RuleIds}

(* sym_idx_dot: the symbol after the dot, NULL once the rule is complete.  *)
SymDot(ri) ==
  IF ri[2] = Len(Rules[ri[1]].rhs) THEN NullSym ELSE Rules[ri[1]].rhs[ri[2] + 1]

(* sym_idx_lhs                                                              *)
Lhs(ri) == Rules[ri[1]].lhs

(* rules_of(sym), in declaration order, each with the dot at the start.    *)
RulesOf(s) ==
  LET ids == SelectSeq([i \in 1..Len(Rules) |-> i], LAMBDA i : Rules[i].lhs = s)
  IN [k \in DOMAIN ids |-> <<ids[k], 0>>]

IsTerminal(s) == SymLexeme[s] # NoLexeme

(* sym_data_dot(ri).lexeme: the lexeme of the symbol after the dot.        *)
LexemeAtDot(ri) == IF SymDot(ri) = NullSym THEN NoLexeme ELSE SymLexeme[SymDot(ri)]

(* is_nullable, as the grammar compiler computes it.                       *)
RECURSIVE NullableFrom(_)
NullableFrom(N) ==
  LET N2 == N \cup {Rules[r].lhs : r \in {r \in RuleIds :
                       \A i \in DOMAIN Rules[r].rhs : Rules[r].rhs[i] \in N}}
  IN IF N2 = N THEN N ELSE NullableFrom(N2)
Nullable == NullableFrom({})

(*************************** reference language ****************************)
CatCut(S, T) == {w \in {s \o t : s \in S, t \in T} : Len(w) <= MaxWord}

RhsLang(L, rhs) == FoldLeft(LAMBDA acc, sym : CatCut(acc, L[sym]), {<<>>}, rhs)

LangStep(L) ==
  [s \in Symbols |->
     IF IsTerminal(s) THEN {<<SymLexeme[s]>>}
     ELSE UNION {RhsLang(L, Rules[r].rhs) : r \in {r \in RuleIds : Rules[r].lhs = s}}]

RECURSIVE LangFix(_)
LangFix(L) == IF LangStep(L) = L THEN L ELSE LangFix(LangStep(L))

(* Every lexeme sequence of length <= MaxWord the start symbol derives.    *)
Lang == LangFix([s \in Symbols |-> {}])[Start]

(* u can be extended to a sentence of length <= MaxWord.                   *)
Viable(u) == \E w \in Lang : IsPrefix(u, w)

=============================================================================
