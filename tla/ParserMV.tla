----------------------------- MODULE ParserMV -----------------------------
(***************************************************************************)
(* Parser::scan_model_variable of llguidance_ctrl's earley/parser.rs, the  *)
(* controller telling the parser that the model produced a special token   *)
(* (a model variable, EOS among them), added to the calls of Parser.       *)
(*                                                                         *)
(* A grammar symbol may carry props.model_variable; it has no lexeme, so   *)
(* no byte ever scans it.  scan_model_variable asserts definitive mode,    *)
(* reads lexer_allows_eos, flushes the lexer (committing the lexeme the    *)
(* pending bytes end), and then either accepts EOS outright or pushes a   *)
(* row of the current row's items waiting for that variable.  The row is  *)
(* pushed with push_row alone: no lexer state is pushed for it.            *)
(***************************************************************************)
EXTENDS Parser

CONSTANTS
  ModelVar,    \* ModelVar[s]: props.model_variable of symbol s, NoMV if none
  NoMV,
  EosToken     \* ModelVariable::eos_token()

(* The model variables the controller may report: the grammar's and EOS.  *)
ModelVars == ({ModelVar[s] : s \in Symbols} \ {NoMV}) \cup {EosToken}

(* The items of the current row whose symbol at the dot carries mv, with   *)
(* the dot advanced, each added once (add_unique).                        *)
WaitingFor(p, mv) ==
  AddAllUnique(<<>>, AdvanceAll(SelectSeq(CurrRow(p).items,
                                          LAMBDA it : SymDot(it.rule) # NullSym
                                                      /\ ModelVar[SymDot(it.rule)] = mv)))

(* The part of scan_model_variable after flush_lexer returned f.ok.  An   *)
(* empty work row returns false; otherwise push_row(num_rows(),           *)
(* row_start, Lexeme::bogus()) stores it and, in definitive mode, its      *)
(* RowInfo.                                                                *)
ScanAfterFlush(f, lexerEos, mv) ==
  CASE ~f.ok -> f
    [] mv = EosToken /\ lexerEos -> Result(TRUE, f.p)
    [] WaitingFor(f.p, mv) = <<>> -> Result(FALSE, f.p)
    [] OTHER -> PushRow(f.p, NumRows(f.p), WaitingFor(f.p, mv), 1, Bogus)

(* scan_model_variable(mv)                                                 *)
ScanModelVariableOp(p, mv) ==
  IF ~DefinitiveOk(p) THEN Result(FALSE, Panic(p))
  ELSE ScanAfterFlush(FlushLexer(p), LexerAllowsEos(p), mv)

(* The controller reports model variable mv.  A false result leaves the   *)
(* parser in use (the flush it did stays committed).                      *)
ScanModelVariable(mv) ==
  /\ Running /\ definitive
  /\ SetP(ScanModelVariableOp(P, mv).p)
  /\ UNCHANGED <<rejected, pushHist, saved>>

NextMV == Next \/ \E mv \in ModelVars : ScanModelVariable(mv)

SpecMV == Init /\ [][NextMV]_vars

=============================================================================
