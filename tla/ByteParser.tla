----------------------------- MODULE ByteParser -----------------------------
(***************************************************************************)
(* The byte-level Earley parser of guidance_ctrl                           *)
(* (src/controllers/guidance_ctrl/src/earley/parser.rs).  Terminals are    *)
(* byte sets, scanned one byte at a time; a completed commit-point symbol  *)
(* ends its row, and a hidden one is removed from the committed bytes by   *)
(* hide_item, which pops the rows back to where it started.               *)
(*                                                                         *)
(* The parser is a record p = [rows, infos, caps, definitive, tokenIdx].   *)
(* Row k is p.rows[k+1], a sequence of entries [rule, start, hs]: the Item *)
(* and, from ItemProps, its hidden_start (NoHS is usize::MAX).  The        *)
(* Scratch arena is abstracted to these sequences; ItemProps are written   *)
(* only in definitive mode, and speculative entries carry NoHS.  RowInfo   *)
(* is [byte, tokenIdx] (commit_item is dead code).  Operators return       *)
(* [ok, panic, p].  The grammar contract comes from Grammar: SymLexeme of  *)
(* a terminal is the terminal itself, TermBytes its byte set.              *)
(***************************************************************************)
EXTENDS Grammar

CONSTANTS
  Bytes,        \* the byte alphabet
  TermBytes,    \* TermBytes[s]: terminal_byteset(s), {} for a nonterminal
  CommitPoint,  \* symbols whose flags have commit_point
  HiddenSym,    \* symbols with props.hidden (and the hidden flag)
  ModelVar,     \* ModelVar[s]: props.model_variable, NoMV if none
  NoMV,
  MaxRows,      \* bound on the rows the model lets the parser hold
  MaskTokens    \* the byte sequences the mask is checked for

NoHS == Unlimited        \* ItemProps::default().hidden_start = usize::MAX
NulByte == "NUL"        \* the byte 0 of row 0 and of a model-variable row

Entry(rule, start, hs) == [rule |-> rule, start |-> start, hs |-> hs]
AdvanceDot(e) == [e EXCEPT !.rule = <<@[1], @[2] + 1>>]
Res(ok, p) == [ok |-> ok, panic |-> FALSE, p |-> p]
Panic(p) == [ok |-> FALSE, panic |-> TRUE, p |-> p]
CurrRow(p) == p.rows[Len(p.rows)]

(* Scratch::hidden_start: the least hidden_start of a row.                 *)
HiddenStartOf(w) == Min({w[i].hs : i \in DOMAIN w} \cup {NoHS})

(* Scratch::add_unique / just_add: a new entry takes the origin's props;   *)
(* an entry already in the row merges them (min) in definitive mode.      *)
AddUnique(w, e, originHs, definitive) ==
  IF \E i \in DOMAIN w : w[i].rule = e.rule /\ w[i].start = e.start
  THEN IF definitive
       THEN [i \in DOMAIN w |-> IF w[i].rule = e.rule /\ w[i].start = e.start
                                THEN [w[i] EXCEPT !.hs = Min({@, originHs})] ELSE w[i]]
       ELSE w
  ELSE Append(w, [e EXCEPT !.hs = IF definitive THEN originHs ELSE NoHS])

(* Mutant: the span starts one row early, at the item's own row.         *)
SpanBytesFromStart(p, start, currIdx) ==
  IF start < currIdx THEN [k \in 1..(currIdx - start) |-> p.infos[start + k].byte]
  ELSE <<>>

(* The bytes of rows start+1 .. currIdx-1, from row_infos.                 *)
SpanBytes(p, start, currIdx) ==
  IF start + 1 < currIdx THEN [k \in 1..(currIdx - start - 1) |-> p.infos[start + 1 + k].byte]
  ELSE <<>>

(* push_row, capture of a completed item: the span's bytes and this row's  *)
(* byte, cut at the row's hidden_start; hidden_start - start_pos is usize  *)
(* and panics (debug) or makes drain panic (release) when negative.        *)
Capture(p, currIdx, byte, acc, e) ==
  LET hs == HiddenStartOf(acc.w)
      bytes == SpanBytes(p, e.start, currIdx) \o <<byte>>
  IN IF hs < currIdx + 1 /\ hs < e.start THEN [acc EXCEPT !.panic = TRUE]
     ELSE [acc EXCEPT !.caps = Append(@, <<CaptureName[Lhs(e.rule)],
                                            IF hs < currIdx + 1 THEN SubSeq(bytes, 1, hs - e.start)
                                            ELSE bytes>>)]

(* Mutant: the hide_item call without its definitive guard.               *)
CommitAtAnyMode(p, lhs, acc, e) ==
  LET chosen == FoldLeft(LAMBDA c, x : IF x.start < c.start /\ SymDot(x.rule) = NullSym
                                            /\ Lhs(x.rule) \in CommitPoint THEN x ELSE c,
                         e, SubSeq(acc.w, acc.ptr + 1, Len(acc.w)))
  IN [acc EXCEPT !.w = Append(SubSeq(@, 1, acc.ptr - 1), chosen),
                 !.hide = IF lhs \in HiddenSym THEN <<lhs, chosen.start>> ELSE <<>>]

(* Mutant: the commit point never calls hide_item.                        *)
CommitAtNoHide(p, lhs, acc, e) ==
  LET chosen == FoldLeft(LAMBDA c, x : IF x.start < c.start /\ SymDot(x.rule) = NullSym
                                            /\ Lhs(x.rule) \in CommitPoint THEN x ELSE c,
                         e, SubSeq(acc.w, acc.ptr + 1, Len(acc.w)))
  IN [acc EXCEPT !.w = Append(SubSeq(@, 1, acc.ptr - 1), chosen), !.hide = <<>>]

(* push_row, commit point: the last later item of the row that is complete, *)
(* a commit point and starts earlier replaces the item, and the row ends    *)
(* there.  In definitive mode a hidden symbol (the flags of the rule that   *)
(* completed) is then hidden from its chosen start.                         *)
CommitAt(p, lhs, acc, e) ==
  LET chosen == FoldLeft(LAMBDA c, x : IF x.start < c.start /\ SymDot(x.rule) = NullSym
                                            /\ Lhs(x.rule) \in CommitPoint THEN x ELSE c,
                         e, SubSeq(acc.w, acc.ptr + 1, Len(acc.w)))
  IN [acc EXCEPT !.w = Append(SubSeq(@, 1, acc.ptr - 1), chosen),
                 !.hide = IF p.definitive /\ lhs \in HiddenSym THEN <<lhs, chosen.start>> ELSE <<>>]

(* push_row, completer: the capture, then every item of the origin row     *)
(* waiting for lhs, advanced, then the commit point.                        *)
AfterCapture(p, currIdx, acc, e) ==
  LET lhs == Lhs(e.rule)
      waiting == IF e.start < currIdx
                 THEN SelectSeq(p.rows[e.start + 1], LAMBDA x : SymDot(x.rule) = lhs) ELSE <<>>
      completed == [acc EXCEPT !.w = FoldLeft(LAMBDA w, x : AddUnique(w, AdvanceDot(x), x.hs, p.definitive),
                                              @, waiting)]
  IN IF lhs \in CommitPoint THEN CommitAt(p, lhs, completed, e) ELSE completed

CaptureThen(p, currIdx, acc, e) ==
  IF acc.panic THEN acc ELSE AfterCapture(p, currIdx, acc, e)

Complete(p, currIdx, byte, acc, e) ==
  CaptureThen(p, currIdx,
              IF p.definitive /\ CaptureName[Lhs(e.rule)] # NoName
              THEN Capture(p, currIdx, byte, acc, e) ELSE acc, e)

(* The items of the rules of sym, all starting at row idx.                  *)
Predicted(sym, idx) == [k \in DOMAIN RulesOf(sym) |-> Entry(RulesOf(sym)[k], idx, NoHS)]

(* Scratch::set_hidden_start for every rule of sym at row idx.              *)
SetHiddenStart(w, sym, idx) ==
  [i \in DOMAIN w |-> IF w[i].start = idx /\ w[i].rule[2] = 0 /\ Lhs(w[i].rule) = sym
                      THEN [w[i] EXCEPT !.hs = Min({@, idx})] ELSE w[i]]

(* push_row, predictor: step over a nullable symbol, predict its rules,    *)
(* each taking the props of the predicting item, and mark a hidden one.    *)
Predict(p, currIdx, acc, e) ==
  LET sym == SymDot(e.rule)
      nulled == IF sym \in Nullable
                THEN AddUnique(acc.w, AdvanceDot(e), acc.w[acc.ptr].hs, p.definitive) ELSE acc.w
      predicted == FoldLeft(LAMBDA w, x : AddUnique(w, x, w[acc.ptr].hs, p.definitive),
                            nulled, Predicted(sym, currIdx))
  IN [acc EXCEPT !.w = IF p.definitive /\ sym \in HiddenSym
                       THEN SetHiddenStart(predicted, sym, currIdx) ELSE predicted]

ProcessEntry(p, currIdx, byte, acc, e) ==
  [IF SymDot(e.rule) = NullSym THEN Complete(p, currIdx, byte, acc, e)
   ELSE Predict(p, currIdx, acc, e) EXCEPT !.ptr = @ + 1]

(* The agenda loop: FIFO over the work row until it ends, a capture        *)
(* panics or a hidden commit point returns into hide_item.                 *)
RECURSIVE Agenda(_, _, _, _)
Agenda(p, currIdx, byte, acc) ==
  IF acc.panic \/ acc.hide # <<>> \/ acc.ptr > Len(acc.w) THEN acc
  ELSE Agenda(p, currIdx, byte, ProcessEntry(p, currIdx, byte, acc, acc.w[acc.ptr]))

(* Mutant: row_infos written in speculative mode too.                    *)
StoreRowAnyMode(p, w, byte) ==
  IF w = <<>> THEN Res(FALSE, p)
  ELSE Res(TRUE, [p EXCEPT !.rows = Append(@, w),
                           !.infos = Append(SubSeq(@, 1, Len(p.rows)),
                                            [byte |-> byte, tokenIdx |-> p.tokenIdx])])

(* The end of push_row: an empty row fails; otherwise it is pushed and, in *)
(* definitive mode, row_infos is cut to it and gets its RowInfo.           *)
StoreRow(p, w, byte) ==
  IF w = <<>> THEN Res(FALSE, p)
  ELSE Res(TRUE, [p EXCEPT !.rows = Append(@, w),
                           !.infos = IF p.definitive
                                     THEN Append(SubSeq(@, 1, Len(p.rows)),
                                                 [byte |-> byte, tokenIdx |-> p.tokenIdx])
                                     ELSE @])

(* hide_item copies the origin's props after writing the default at the    *)
(* target slot: when the two are the same slot the origin's are lost.      *)
HideOriginHs(target, origin, hs) == IF target = origin THEN NoHS ELSE hs

(* Mutant: the items selected by their left-hand side, not by the symbol *)
(* after the dot.                                                          *)
HideItemsByLhs(row, sym) ==
  FoldLeft(LAMBDA w, j : AddUnique(w, AdvanceDot(row[j]), HideOriginHs(Len(w) + 1, j, row[j].hs), TRUE),
           <<>>, SelectSeq([j \in DOMAIN row |-> j], LAMBDA j : Lhs(row[j].rule) = sym /\ SymDot(row[j].rule) # NullSym))

(* The items of a row waiting for sym, advanced, in row order.             *)
HideItems(row, sym) ==
  FoldLeft(LAMBDA w, j : AddUnique(w, AdvanceDot(row[j]), HideOriginHs(Len(w) + 1, j, row[j].hs), TRUE),
           <<>>, SelectSeq([j \in DOMAIN row |-> j], LAMBDA j : SymDot(row[j].rule) = sym))

RECURSIVE PushRow(_, _, _), HideItem(_, _, _), AfterAgenda(_, _, _)

AfterAgenda(p, byte, acc) ==
  IF acc.panic THEN Panic(p)
  ELSE IF acc.hide # <<>> THEN HideItem([p EXCEPT !.caps = acc.caps], acc.hide[1], acc.hide[2])
  ELSE StoreRow([p EXCEPT !.caps = acc.caps], acc.w, byte)

(* push_row(agenda_ptr, byte): close the work row w, starting at its first *)
(* item, as row num_rows().                                                *)
PushRow(p, w, byte) ==
  AfterAgenda(p, byte, Agenda(p, Len(p.rows), byte,
                              [w |-> w, ptr |-> 1, caps |-> p.caps, hide |-> <<>>, panic |-> FALSE]))

(* hide_item(sym, row_idx): pop the rows from row_idx on (asserting they   *)
(* are definitive), then rebuild row row_idx from its items waiting for    *)
(* sym, advanced, with the byte it had.                                    *)
HideItem(p, sym, rowIdx) ==
  IF Len(p.rows) - rowIdx <= 0 \/ ~p.definitive \/ Len(p.rows) # Len(p.infos) THEN Panic(p)
  ELSE PushRow([p EXCEPT !.rows = SubSeq(@, 1, rowIdx), !.infos = SubSeq(@, 1, rowIdx)],
               HideItems(p.rows[rowIdx + 1], sym), p.infos[rowIdx + 1].byte)

(* scan(b): the items of the current row whose terminal admits b, advanced *)
(* (just_add), start the next row.                                         *)
ScanAdvance(e, definitive) == [AdvanceDot(e) EXCEPT !.hs = IF definitive THEN e.hs ELSE NoHS]

Scan(p, b) ==
  LET sel == SelectSeq(CurrRow(p), LAMBDA e : SymDot(e.rule) # NullSym /\ b \in TermBytes[SymDot(e.rule)])
  IN PushRow(p, [i \in DOMAIN sel |-> ScanAdvance(sel[i], p.definitive)], b)

(* row_is_accepting / is_accepting: a completed rule of the start symbol.  *)
IsAccepting(p) ==
  \E i \in DOMAIN CurrRow(p) : SymDot(CurrRow(p)[i].rule) = NullSym /\ Lhs(CurrRow(p)[i].rule) = Start

NoByte == "none"

(* The symbols after the dot in a row.                                      *)
DotSyms(row) == {SymDot(row[i].rule) : i \in DOMAIN row} \ {NullSym}

(* forced_byte, once not accepting: every terminal after a dot is the same *)
(* single-byte terminal.                                                    *)
ForcedOf(ts) ==
  IF Cardinality(ts) = 1 /\ \A s \in ts : Cardinality(TermBytes[s]) = 1
  THEN CHOOSE b \in TermBytes[CHOOSE s \in ts : TRUE] : TRUE
  ELSE NoByte

ForcedByte(p) ==
  IF IsAccepting(p) THEN NoByte ELSE ForcedOf({s \in DotSyms(CurrRow(p)) : IsTerminal(s)})

(* force_bytes: scan forced bytes until none is forced or a scan fails.   *)
RECURSIVE ForceLoop(_), ForceFrom(_, _), ForceAfter(_)
ForceLoop(p) == ForceFrom(p, ForcedByte(p))
ForceFrom(p, b) == IF b = NoByte THEN Res(TRUE, p) ELSE ForceAfter(Scan(p, b))
ForceAfter(r) == IF r.panic THEN r ELSE IF ~r.ok THEN Res(TRUE, r.p) ELSE ForceLoop(r.p)

(* assert_definitive                                                        *)
IsDefinitive(p) == p.definitive /\ Len(p.rows) = Len(p.infos)

ForceBytesOp(p) == IF IsDefinitive(p) THEN ForceLoop(p) ELSE Panic(p)

(* Mutant: the model-variable row stores the variable, not byte 0.        *)
ScanModelVariableOpMvByte(p, mv) ==
  LET sel == SelectSeq(CurrRow(p), LAMBDA e : SymDot(e.rule) # NullSym /\ ModelVar[SymDot(e.rule)] = mv)
      w == FoldLeft(LAMBDA ww, e : AddUnique(ww, AdvanceDot(e), e.hs, p.definitive), <<>>, sel)
  IN IF w = <<>> THEN Res(FALSE, p) ELSE PushRow(p, w, mv)

(* scan_model_variable(mv): advance the items whose next symbol is the     *)
(* model variable mv; the new row's byte is 0.                              *)
ScanModelVariableOp(p, mv) ==
  LET sel == SelectSeq(CurrRow(p), LAMBDA e : SymDot(e.rule) # NullSym /\ ModelVar[SymDot(e.rule)] = mv)
      w == FoldLeft(LAMBDA ww, e : AddUnique(ww, AdvanceDot(e), e.hs, p.definitive), <<>>, sel)
  IN IF w = <<>> THEN Res(FALSE, p) ELSE PushRow(p, w, NulByte)

(* Parser::new: the start symbol's rules at row 0, pushed with byte 0.     *)
NewParser ==
  PushRow([rows |-> <<>>, infos |-> <<>>, caps |-> <<>>, definitive |-> TRUE, tokenIdx |-> 0],
          FoldLeft(LAMBDA w, x : AddUnique(w, x, NoHS, TRUE), <<>>, Predicted(Start, 0)), NulByte).p

(****************************** state machine ******************************)
VARIABLES
  rows,         \* Parser.rows with their items and props
  rowInfos,     \* Parser.row_infos
  captures,     \* Parser.captures
  definitive,   \* Scratch.definitive
  tokenIdx,     \* Parser.token_idx
  panicked,     \* an assert!, an index or a usize subtraction panicked
  rejected,     \* a definitive scan failed: the controller stops
  saved,        \* the walker's history: the parser at trie_started
  pushed        \* the walker's history: bytes pushed since trie_started

parserVars == <<rows, rowInfos, captures, definitive, tokenIdx>>
vars == <<parserVars, panicked, rejected, saved, pushed>>

P == [rows |-> rows, infos |-> rowInfos, caps |-> captures, definitive |-> definitive,
      tokenIdx |-> tokenIdx]

SetP(p) ==
  /\ rows' = p.rows /\ rowInfos' = p.infos /\ captures' = p.caps
  /\ definitive' = p.definitive /\ tokenIdx' = p.tokenIdx

Apply(r) == SetP(r.p) /\ panicked' = r.panic

Running == ~panicked /\ ~rejected /\ rows # <<>>

IsP(p) ==
  /\ rows = p.rows /\ rowInfos = p.infos /\ captures = p.caps
  /\ definitive = p.definitive /\ tokenIdx = p.tokenIdx

Init ==
  /\ IsP(NewParser)
  /\ panicked = FALSE /\ rejected = FALSE /\ saved = NewParser /\ pushed = 0

(* try_push_byte in definitive mode: TokTrie::append_token commits a       *)
(* sampled token's bytes one by one.                                       *)
CommitByte(b) ==
  /\ Running /\ definitive /\ Len(rows) < MaxRows
  /\ Apply(Scan(P, b))
  /\ rejected' = ~Scan(P, b).ok
  /\ UNCHANGED <<saved, pushed>>

ForceBytes ==
  /\ Running /\ definitive
  /\ Apply(ForceBytesOp(P))
  /\ UNCHANGED <<rejected, saved, pushed>>

ScanModelVariable(mv) ==
  /\ Running /\ definitive /\ Len(rows) < MaxRows
  /\ Apply(ScanModelVariableOp(P, mv))
  /\ rejected' = ~ScanModelVariableOp(P, mv).ok
  /\ UNCHANGED <<saved, pushed>>

(* Recognizer::trie_started: both asserts, then speculative mode.          *)
TrieStarted ==
  /\ Running /\ definitive
  /\ IF IsDefinitive(P)
     THEN /\ definitive' = FALSE /\ saved' = P /\ pushed' = 0
          /\ UNCHANGED <<rows, rowInfos, captures, tokenIdx, panicked>>
     ELSE /\ panicked' = TRUE /\ UNCHANGED <<parserVars, saved, pushed>>
  /\ UNCHANGED rejected

(* Recognizer::try_push_byte during the trie walk.                          *)
TriePush(b) ==
  /\ Running /\ ~definitive /\ Len(rows) < MaxRows
  /\ Apply(Scan(P, b))
  /\ pushed' = IF Scan(P, b).ok THEN pushed + 1 ELSE pushed
  /\ UNCHANGED <<rejected, saved>>

(* Recognizer::pop_bytes: the walker pops bytes it pushed.                  *)
TriePop(n) ==
  /\ Running /\ ~definitive /\ n \in 1..pushed
  /\ rows' = SubSeq(rows, 1, Len(rows) - n)
  /\ pushed' = pushed - n
  /\ UNCHANGED <<rowInfos, captures, definitive, tokenIdx, panicked, rejected, saved>>

(* Recognizer::trie_finished: asserts, pop to the definitive rows.          *)
TrieFinished ==
  /\ Running /\ ~definitive
  /\ IF Len(rowInfos) <= Len(rows)
     THEN /\ rows' = SubSeq(rows, 1, Len(rowInfos)) /\ definitive' = TRUE
          /\ UNCHANGED <<rowInfos, captures, tokenIdx, panicked>>
     ELSE /\ panicked' = TRUE /\ UNCHANGED parserVars
  /\ UNCHANGED <<rejected, saved, pushed>>

ModelVars == {ModelVar[s] : s \in Symbols} \ {NoMV}

Next ==
  \/ \E b \in Bytes : CommitByte(b) \/ TriePush(b)
  \/ ForceBytes
  \/ \E mv \in ModelVars : ScanModelVariable(mv)
  \/ TrieStarted
  \/ \E n \in 1..MaxRows : TriePop(n)
  \/ TrieFinished

Spec == Init /\ [][Next]_vars

(******************************* properties ********************************)
Entries == [rule : RuleIdx, start : 0..MaxRows, hs : 0..MaxRows \cup {NoHS}]

TypeOK ==
  /\ \A k \in DOMAIN rows : \A i \in DOMAIN rows[k] : rows[k][i] \in Entries
  /\ \A k \in DOMAIN rowInfos : rowInfos[k].byte \in Bytes \cup {NulByte}
  /\ \A k \in DOMAIN captures : captures[k][2] \in Seq(Bytes \cup {NulByte})
  /\ definitive \in BOOLEAN /\ tokenIdx \in Nat
  /\ panicked \in BOOLEAN /\ rejected \in BOOLEAN /\ pushed \in 0..MaxRows

(* No assert! of the parser fails and no usize subtraction underflows:     *)
(* hide_item's and trie_started's asserts, trie_finished's, and a capture  *)
(* cut at the row's hidden_start.                                          *)
NoPanic == ~panicked

(* trie_finished gives back exactly the rows, row_infos and captures the   *)
(* walk started from: no speculative scan, pop or commit point touched the *)
(* definitive state.                                                       *)
TrieFinishedRestores ==
  [][~definitive /\ definitive' =>
       rows' = saved.rows /\ rowInfos' = saved.infos /\ captures' = saved.caps]_vars

(* Feed a byte sequence, scan by scan, stopping at the first failure.      *)
RECURSIVE Feed(_, _), FeedAfter(_, _)
Feed(p, t) == IF t = <<>> THEN Res(TRUE, p) ELSE FeedAfter(Scan(p, Head(t)), Tail(t))
FeedAfter(r, t) == IF r.panic \/ ~r.ok THEN r ELSE Feed(r.p, t)

(* The token mask is sound: every byte sequence the speculative trie walk *)
(* accepts from a definitive state is accepted when the sampled token is  *)
(* committed definitively, hide_item and commit points included.           *)
MaskSound ==
  Running /\ definitive =>
    \A t \in MaskTokens : Feed([P EXCEPT !.definitive = FALSE], t).ok => Feed(P, t).ok

(* get_bytes: the committed bytes, the row_infos after row 0.             *)
GetBytes(infos) == [k \in 1..(Len(infos) - 1) |-> infos[k + 1].byte]

IsFactor(c, g) == c = <<>> \/ \E i \in 1..(Len(g) - Len(c) + 1) : SubSeq(g, i, i + Len(c) - 1) = c

(* A capture push_row records holds bytes the parser committed: each new   *)
(* capture is a run of consecutive bytes of get_bytes() after the step     *)
(* (empty when the captured symbol covered no visible byte).               *)
CapturesCommitted ==
  [][\A k \in (Len(captures) + 1)..Len(captures') : IsFactor(captures'[k][2], GetBytes(rowInfos'))]_vars

(* push_row's completer: in definitive mode the parse can always go on:   *)
(* the current row accepts, or one of its items waits for a byte terminal  *)
(* or a model variable.  An item completed at its own start row by         *)
(* hide_item's replay is skipped by the completer ("handled below in the   *)
(* nullable check"), which this is about.                                  *)
CanContinue ==
  Running /\ definitive =>
    \/ IsAccepting(P)
    \/ \E s \in DotSyms(CurrRow(P)) : IsTerminal(s) \/ ModelVar[s] # NoMV

====
