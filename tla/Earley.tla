------------------------------ MODULE Earley ------------------------------
(***************************************************************************)
(* Earley row construction of llguidance_ctrl's earley/parser.rs: Item,    *)
(* Scratch, Row, RowInfo, push_row, scan and scan_skip_lexeme.             *)
(*                                                                         *)
(* The operators are pure: they take the parser as a record p              *)
(*   [rows, infos, stack, captures, definitive, trieStack]                 *)
(* and return [ok |-> BOOLEAN, p |-> the parser after the call].  Row k is *)
(* p.rows[k+1], its RowInfo p.infos[k+1] and lexer-stack frames carry a    *)
(* 0-based row.  The Scratch arena is abstracted: a row is the sequence of *)
(* its items, in the order the agenda added them.  ItemProps              *)
(* (hidden_start) is vestigial in the code and is not modelled, nor are    *)
(* the statistics and debug output.  start_byte_idx of RowInfo only feeds *)
(* hidden_start and is not modelled; the token window of a new RowInfo    *)
(* starts at the parser's token_idx, which apply_tokens maintains.         *)
(*                                                                         *)
(* A value that is used more than once is handed to a helper operator as   *)
(* an argument rather than bound with LET: TLC caches evaluated arguments  *)
(* in every mode.                                                          *)
(***************************************************************************)
EXTENDS Grammar, Lexer

(* Item { rule_idx, start_pos }; advance_dot is rule_idx + 1.              *)
Item(rule, start) == [rule |-> rule, start |-> start]
AdvanceDot(it) == [it EXCEPT !.rule = <<@[1], @[2] + 1>>]

(* Lexeme { idx, bytes, hidden_len } and Lexeme::bogus / just_idx.         *)
BogusIdx == -1
MkLex(idx, bytes, hidden) == [idx |-> idx, bytes |-> bytes, hidden |-> hidden]
Bogus == MkLex(BogusIdx, <<>>, 0)
JustIdx(idx) == MkLex(idx, <<>>, 0)
VisibleBytes(lx) == SubSeq(lx.bytes, 1, Len(lx.bytes) - lx.hidden)
HiddenBytes(lx) == SubSeq(lx.bytes, Len(lx.bytes) - lx.hidden + 1, Len(lx.bytes))

Result(ok, p) == [ok |-> ok, p |-> p]

(* Lexer-stack queries the row construction needs.                        *)
NumRows(p) == Last(p.stack).row + 1
CurrRow(p) == p.rows[NumRows(p)]

(* Scratch::add_unique: items of a row are unique (find_item).             *)
AddUnique(s, x) == IF \E i \in DOMAIN s : s[i] = x THEN s ELSE Append(s, x)
AddAllUnique(s, xs) == FoldLeft(AddUnique, s, xs)

(* Every item of a sequence with its dot advanced.                          *)
AdvanceAll(items) == [i \in DOMAIN items |-> AdvanceDot(items[i])]

(* The items for a list of rules, all starting at row idx.                 *)
ItemsAt(rules, idx) == [k \in DOMAIN rules |-> Item(rules[k], idx)]

(* The bytes a capture spans in the rows before the current one.           *)
CapturedBytes(p, start, currIdx) ==
  IF start < currIdx
  THEN FlattenSeq([k \in 1..(currIdx - start) |-> VisibleBytes(p.infos[start + k].lexeme)])
  ELSE <<>>

(* push_row, completer branch: captures, then advance every item of the    *)
(* origin row that waits for the completed symbol.                         *)
Complete(p, currIdx, lexeme, acc, it) ==
  LET lhs == Lhs(it.rule)
      stopCap == IF p.definitive /\ StopCaptureName[lhs] # NoName
                 THEN <<<<StopCaptureName[lhs], HiddenBytes(lexeme)>>>> ELSE <<>>
      cap == IF p.definitive /\ CaptureName[lhs] # NoName
             THEN <<<<CaptureName[lhs],
                      CapturedBytes(p, it.start, currIdx) \o VisibleBytes(lexeme)>>>>
             ELSE <<>>
      waiting == IF it.start < currIdx
                 THEN SelectSeq(p.rows[it.start + 1].items,
                                LAMBDA x : SymDot(x.rule) = lhs)
                 ELSE <<>>
  IN [acc EXCEPT !.caps = @ \o stopCap \o cap,
                 !.items = AddAllUnique(@, AdvanceAll(waiting))]

(* Mutant: no nullable dot advance (Aycock-Horspool step left out).       *)
PredictNoNullable(p, currIdx, acc, it) ==
  LET sym == SymDot(it.rule)
      lx == SymLexeme[sym]
  IN [acc EXCEPT !.allowed = IF lx # NoLexeme THEN @ \cup {lx} ELSE @,
                 !.mts = IF lx # NoLexeme /\ p.definitive
                         THEN Append(@, <<lx, MaxTokens[sym]>>) ELSE @,
                 !.items = AddAllUnique(@, ItemsAt(RulesOf(sym), currIdx))]

(* push_row, predictor branch: allow the lexeme of a terminal, step over a *)
(* nullable symbol, predict the symbol's rules at this row.                *)
Predict(p, currIdx, acc, it) ==
  LET sym == SymDot(it.rule)
      lx == SymLexeme[sym]
      nullCap == IF p.definitive /\ sym \in Nullable /\ CaptureName[sym] # NoName
                 THEN <<<<CaptureName[sym], <<>>>>>> ELSE <<>>
      afterNull == IF sym \in Nullable THEN AddUnique(acc.items, AdvanceDot(it)) ELSE acc.items
  IN [acc EXCEPT !.allowed = IF lx # NoLexeme THEN @ \cup {lx} ELSE @,
                 !.mts = IF lx # NoLexeme /\ p.definitive
                         THEN Append(@, <<lx, MaxTokens[sym]>>) ELSE @,
                 !.items = AddAllUnique(afterNull, ItemsAt(RulesOf(sym), currIdx)),
                 !.caps = @ \o nullCap]

ProcessItem(p, currIdx, lexeme, acc, it) ==
  IF SymDot(it.rule) = NullSym THEN Complete(p, currIdx, lexeme, acc, it)
  ELSE Predict(p, currIdx, acc, it)

(* The agenda: items are processed in FIFO order until none is left.       *)
RECURSIVE Agenda(_, _, _, _, _)
Agenda(p, currIdx, lexeme, acc, ptr) ==
  IF ptr > Len(acc.items) THEN acc
  ELSE Agenda(p, currIdx, lexeme, ProcessItem(p, currIdx, lexeme, acc, acc.items[ptr]), ptr + 1)

(* The per-lexeme max_tokens of a new RowInfo: the largest budget among    *)
(* the occurrences, dropped when that is unlimited.                        *)
MaxTokensMap(mts) ==
  LET lxs == {mts[i][1] : i \in DOMAIN mts}
      most(l) == Max({mts[i][2] : i \in {j \in DOMAIN mts : mts[j][1] = l}})
  IN [l \in {x \in lxs : most(x) # Unlimited} |-> most(l)]

(* The end of push_row: store the closed row acc at num_rows() and, in     *)
(* definitive mode, truncate row_infos there and push the row's RowInfo.   *)
StoreRow(p, acc) ==
  LET idx == NumRows(p)
      row == [items |-> acc.items, allowed |-> acc.allowed \cup {SKIP}]
      info == [lexeme |-> Bogus, maxTokens |-> MaxTokensMap(acc.mts),
               tokStart |-> p.tokenIdx, tokStop |-> p.tokenIdx]
  IN IF acc.items = <<>>
     THEN Result(FALSE, [p EXCEPT !.captures = acc.caps])
     ELSE Result(TRUE, [p EXCEPT !.captures = acc.caps,
                                 !.rows = IF @ = <<>> \/ Len(@) = idx THEN Append(@, row)
                                          ELSE [@ EXCEPT ![idx + 1] = row],
                                 !.infos = IF p.definitive
                                           THEN Append(SubSeq(@, 1, Min({idx, Len(@)})), info)
                                           ELSE @])

(* push_row(curr_idx, agenda_ptr, lexeme): close the work row, then store  *)
(* it.                                                                     *)
PushRow(p, currIdx, work, agendaFrom, lexeme) ==
  StoreRow(p, Agenda(p, currIdx, lexeme,
                     [items |-> work, allowed |-> {}, mts |-> <<>>, caps |-> p.captures],
                     agendaFrom))

(* Mutant: seeds the next row with every item that still waits for a     *)
(* symbol, whatever the lexeme.                                           *)
ScanAnyItem(p, lexeme) ==
  PushRow(p, NumRows(p),
          AdvanceAll(SelectSeq(CurrRow(p).items, LAMBDA it : SymDot(it.rule) # NullSym)),
          1, lexeme)

(* scan(lexeme): seed the next row with every item of the current row      *)
(* whose next symbol is lexeme's terminal, dot advanced.                   *)
Scan(p, lexeme) ==
  PushRow(p, NumRows(p),
          AdvanceAll(SelectSeq(CurrRow(p).items, LAMBDA it : LexemeAtDot(it.rule) = lexeme.idx)),
          1, lexeme)

(* After the skip row is pushed: inherit allowed_lexemes and, in           *)
(* definitive mode, max_tokens from the row it copies.                     *)
InheritSkipRow(p, r) ==
  LET added == NumRows(p)
  IN Result(TRUE,
       [r.p EXCEPT !.rows[added + 1].allowed = CurrRow(p).allowed,
                   !.infos = IF p.definitive
                             THEN [@ EXCEPT ![added + 1].maxTokens = r.p.infos[added].maxTokens]
                             ELSE @])

(* scan_skip_lexeme: copy the current row verbatim and process no agenda.  *)
ScanSkipLexeme(p, lexeme) ==
  IF CurrRow(p).items = <<>> THEN Result(FALSE, p)
  ELSE InheritSkipRow(p, PushRow(p, NumRows(p), CurrRow(p).items,
                                 Len(CurrRow(p).items) + 1, lexeme))

(* Mutant: any completed item accepts, whatever its left-hand side.       *)
RowIsAcceptingAnyLhs(p) ==
  \E i \in DOMAIN CurrRow(p).items : SymDot(CurrRow(p).items[i].rule) = NullSym

(* row_is_accepting: a completed rule of the start symbol in the top row.  *)
RowIsAccepting(p) ==
  \E i \in DOMAIN CurrRow(p).items :
     SymDot(CurrRow(p).items[i].rule) = NullSym /\ Lhs(CurrRow(p).items[i].rule) = Start

=============================================================================
