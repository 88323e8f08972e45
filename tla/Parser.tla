------------------------------ MODULE Parser ------------------------------
(***************************************************************************)
(* The byte-level parser of llguidance_ctrl's earley/parser.rs: the lexer  *)
(* stack, advance_parser with its two-lexeme and hidden-byte paths,        *)
(* definitive pushes, flush, forced bytes, and the speculative region the  *)
(* token-trie walker opens (trie_started, try_push_byte, pop_bytes,        *)
(* trie_finished).                                                         *)
(*                                                                         *)
(* The walker and the controller are the environment: each step of Next   *)
(* is one call into the parser, carried out whole.  A failed assertion of  *)
(* the code (assert!, a panic, an index underflow) sets `panicked`; the    *)
(* process aborts there, so no action is enabled afterwards.  A definitive *)
(* byte the parser rejects ends the controller's use of the parser         *)
(* (apply_tokens returns "parse reject"): `rejected`.                      *)
(***************************************************************************)
EXTENDS Earley

CONSTANTS
  ByteOrder,   \* Bytes in increasing numeric order: forced_byte tries 0..=255
  MaxStack     \* bound on lexer-stack frames (one per byte fed)

ASSUME Range(ByteOrder) = Bytes /\ MaxStack \in Nat

VARIABLES
  rows,            \* Parser.rows (live rows 0..num_rows()-1)
  rowInfos,        \* Parser.row_infos
  lexerStack,      \* Parser.lexer_stack: [row, lstate, byte]
  captures,        \* Parser.captures
  definitive,      \* Scratch.definitive
  trieLexerStack,  \* Parser.trie_lexer_stack (-1 is usize::MAX)
  tokenIdx,        \* Parser.token_idx, written only by apply_tokens
  panicked,        \* an assertion of the code failed
  rejected,        \* a definitive byte was rejected
  pushHist,        \* walker: the lexer stack before each accepted speculative byte
  saved            \* walker: the definitive state when the trie walk started

parserVars == <<rows, rowInfos, lexerStack, captures, definitive, trieLexerStack, tokenIdx,
               panicked>>
vars == <<parserVars, rejected, pushHist, saved>>

(* The parser as a record, for the pure operators of Earley.               *)
P == [rows |-> rows, infos |-> rowInfos, stack |-> lexerStack, captures |-> captures,
      definitive |-> definitive, trieStack |-> trieLexerStack, tokenIdx |-> tokenIdx,
      panic |-> panicked]

Panic(p) == [p EXCEPT !.panic = TRUE]

(* assert_definitive                                                        *)
DefinitiveOk(p) == p.definitive /\ NumRows(p) = Len(p.infos)

(* Mutant: pops one frame too few.                                        *)
PopLexerStatesShort(p, n) ==
  IF n > 0 /\ Len(p.stack) > n THEN [p EXCEPT !.stack = SubSeq(@, 1, Len(@) - n + 1)]
  ELSE IF n = 0 THEN p
  ELSE Panic(p)

(* pop_lexer_states(n): assert!(lexer_stack.len() > n)                     *)
PopLexerStates(p, n) ==
  IF n >= 0 /\ Len(p.stack) > n THEN [p EXCEPT !.stack = SubSeq(@, 1, Len(@) - n)]
  ELSE Panic(p)

(* The number of frames at the top of stack s that lie on row r.           *)
TopRunLength(s, r) ==
  Max({j \in 0..Len(s) : \A i \in (Len(s) - j + 1)..Len(s) : s[i].row = r})

(* The bytes the top k frames of s carry (a frame without a byte adds none). *)
TopBytes(s, k) ==
  FlattenSeq([i \in 1..k |-> IF s[Len(s) - k + i].byte = NoByte THEN <<>>
                             ELSE <<s[Len(s) - k + i].byte>>])

(* Mutant: stops one frame before the start of the row.                   *)
CurrRowBytesShort(p) ==
  TopBytes(p.stack, Max({TopRunLength(p.stack, NumRows(p) - 1) - 1, 0}))

(* curr_row_bytes: the bytes of the frames on the top row.                 *)
CurrRowBytes(p) == TopBytes(p.stack, TopRunLength(p.stack, NumRows(p) - 1))

HasPendingLexemeBytes(p) == CurrRowBytes(p) # <<>>

(* Mutant: appends the lexeme byte without checking it is Some.          *)
MkLexemeNoneByte(p, byte, pre) ==
  MkLex(pre.idx, CurrRowBytes(p) \o <<byte>>, pre.hidden)

(* mk_lexeme                                                               *)
MkLexeme(p, byte, pre) ==
  MkLex(pre.idx, CurrRowBytes(p) \o (IF byte = NoByte THEN <<>> ELSE <<byte>>), pre.hidden)

(* has_forced_bytes: every lexeme allowed next starts with these bytes.    *)
HasForcedBytes(allowed, bytes) ==
  allowed # {} /\ \A l \in allowed : LexForcesBytes(l, bytes)

(* lexer_state_for_added_row: the frame for the row push_row just stored;  *)
(* in definitive mode the lexeme is saved on the row it was lexed from.    *)
LexerStateForAddedRow(p, lexeme, tb) ==
  [frame |-> [row |-> NumRows(p), lstate |-> StartState(p.rows[NumRows(p) + 1].allowed, tb),
              byte |-> tb],
   p |-> IF p.definitive THEN [p EXCEPT !.infos[NumRows(p)].lexeme = lexeme] ELSE p]

(* Re-lex the hidden bytes from the new row's start state, one frame each; *)
(* a byte that does not leave the lexer inside a lexeme panics.            *)
RECURSIVE ReplayHidden(_, _, _)
ReplayFrame(p, frame, bytes, res) ==
  IF res.kind # "State" THEN Panic(p)
  ELSE ReplayHidden([p EXCEPT !.stack = Append(p.stack, [frame EXCEPT !.lstate = res.state,
                                                                 !.byte = Head(bytes)])],
                    [frame EXCEPT !.lstate = res.state, !.byte = Head(bytes)], Tail(bytes))
ReplayHidden(p, frame, bytes) ==
  IF bytes = <<>> THEN p
  ELSE ReplayFrame(p, frame, bytes, Advance(frame.lstate, Head(bytes)))

(* Mutant: pops every hidden byte's frame.                               *)
HiddenPopCountAll(hb) == Len(hb)

(* The frames handle_hidden_bytes replaces: all hidden bytes but the last, *)
(* whose frame was never pushed.                                           *)
HiddenPopCount(hb) == Len(hb) - 1

(* handle_hidden_bytes, given the hidden bytes hb of the lexeme.           *)
HandleHidden(p, noHidden, hb) ==
  LET addedLex == p.rows[NumRows(p) + 1].allowed
  IN IF HasForcedBytes(addedLex, hb)
     THEN IF PopLexerStates(p, HiddenPopCount(hb)).panic THEN PopLexerStates(p, HiddenPopCount(hb))
          ELSE ReplayHidden(PopLexerStates(p, HiddenPopCount(hb)),
                            [noHidden EXCEPT !.lstate = StartState(addedLex, NoByte)], hb)
     ELSE [p EXCEPT !.stack = Append(@, [noHidden EXCEPT
                                  !.lstate = IF p.definitive THEN StartState(addedLex, NoByte)
                                             ELSE Dead,
                                  !.byte = NoByte])]

HandleHiddenBytes(p, noHidden, lexemeByte, pre) ==
  HandleHidden(p, noHidden, HiddenBytes(MkLexeme(p, lexemeByte, pre)))

(* The end of a successful advance_parser: assert_definitive.              *)
Finish(p) ==
  IF p.panic THEN Result(FALSE, p)
  ELSE IF p.definitive /\ ~DefinitiveOk(p) THEN Result(FALSE, Panic(p))
  ELSE Result(TRUE, p)

RECURSIVE AdvanceParser(_, _)

(* advance_parser after the second lexeme's recursive call returned r:     *)
(* its frame replaces the provisional one, or the provisional one is       *)
(* popped.                                                                 *)
AfterSecondLexeme(r) ==
  IF r.p.panic THEN r
  ELSE IF r.ok THEN Result(TRUE, [r.p EXCEPT !.stack = Append(SubSeq(@, 1, Len(@) - 2), Last(@))])
  ELSE Result(FALSE, [r.p EXCEPT !.stack = Front(@)])

(* advance_parser once scan succeeded and nh = lexer_state_for_added_row.  *)
AfterScan(pre, nh) ==
  LET tb == IF pre.nextRow THEN pre.byte ELSE NoByte
      lb == IF pre.nextRow THEN NoByte ELSE pre.byte
      single == IF tb = NoByte THEN {} ELSE CheckForSingleByteLexeme(nh.frame.lstate, tb)
  IN CASE pre.hidden > 0 -> Finish(HandleHiddenBytes(nh.p, nh.frame, lb, pre))
       [] pre.nextRow /\ nh.frame.lstate.dead -> Result(FALSE, nh.p)
       [] single # {} ->
            AfterSecondLexeme(
              AdvanceParser([nh.p EXCEPT !.stack = Append(nh.p.stack, [nh.frame EXCEPT !.byte = NoByte])],
                            CHOOSE x \in single : TRUE))
       [] OTHER -> Finish([nh.p EXCEPT !.stack = Append(@, nh.frame)])

(* advance_parser with the lexeme built and sr the result of its scan.     *)
AfterLexeme(pre, lexeme, sr) ==
  IF ~sr.ok THEN Result(FALSE, sr.p)
  ELSE AfterScan(pre, LexerStateForAddedRow(sr.p, lexeme, IF pre.nextRow THEN pre.byte ELSE NoByte))

ScanLexeme(p, lexeme) ==
  IF lexeme.idx = SKIP THEN ScanSkipLexeme(p, lexeme) ELSE Scan(p, lexeme)

WithLexeme(p, pre, lexeme) == AfterLexeme(pre, lexeme, ScanLexeme(p, lexeme))

(* advance_parser(pre_lexeme)                                               *)
AdvanceParser(p, pre) ==
  WithLexeme(p, pre, IF p.definitive
                     THEN MkLexeme(p, IF pre.nextRow THEN NoByte ELSE pre.byte, pre)
                     ELSE JustIdx(pre.idx))

(* advance_lexer_or_parser                                                 *)
AdvanceLexerOrParser(p, res, curr) ==
  CASE res.kind = "State" ->
         Result(TRUE, [p EXCEPT !.stack = Append(@, [row |-> curr.row, lstate |-> res.state,
                                                     byte |-> res.byte])])
    [] res.kind = "Error" -> Result(FALSE, p)
    [] OTHER -> AdvanceParser(p, res.pre)

(* Recognizer::try_push_byte (speculative)                                 *)
TryPushByte(p, b) ==
  IF p.definitive THEN Result(FALSE, Panic(p))
  ELSE AdvanceLexerOrParser(p, Advance(Last(p.stack).lstate, b), Last(p.stack))

(* try_push_byte_definitive(Some(b)) or, with NoByte, (None)               *)
TryPushByteDefinitive(p, b) ==
  IF ~p.definitive THEN Result(FALSE, Panic(p))
  ELSE AdvanceLexerOrParser(p, IF b = NoByte THEN ForceLexemeEnd(Last(p.stack).lstate)
                               ELSE Advance(Last(p.stack).lstate, b),
                            Last(p.stack))

(* lexer_allows_eos: pending bytes that the lexer state would end here.   *)
LexerAllowsEos(p) == HasPendingLexemeBytes(p) /\ AllowsEos(Last(p.stack).lstate)

(* flush_lexer                                                              *)
FlushLexer(p) ==
  IF ~HasPendingLexemeBytes(p) THEN Result(TRUE, p)
  ELSE AdvanceLexerOrParser(p, TryLexemeEnd(Last(p.stack).lstate), Last(p.stack))

(* Mutant: records the stack length one frame short.                      *)
TrieStartedInnerLate(p) ==
  IF ~DefinitiveOk(p) THEN Panic(p)
  ELSE [p EXCEPT !.trieStack = Len(p.stack) - 1, !.definitive = FALSE]

(* trie_started_inner / trie_finished_inner                                *)
TrieStartedInner(p) ==
  IF ~DefinitiveOk(p) THEN Panic(p)
  ELSE [p EXCEPT !.trieStack = Len(p.stack), !.definitive = FALSE]

(* The end of trie_finished_inner, once the speculative frames are popped. *)
Redefinitive(q) ==
  IF q.panic THEN q
  ELSE IF DefinitiveOk([q EXCEPT !.definitive = TRUE]) THEN [q EXCEPT !.definitive = TRUE]
  ELSE Panic([q EXCEPT !.definitive = TRUE])

(* Mutant: leaves the last speculative frame on the stack.                 *)
TrieFinishedInnerKeepOne(p) ==
  IF p.definitive \/ Len(p.infos) > NumRows(p) THEN Panic(p)
  ELSE Redefinitive(PopLexerStates(p, Len(p.stack) - p.trieStack - 1))

TrieFinishedInner(p) ==
  IF p.definitive \/ Len(p.infos) > NumRows(p) THEN Panic(p)
  ELSE Redefinitive(PopLexerStates(p, Len(p.stack) - p.trieStack))

(* is_accepting: run_speculative(flush_lexer && row_is_accepting)          *)
AcceptingAfterFlush(f) == [val |-> f.ok /\ RowIsAccepting(f.p), p |-> TrieFinishedInner(f.p)]

AcceptingFrom(s) ==
  IF s.panic THEN [val |-> FALSE, p |-> s] ELSE AcceptingAfterFlush(FlushLexer(s))

IsAccepting(p) == AcceptingFrom(TrieStartedInner(p))

(* forced_byte: inside one speculative region, try every byte in order,    *)
(* popping each accepted one; stop at the second accepted byte.            *)
AfterTry(acc, b, r) ==
  CASE ~r.ok -> [acc EXCEPT !.p = r.p]
    [] acc.found # NoByte -> [acc EXCEPT !.p = PopLexerStates(r.p, 1), !.multi = TRUE]
    [] OTHER -> [acc EXCEPT !.p = PopLexerStates(r.p, 1), !.found = b]

ForcedByteStep(acc, b) ==
  IF acc.multi \/ acc.p.panic THEN acc ELSE AfterTry(acc, b, TryPushByte(acc.p, b))

ForcedFromLoop(loop) ==
  IF loop.p.panic THEN [byte |-> NoByte, p |-> loop.p]
  ELSE [byte |-> IF loop.multi THEN NoByte ELSE loop.found, p |-> TrieFinishedInner(loop.p)]

ForcedAfterAccepting(a) ==
  IF a.val \/ a.p.panic THEN [byte |-> NoByte, p |-> a.p]
  ELSE ForcedFromLoop(FoldLeft(ForcedByteStep,
                               [p |-> TrieStartedInner(a.p), found |-> NoByte, multi |-> FALSE],
                               ByteOrder))

ForcedByte(p) == ForcedAfterAccepting(IsAccepting(p))

(* force_bytes: feed forced bytes definitively while there is one; the     *)
(* model stops the loop at MaxStack frames.                                *)
RECURSIVE ForceLoop(_)
AfterForcedPush(r) == IF ~r.ok THEN r.p ELSE ForceLoop(r.p)

AfterForcedByte(f) ==
  IF f.p.panic \/ f.byte = NoByte THEN f.p
  ELSE AfterForcedPush(TryPushByteDefinitive(f.p, f.byte))

ForceLoop(p) ==
  IF Len(p.stack) >= MaxStack THEN p ELSE AfterForcedByte(ForcedByte(p))

ForceBytesOp(p) == IF ~DefinitiveOk(p) THEN Panic(p) ELSE ForceLoop(p)

(******************************* the model *********************************)
(* Rows above the top frame's row are storage the code overwrites before   *)
(* it reads them again (push_row writes rows[num_rows()] first); the model *)
(* drops them after each call.                                             *)
SetP(p) ==
  /\ rows' = SubSeq(p.rows, 1, NumRows(p))
  /\ rowInfos' = p.infos
  /\ lexerStack' = p.stack
  /\ captures' = p.captures
  /\ definitive' = p.definitive
  /\ trieLexerStack' = p.trieStack
  /\ tokenIdx' = p.tokenIdx
  /\ panicked' = p.panic

(* Parser::new, after the initial push_row returned r: SKIP is not        *)
(* allowed at row 0, and the first frame starts lexing that row.           *)
StartRow0(r) ==
  [r.p EXCEPT !.rows[1].allowed = @ \ {SKIP},
              !.stack[1].lstate = StartState(r.p.rows[1].allowed \ {SKIP}, NoByte)]

(* Parser::new                                                              *)
InitParser ==
  StartRow0(PushRow([rows |-> <<>>, infos |-> <<>>,
                     stack |-> <<[row |-> 0, lstate |-> Dead, byte |-> NoByte]>>,
                     captures |-> <<>>, definitive |-> TRUE, trieStack |-> -1, tokenIdx |-> 0,
                     panic |-> FALSE],
                    0, AddAllUnique(<<>>, ItemsAt(RulesOf(Start), 0)), 1, Bogus))

IsParser(p) ==
  /\ rows = p.rows /\ rowInfos = p.infos /\ lexerStack = p.stack
  /\ captures = p.captures /\ definitive = p.definitive
  /\ trieLexerStack = p.trieStack /\ tokenIdx = p.tokenIdx /\ panicked = ~DefinitiveOk(p)

Init ==
  /\ IsParser(InitParser)
  /\ rejected = FALSE
  /\ pushHist = <<>>
  /\ saved = <<>>

Running == ~panicked /\ ~rejected

CommitResult(r) == SetP(r.p) /\ rejected' = ~r.ok

(* apply_tokens feeding one byte past the already-parsed ones.             *)
CommitByte(b) ==
  /\ Running /\ definitive /\ Len(lexerStack) < MaxStack
  /\ CommitResult(TryPushByteDefinitive(P, b))
  /\ UNCHANGED <<pushHist, saved>>

(* force_bytes                                                              *)
ForceBytes ==
  /\ Running /\ definitive /\ Len(lexerStack) < MaxStack
  /\ SetP(ForceBytesOp(P))
  /\ UNCHANGED <<rejected, pushHist, saved>>

(* Recognizer::trie_started                                                *)
TrieStarted ==
  /\ Running /\ definitive
  /\ SetP(TrieStartedInner(P))
  /\ pushHist' = <<>>
  /\ saved' = [rows |-> rows, infos |-> rowInfos, stack |-> lexerStack, captures |-> captures]
  /\ UNCHANGED rejected

(* Recognizer::try_push_byte, one byte of a token prefix.                 *)
TrieResult(r) ==
  SetP(r.p) /\ pushHist' = IF r.ok THEN Append(pushHist, lexerStack) ELSE pushHist

TrieTryPushByte(b) ==
  /\ Running /\ ~definitive /\ Len(lexerStack) < MaxStack
  /\ TrieResult(TryPushByte(P, b))
  /\ UNCHANGED <<rejected, saved>>

(* Recognizer::pop_bytes(n): the walker pops only bytes it pushed.         *)
TriePopBytes(n) ==
  /\ Running /\ ~definitive /\ n \in 1..Len(pushHist)
  /\ SetP(PopLexerStates(P, n))
  /\ pushHist' = SubSeq(pushHist, 1, Len(pushHist) - n)
  /\ UNCHANGED <<rejected, saved>>

(* Recognizer::trie_finished                                               *)
TrieFinished ==
  /\ Running /\ ~definitive
  /\ SetP(TrieFinishedInner(P))
  /\ pushHist' = <<>>
  /\ UNCHANGED <<rejected, saved>>

Next ==
  \/ \E b \in Bytes : CommitByte(b)
  \/ ForceBytes
  \/ TrieStarted
  \/ \E b \in Bytes : TrieTryPushByte(b)
  \/ \E n \in 1..MaxStack : TriePopBytes(n)
  \/ TrieFinished

Spec == Init /\ [][Next]_vars


(****************************** properties *********************************)
CaptureNames == (Range(CaptureName) \cup Range(StopCaptureName)) \ {NoName}
LexStates == [dead : BOOLEAN, allowed : SUBSET Lexemes, buf : Seq(Bytes)]

TypeOK ==
  /\ rows \in Seq([items : Seq([rule : RuleIdx, start : Nat]), allowed : SUBSET Lexemes])
  /\ lexerStack \in Seq([row : Nat, lstate : LexStates, byte : Bytes \cup {NoByte}])
  /\ \A i \in DOMAIN rowInfos :
        /\ rowInfos[i].lexeme \in [idx : Lexemes \cup {BogusIdx}, bytes : Seq(Bytes), hidden : Nat]
        /\ DOMAIN rowInfos[i].maxTokens \subseteq Lexemes
        /\ rowInfos[i].tokStart \in Nat /\ rowInfos[i].tokStop \in Nat
  /\ captures \in Seq(CaptureNames \X Seq(Bytes))
  /\ definitive \in BOOLEAN /\ panicked \in BOOLEAN /\ rejected \in BOOLEAN
  /\ trieLexerStack \in Int /\ tokenIdx \in Nat

(* No assert!, index underflow or unwrap of the parser fails on any       *)
(* sequence of calls the walker and the controller may make.               *)
NoPanic == ~panicked

(* pop_bytes(n) gives back exactly the lexer stack from before the n      *)
(* bytes it pops were pushed (the token trie walk relies on it).           *)
PopBytesRestores ==
  [][~definitive /\ ~definitive' /\ Len(pushHist') < Len(pushHist)
       => lexerStack' = pushHist[Len(pushHist') + 1]]_vars

(* trie_finished leaves the parser exactly as trie_started found it:      *)
(* speculative pushes change neither committed rows, row infos, lexer      *)
(* frames nor captures.                                                    *)
TrieFinishedRestores ==
  [][~definitive /\ definitive'
       => /\ rows' = saved.rows /\ rowInfos' = saved.infos
          /\ lexerStack' = saved.stack /\ captures' = saved.captures]_vars

(* The committed lexemes, without SKIP: row_infos[k].lexeme was lexed     *)
(* from row k.                                                             *)
GrammarWord ==
  SelectSeq([k \in 1..(NumRows(P) - 1) |-> rowInfos[k].lexeme.idx], LAMBDA l : l # SKIP)

(* After definitive pushes the top Earley row accepts exactly when the    *)
(* committed lexemes form a sentence of the grammar (row_is_accepting).    *)
AcceptsLanguage ==
  definitive /\ ~panicked => (RowIsAccepting(P) <=> GrammarWord \in Lang)

(* The lexemes the top row allows are exactly those that keep the         *)
(* committed lexemes a prefix of a sentence (push_row's allowed_lexemes).  *)
AllowsViable ==
  definitive /\ ~panicked =>
    CurrRow(P).allowed \ {SKIP} = {l \in Lexemes \ {SKIP} : Viable(GrammarWord \o <<l>>)}

(* The top lexer frame lexes the top row: its state holds the bytes the   *)
(* frames of that row pushed and the row's allowed lexemes (what           *)
(* mk_lexeme and lexer_state_for_added_row rely on).                       *)
LexerMatchesRow ==
  ~panicked /\ ~Last(lexerStack).lstate.dead =>
     /\ Last(lexerStack).lstate.buf = CurrRowBytes(P)
     /\ Last(lexerStack).lstate.allowed = CurrRow(P).allowed


(* The committed lexemes without SKIP: row_infos[k].lexeme was lexed from *)
(* row k, for every row but the last, whose RowInfo holds Lexeme::bogus    *)
(* until the next row is added.  Speculative pushes leave row_infos alone. *)
CommittedWord ==
  SelectSeq([k \in 1..(Len(rowInfos) - 1) |-> rowInfos[k].lexeme.idx], LAMBDA l : l # SKIP)

Recognizer == INSTANCE AbstractRecognizer WITH
                Sentences <- Lang,
                word <- CommittedWord,
                over <- rejected \/ panicked

(* The parser implements AbstractRecognizer: whatever the walker and the  *)
(* controller call, the lexemes it commits only grow, each committed word  *)
(* is a prefix of a sentence, and a rejected byte or a failed assertion    *)
(* ends its use with a committed word of that kind.                        *)
ParserRefined == Recognizer!Spec

=============================================================================
