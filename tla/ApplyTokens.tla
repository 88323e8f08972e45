---------------------------- MODULE ApplyTokens ----------------------------
(***************************************************************************)
(* Token application and max_tokens filtering of llguidance_ctrl's         *)
(* earley/parser.rs: get_bytes_and_lexeme_indices, apply_tokens with its   *)
(* token-index windows (RowInfo::apply_token_idx) and per-lexeme           *)
(* max_tokens limiting, and filter_max_tokens.                             *)
(*                                                                         *)
(* The controller is the environment.  As the token parser that drives     *)
(* this code does, it calls apply_tokens with every token sampled so far,  *)
(* the new one last, so the bytes the parser already holds are replayed    *)
(* against get_bytes() and only the new token's bytes are pushed.  Between *)
(* two calls it may call filter_max_tokens.  A token is a non-empty byte   *)
(* string (TokTrie::token).  The result string of apply_tokens is          *)
(* `outcome`; any result other than "" ends the controller's use of the    *)
(* parser, as does the Err of the MAX_ROW bail ("error").                  *)
(***************************************************************************)
EXTENDS Parser

CONSTANTS
  TokBytes,        \* TokBytes[t]: the bytes of token t
  MaxApplied,      \* tokens the controller samples
  NumSkip,         \* num_skip: leading bytes of the token list not in the grammar
  MaxRow,          \* MAX_ROW
  OverflowChecks   \* the build panics on usize underflow (debug) or wraps (release)

ASSUME \A t \in DOMAIN TokBytes : TokBytes[t] \in Seq(Bytes) \ {<<>>}

VARIABLES
  applied,         \* the token list of the controller
  outcome          \* the last result of apply_tokens

atVars == <<vars, applied, outcome>>

Tokens == DOMAIN TokBytes

(* usize::MAX: the unlimited max_tokens and the reset token_idx_start.     *)
UsizeMax == Unlimited

(* usize arithmetic: a subtraction below zero panics or wraps.             *)
UsizeSub(a, b) == (a - b) % (UsizeMax + 1)
(* `x as isize` of a usize: usize::MAX is -1.                               *)
AsIsize(x) == IF x = UsizeMax THEN -1 ELSE x

(* RowInfo::apply_token_idx on row k (0-based).                            *)
ApplyTokenIdx(p, k, t) ==
  [p EXCEPT !.infos[k + 1].tokStart = Min({p.infos[k + 1].tokStart, t}),
            !.infos[k + 1].tokStop = Max({p.infos[k + 1].tokStop, t})]

(* Mutant: only the stop of the window is extended.                        *)
ApplyTokenIdxRangeStopOnly(p, from, to, t) ==
  [p EXCEPT !.infos = [i \in DOMAIN p.infos |->
                         IF i - 1 \in from..to
                         THEN [p.infos[i] EXCEPT !.tokStop = Max({@, t})]
                         ELSE p.infos[i]]]

(* apply_token_idx(t) on each of rows from..to.                             *)
ApplyTokenIdxRange(p, from, to, t) ==
  [p EXCEPT !.infos = [i \in DOMAIN p.infos |->
                         IF i - 1 \in from..to
                         THEN [p.infos[i] EXCEPT !.tokStart = Min({@, t}), !.tokStop = Max({@, t})]
                         ELSE p.infos[i]]]

(* Mutant: the top row's pending bytes are left out.                      *)
RowBytesVisibleOnly(p, idx) == VisibleBytes(p.infos[idx + 1].lexeme)

(* The bytes get_bytes_and_lexeme_indices reports for row idx: the        *)
(* visible bytes of its lexeme, or the pending bytes of the top row.       *)
RowBytes(p, idx) ==
  IF VisibleBytes(p.infos[idx + 1].lexeme) = <<>> /\ idx = NumRows(p) - 1
  THEN CurrRowBytes(p) ELSE VisibleBytes(p.infos[idx + 1].lexeme)

RowBytesAll(p) == [i \in DOMAIN p.infos |-> RowBytes(p, i - 1)]

(* get_bytes_and_lexeme_indices: the bytes, and for each the row it came   *)
(* from.                                                                   *)
GrmFrom(rb) ==
  [bytes |-> FlattenSeq(rb),
   indices |-> FlattenSeq([i \in DOMAIN rb |-> [j \in DOMAIN rb[i] |-> i - 1]])]

GetBytesAndIndices(p) == GrmFrom(RowBytesAll(p))

(* The bytes of a token list, one step per byte: its token index and      *)
(* whether it is the token's last byte.                                    *)
ByteSteps(tokens) ==
  FlattenSeq([k \in DOMAIN tokens |->
                [j \in DOMAIN TokBytes[tokens[k]] |->
                   [tok |-> k - 1, b |-> TokBytes[tokens[k]][j],
                    last |-> j = Len(TokBytes[tokens[k]])]]])

(* The max_tokens budget row info i gives lexeme l (usize::MAX if none).  *)
LexBudget(info, l) == IF l \in DOMAIN info.maxTokens THEN info.maxTokens[l] ELSE UsizeMax

(* Mutant: a lexeme stays allowed while its count equals its budget.      *)
WithinBudgetLe(info, st, infoTokens) ==
  {l \in PossibleLexemes(st) : infoTokens <= LexBudget(info, l)}

(* The lexemes the top state may still produce within their budget after  *)
(* infoTokens tokens.                                                      *)
WithinBudget(info, st, infoTokens) ==
  {l \in PossibleLexemes(st) : infoTokens < LexBudget(info, l)}

(* The end-of-token max_tokens check once the allowed set is known.        *)
LimitTo(q, st, allowed) ==
  IF allowed = PossibleLexemes(st) THEN Result(TRUE, q)
  ELSE IF LimitStateTo(st, allowed).dead THEN TryPushByteDefinitive(q, NoByte)
  ELSE Result(TRUE, [q EXCEPT !.stack[Len(q.stack)].lstate = LimitStateTo(st, allowed)])

(* info_tokens = max(0, token_idx + 1 - token_idx_start as isize).         *)
LimitMaxTokens(q, rowIdx) ==
  LimitTo(q, Last(q.stack).lstate,
          WithinBudget(q.infos[rowIdx + 1], Last(q.stack).lstate,
                       Max({0, q.tokenIdx + 1 - AsIsize(q.infos[rowIdx + 1].tokStart)})))

(* After the max_tokens check: the MAX_ROW bail, then last_lexeme.        *)
AfterLimit(acc, lr) ==
  CASE lr.p.panic -> [acc EXCEPT !.p = lr.p, !.out = "panic"]
    [] ~lr.ok -> [acc EXCEPT !.p = lr.p, !.out = "parse reject on max_tokens"]
    [] Len(CurrRow(lr.p).items) > MaxRow -> [acc EXCEPT !.p = lr.p, !.out = "error"]
    [] OTHER -> [acc EXCEPT !.p = lr.p, !.last = NumRows(lr.p) - 1, !.byteIdx = @ + 1]

(* After try_push_byte_definitive returned r for a byte of token s.tok.   *)
AfterPush(acc, s, rowIdx, r) ==
  CASE r.p.panic -> [acc EXCEPT !.p = r.p, !.out = "panic"]
    [] ~r.ok -> [acc EXCEPT !.p = r.p, !.out = "parse reject"]
    [] s.last /\ rowIdx = NumRows(r.p) - 1 -> AfterLimit(acc, LimitMaxTokens(r.p, rowIdx))
    [] OTHER -> AfterLimit(acc, Result(TRUE, r.p))

(* A byte past the bytes already parsed: record the token, push the byte. *)
PushStep(acc, s) ==
  AfterPush(acc, s, NumRows(acc.p) - 1,
            TryPushByteDefinitive([ApplyTokenIdx(acc.p, NumRows(acc.p) - 1, s.tok)
                                     EXCEPT !.tokenIdx = s.tok], s.b))

(* A byte inside the bytes already parsed: extend the token windows up to *)
(* the byte's row, then compare.                                           *)
ReplayStep(acc, grm, s) ==
  [acc EXCEPT !.p = ApplyTokenIdxRange(acc.p, acc.last,
                                       Max({acc.last, grm.indices[acc.byteIdx + 1]}), s.tok),
              !.last = Max({@, grm.indices[acc.byteIdx + 1]}),
              !.byteIdx = IF grm.bytes[acc.byteIdx + 1] = s.b THEN @ + 1 ELSE @,
              !.out = IF grm.bytes[acc.byteIdx + 1] = s.b THEN @ ELSE "static reject"]

ByteStep(grm, acc, s) ==
  CASE acc.out # "run" -> acc
    [] acc.skip > 0 -> [acc EXCEPT !.skip = @ - 1]
    [] acc.byteIdx >= Len(grm.bytes) -> PushStep(acc, s)
    [] OTHER -> ReplayStep(acc, grm, s)

(* The end of apply_tokens: token_idx and the windows of the rows after   *)
(* last_lexeme.                                                            *)
AfterLoop(acc, n) ==
  IF acc.out # "run" THEN acc
  ELSE [acc EXCEPT !.p = ApplyTokenIdxRange([acc.p EXCEPT !.tokenIdx = n], acc.last,
                                            Len(acc.p.infos) - 1, n),
                   !.out = ""]

(* Mutant: the reset start is usize::MAX read as an isize, -1.            *)
ResetWindowsIsize(p) ==
  [p EXCEPT !.infos = [i \in DOMAIN p.infos |->
                         [p.infos[i] EXCEPT !.tokStart = -1, !.tokStop = 0]]]

(* The start of apply_tokens: every window is reset.                      *)
ResetWindows(p) ==
  [p EXCEPT !.infos = [i \in DOMAIN p.infos |->
                         [p.infos[i] EXCEPT !.tokStart = UsizeMax, !.tokStop = 0]]]

ApplyFrom(p, grm, tokens, numSkip) ==
  AfterLoop(FoldLeft(LAMBDA acc, s : ByteStep(grm, acc, s),
                     [p |-> p, skip |-> numSkip, byteIdx |-> 0, last |-> 0, out |-> "run"],
                     ByteSteps(tokens)),
            Len(tokens))

(* apply_tokens(trie, tokens, num_skip): [p, out].                         *)
ApplyTokensOp(p, tokens, numSkip) ==
  IF ~DefinitiveOk(p) THEN [p |-> Panic(p), out |-> "panic"]
  ELSE ApplyFrom(ResetWindows(p), GetBytesAndIndices(p), tokens, numSkip)

(* filter_max_tokens keeps an item unless its LHS has a budget and the    *)
(* tokens since the item's start reach it; infos2 has the sentinel row.   *)
KeepItem(p, infos2, it) ==
  \/ MaxTokens[Lhs(it.rule)] = Unlimited
  \/ UsizeSub(p.tokenIdx, infos2[it.start + 2].tokStart) < MaxTokens[Lhs(it.rule)]

(* Some budgeted item's subtraction goes below zero.                        *)
Underflows(p, infos2) ==
  \E k \in 1..NumRows(p) : \E i \in DOMAIN p.rows[k].items :
     /\ MaxTokens[Lhs(p.rows[k].items[i].rule)] # Unlimited
     /\ infos2[p.rows[k].items[i].start + 2].tokStart > p.tokenIdx

FilterWith(p, infos2) ==
  IF OverflowChecks /\ Underflows(p, infos2) THEN Panic(p)
  ELSE [p EXCEPT !.rows = [k \in 1..NumRows(p) |->
                             [p.rows[k] EXCEPT !.items = SelectSeq(@, LAMBDA it :
                                                                    KeepItem(p, infos2, it))]]]

(* filter_max_tokens: the sentinel RowInfo stands for the row after the   *)
(* last one; it is popped again at the end.                                *)
FilterMaxTokensOp(p) ==
  IF ~DefinitiveOk(p) THEN Panic(p)
  ELSE FilterWith(p, Append(p.infos, [lexeme |-> Bogus, maxTokens |-> <<>>,
                                      tokStart |-> p.tokenIdx, tokStop |-> p.tokenIdx]))

(* The token trie's walk for one token: trie_started, then try_push_byte  *)
(* for each of its bytes while they are accepted.  The trie shares the     *)
(* walk of common prefixes and pops between tokens; pop_bytes and          *)
(* trie_finished restoring the state is checked in Parser.                 *)
WalkStep(acc, b) == IF ~acc.ok THEN acc ELSE TryPushByte(acc.p, b)
WalkToken(p, bytes) == FoldLeft(WalkStep, Result(TRUE, TrieStartedInner(p)), bytes)

(* add_bias: the tokens whose every byte the walk accepts.                 *)
Mask(p) == {t \in Tokens : WalkToken(p, TokBytes[t]).ok}

(* compute_bias(trie, []): with no token allowed the lexer is flushed, and *)
(* flush_lexer's result is ignored (let _ = ...).  The EOS token it adds   *)
(* when lexer_allows_eos changes no state.                                 *)
ComputeBiasOp(p) == IF Mask(p) = {} THEN FlushLexer(p).p ELSE p

(******************************* the model *********************************)
ATInit ==
  /\ IsParser(InitParser)
  /\ rejected = FALSE /\ pushHist = <<>> /\ saved = <<>>
  /\ applied = <<>> /\ outcome = ""

ApplyResult(r) ==
  /\ SetP(r.p)
  /\ outcome' = r.out
  /\ rejected' = (r.out # "")

(* The controller samples token t and applies the whole token list.       *)
ApplyNext(t) ==
  /\ Running /\ definitive /\ Len(applied) < MaxApplied
  /\ ApplyResult(ApplyTokensOp(P, Append(applied, t), NumSkip))
  /\ applied' = Append(applied, t)
  /\ UNCHANGED <<pushHist, saved>>

(* filter_max_tokens                                                        *)
FilterMaxTokens ==
  /\ Running /\ definitive
  /\ SetP(FilterMaxTokensOp(P))
  /\ UNCHANGED <<rejected, pushHist, saved, applied, outcome>>

(* compute_bias.  With an empty mask only EOS can be sampled, and the    *)
(* controller stops ("we're going to be stopped outside").                 *)
ComputeBias ==
  /\ Running /\ definitive
  /\ SetP(ComputeBiasOp(P))
  /\ rejected' = (Mask(P) = {})
  /\ outcome' = IF Mask(P) = {} THEN "stop" ELSE outcome
  /\ UNCHANGED <<pushHist, saved, applied>>

ATNext ==
  \/ \E t \in Tokens : ApplyNext(t)
  \/ FilterMaxTokens
  \/ ComputeBias

ATSpec == ATInit /\ [][ATNext]_atVars


(* The parser state apply_tokens must reproduce: everything but the token *)
(* windows of the row infos.                                               *)
Unwindowed(p) ==
  [rows |-> SubSeq(p.rows, 1, NumRows(p)), stack |-> p.stack, captures |-> p.captures,
   infos |-> [i \in DOMAIN p.infos |-> [lexeme |-> p.infos[i].lexeme,
                                        maxTokens |-> p.infos[i].maxTokens]]]

(* r is a successful call that changed nothing but the token windows.     *)
ReplayResultUnchanged(r, before) == r.out = "" /\ Unwindowed(r.p) = before

(* Two calls ended alike: the same result and, on success, the same state. *)
SameOutcome(a, b) == b.out = a.out /\ (b.out = "" => Unwindowed(b.p) = Unwindowed(a.p))

(* `both` applied a token list in one call; `first` applied all but its   *)
(* last token, and is followed by a call with the whole list.              *)
SameApplication(both, first, tokens) ==
  first.out = "" => SameOutcome(both, ApplyTokensOp(first.p, tokens, NumSkip))

(****************************** properties *********************************)
ATTypeOK ==
  /\ TypeOK
  /\ applied \in Seq(Tokens) /\ Len(applied) <= MaxApplied
  /\ outcome \in {"", "parse reject", "static reject", "parse reject on max_tokens",
                  "error", "panic", "stop"}

(* Spec section 8, round trip: applying again the token list the parser   *)
(* has accepted (the controller does so on every sampled token) succeeds   *)
(* and leaves the parser as it is, token windows aside: get_bytes()        *)
(* returns every byte the tokens carried, so none is pushed twice and none *)
(* is reported as a "static reject".                                       *)
ReplayUnchanged ==
  definitive /\ Running =>
    ReplayResultUnchanged(ApplyTokensOp(P, applied, NumSkip), Unwindowed(P))

(* The tokens that contributed bytes to row k's lexeme (0-based k): the   *)
(* bytes of the token list after num_skip, aligned with get_bytes().       *)
ContribTokens(steps, grm, k) ==
  {steps[NumSkip + i].tok :
     i \in {j \in DOMAIN grm.indices : grm.indices[j] = k /\ NumSkip + j <= Len(steps)}}

(* apply_tokens' max_tokens limiting: a lexeme with a budget of m tokens  *)
(* in its row's RowInfo is built from the bytes of at most m tokens.       *)
LexemeWithinBudget ==
  definitive /\ Running =>
    \A k \in 1..Len(rowInfos) :
       rowInfos[k].lexeme.idx \in DOMAIN rowInfos[k].maxTokens =>
         Cardinality(ContribTokens(ByteSteps(applied), GetBytesAndIndices(P), k - 1))
           <= rowInfos[k].maxTokens[rowInfos[k].lexeme.idx]

(* The token mask compute_bias hands the sampler is sound: applying any    *)
(* token it allows (the controller re-applies the whole list) is accepted  *)
(* by apply_tokens.  The one exception is the max_tokens limit that        *)
(* apply_tokens applies after a token and the speculative walk does not:   *)
(* a token that starts a lexeme but exhausts its budget is allowed and     *)
(* then rejected ("parse reject on max_tokens").                           *)
MaskSound ==
  definitive /\ Running =>
    \A t \in Mask(P) :
       ApplyTokensOp(P, Append(applied, t), NumSkip).out \in {"", "parse reject on max_tokens"}

(* Two tokens applied in one apply_tokens call leave the parser as the    *)
(* same tokens applied in two calls do: the result of apply_tokens does    *)
(* not depend on how the controller batches its token list (spec 4.9       *)
(* defines the max_tokens check on the tokens, not on the calls).          *)
BatchIndependent ==
  definitive /\ Running /\ Len(applied) + 2 <= MaxApplied =>
    \A t1, t2 \in Tokens :
       SameApplication(ApplyTokensOp(P, applied \o <<t1, t2>>, NumSkip),
                       ApplyTokensOp(P, applied \o <<t1>>, NumSkip),
                       applied \o <<t1, t2>>)

====
