# TLA+ models of the aici grammar parser and runtime channels

This directory holds TLA+ models of parts of the repository, together with the
TLC configurations that check them. The main target is the llguidance Earley
parser (`src/controllers/llguidance_ctrl/src/earley/parser.rs`). Each model is
written from the source.

## The system and its parts

| Part | Source | State it keeps | Operations |
|---|---|---|---|
| Earley row construction | `llguidance_ctrl/.../parser.rs` `push_row`, `scan`, `scan_skip_lexeme`, `Scratch` | `rows` (items, allowed lexemes), `row_infos` (lexeme, max_tokens, token window), `captures` | predict, complete, nullable advance, scan, skip-scan |
| Lexer stack and speculation | same file: `advance_parser`, `handle_hidden_bytes`, `try_push_byte(_definitive)`, `flush_lexer`, `forced_byte`, `force_bytes`, `Recognizer` impl | `lexer_stack` of frames `{row_idx, lexer_state, byte}`, `scratch.definitive`, `trie_lexer_stack` | definitive push, speculative push, `pop_bytes`, `trie_started`, `trie_finished`, force bytes, `is_accepting` |
| Token application | same file: `apply_tokens`, `filter_max_tokens`, `compute_bias` | `token_idx`, `byte_idx`, per-row token windows | apply tokens with max_tokens limiting, filter items over budget, flush on an empty mask |
| Nested grammars / model variables | same file: `scan_gen_grammar`, `scan_model_variable`, `maybe_gen_grammar` | `trie_gen_grammar`, `trie_gen_grammar_accepting` | scan a generated sub-grammar's lexeme |
| Lexer (DFA) | outside `src/` (`earley/lexer.rs`) | a DFA state per frame | `start_state`, `advance`, `try_lexeme_end`, `check_for_single_byte_lexeme` |
| Grammar (`CGrammar`) | outside `src/` | immutable | `rules_of`, `sym_idx_dot`, symbol props |
| Older byte-level parser | `guidance_ctrl/.../parser.rs` | `rows` of items with `ItemProps.hidden_start`, `row_infos` (byte), `captures`, `scratch.definitive` | `scan` of a byte, `scan_model_variable`, `push_row` with commit points, `hide_item`, `force_bytes`, the `Recognizer` walk |
| aicirt channels | `src/rllm/src/iface.rs` | `cmd_pending`; `pending_reqs` map shared with a response thread | `send_bytes`, `expect`, async `exec`, response dispatch loop |
| AST mapper | `src/controllers/derivre/src/mapper.rs` | explicit work stack | `map_ast` (iterative post-order) |

**How the parts interact.**

- The token-trie walker, which is outside `src/`, drives the parser through the `Recognizer` interface:
  - `trie_started` records the stack depth and turns definitive mode off;
  - each `try_push_byte` pushes one lexer frame, or calls `advance_parser` when a lexeme ends;
  - `pop_bytes(n)` drops frames;
  - `trie_finished` pops back to the recorded depth and asserts that the definitive state is intact.
- Rows above the top frame's row are dead storage. The next `push_row` overwrites them.
- The controller commits bytes definitively, through `apply_tokens` or `force_bytes`.
- A definitive push also appends a `RowInfo`, and it records captures.
- The rllm server talks to the aicirt process over `CmdChannel` (synchronous) and `AsyncCmdChannel`. The async one has a dispatch thread that routes each response to its waiting `exec` by request id.

**What is hard here.**

- Speculation must be side-effect free.
- A lexeme with hidden lookahead bytes is re-lexed in the next row, and that re-lexing rewrites frames.
- A lexeme that ends on the following byte (`byte_next_row`) can be followed by a single-byte second lexeme. That case recurses once and then splices the frames.
- A rejected definitive step may fail after part of its work is already stored.
- In iface.rs, a cancelled caller or an unexpected response makes the dispatch thread panic, and the global panic hook then exits the whole process.

## Modules

| Module | Models | Notes |
|---|---|---|
| `Grammar.tla` | `CGrammar` contract (from the spec) and a reference language | rule index `<<r, d>>`; `Lang` = sentences of the start symbol up to `MaxWord` lexemes, a RECURSIVE least fixpoint |
| `Lexer.tla` | the lexer contract (from the spec) | a state is `[allowed, buf]`; lexemes are finite sets of byte strings; `HiddenLen`, `Lazy` per lexeme |
| `Earley.tla` | `push_row`, `scan`, `scan_skip_lexeme`, `row_is_accepting` | pure operators on a parser record `p` returning `[ok, p]`; the agenda is a RECURSIVE FIFO loop |
| `Parser.tla` | lexer stack, `advance_parser`, hidden bytes, speculation, forcing | VARIABLES mirror the `Parser` fields, plus the walker's history (`pushHist`, `saved`) for the properties |
| `ParserMV.tla` | `scan_model_variable` of the llguidance parser (`lexer_allows_eos`, which it reads, is in `Parser.tla`) | EXTENDS `Parser`; `NextMV` adds `ScanModelVariable(mv)` for the grammar's model variables and EOS (`ModelVar`, `EosToken`) |
| `AbstractRecognizer.tla` | what the llguidance parser promises about committed lexemes: the word only grows, through viable prefixes of the grammar, until the parser stops | the abstract specification `Parser` is shown to refine (`Recognizer == INSTANCE AbstractRecognizer WITH ...`); the mapping reads the word from `row_infos` (`CommittedWord`) and `over` from `rejected \/ panicked` |
| `MCParser.tla` | instance: whitespace, a byte_next_row lexeme, a two-byte forced lexeme, nullable rules, a capture, two budgets on one lexeme, two lazy lexemes with a one-byte hidden stop suffix and a stop capture. Whitespace may follow either suffix, so `has_forced_bytes` is false for both and the forced hidden replay is not reached here (it is in `MCApply` and `MCHidden2`) | |
| `MCHidden2.tla` | instance: a two-byte hidden suffix | violation run |
| `MCParserMV.tla` | instance: `S -> A M A` with `M` a model variable | violation run |
| `AsyncCmd.tla` | `AsyncCmdChannel` of `iface.rs`: async `exec` callers, the dispatch thread, aicirt as environment | one action per step between awaits and locks; `crashed` is the panic hook's `exit(100)` |
| `AbstractExec.tla` | what `AsyncCmdChannel::exec` promises: per caller `idle` -> `calling` -> (`sent` -> `idle` with its own response) or back to `idle` on a failed send | the abstract specification `AsyncCmd` is shown to refine (`Exec == INSTANCE AbstractExec WITH ...`); the mapping sends `inserted` to `calling`, `waiting` to `sent`, and takes `last` from the history variable `lastResp` |
| `CmdChannel.tla` | `CmdChannel` of `iface.rs`: `send_bytes`/`expect` and `cmd_pending` | `Faults` lets `send`/`recv` return their `Err` |
| `ApplyTokens.tla` | `apply_tokens`, `get_bytes`, `filter_max_tokens`, `compute_bias` | EXTENDS `Parser`; the whole token list is re-applied on every call, as the controller does; `applied` is the controller's token list, `outcome` the `Err` text of the last call |
| `MCApply.tla` | instance: a forced three-`A` prefix with budget 2, a `B` lexeme of one or two tokens with budget 1 (2 in `MCMaxTokens2`), a hidden lazy lexeme, ten multi-byte tokens | |
| `ByteParser.tla` | the `guidance_ctrl` parser: `new`, `scan`, `scan_model_variable`, `push_row`, `hide_item`, `Scratch` with `ItemProps`, `force_bytes`, the `Recognizer` walk | EXTENDS `Grammar`; terminals are byte sets (`TermBytes`); an entry is `[rule, start, hs]`, `hs` being `hidden_start` (`NoHS` for usize::MAX) |
| `MCByteParser.tla` | instance: a gen with a hidden commit-point stop and a capture, a capture inside a hidden symbol, a model variable | `MCRules` lets the gen be empty, `MCRulesNonEmpty` does not |
| `MapAst.tla` | `map_ast` of `mapper.rs` | one step per loop iteration, over every tree of depth <= 3 and width <= 2, against RECURSIVE references |

**How the code maps to the model.**

- Each step of `Next` is one public call, carried out whole:
  - `CommitByte(b)` is `try_push_byte_definitive(Some(b))`;
  - `ForceBytes` is `force_bytes`;
  - `TrieStarted`, `TrieTryPushByte(b)`, `TriePopBytes(n)` and `TrieFinished` are the `Recognizer` methods;
  - `ScanModelVariable(mv)` (`ParserMV.tla`) is `scan_model_variable(mv)`: `assert_definitive`, `lexer_allows_eos`, `flush_lexer`, then EOS accepted outright or `push_row` of the items waiting for `mv`. A `false` result leaves the parser in use, with the flush committed.
- Helper functions are operators with the function's name:
  - `AdvanceParser` is RECURSIVE, because the second-lexeme case recurses once.
  - `ForcedByte` folds over the bytes in numeric order, as the `for b in 0..=255` loop does.
- `assert!`, `panic!` and usize underflow set `panicked`, and no step follows them.
- A definitive reject sets `rejected`: `apply_tokens` reports "parse reject", and the controller stops using the parser.
- In `Parser.tla` tokens are single bytes and the token windows of `RowInfo` stay at `token_idx`. `ApplyTokens.tla` adds `apply_tokens` over multi-byte tokens:
  - `ApplyTokensOp` folds over the bytes of the token list. Each byte is skipped, replayed against `get_bytes` (extending token windows), or pushed definitively.
  - Each push is followed by the max_tokens limit of lines 627-676: `limit_state_to`, a forced end of the lexeme, or "parse reject on max_tokens".
  - `FilterMaxTokens` is `filter_max_tokens`, with the usize subtraction of line 737. It panics on underflow when `OverflowChecks` (a debug build) and wraps modulo `UsizeMax + 1` otherwise.
  - `ComputeBias` is `compute_bias` (lines 388-405). `Mask(p)` is the set of tokens whose bytes the `Recognizer` walk accepts: `WalkToken` folds `try_push_byte` over a token's bytes from `trie_started`, and the trie's sharing of prefixes is left out because each walk starts from the same state. When the mask is empty, the action flushes the lexer, keeps the flushed parser and ignores the flush result, as line 397 does. It then stops (`outcome` "stop"): EOS is the only token left.

**The guidance_ctrl parser (`ByteParser.tla`).**

- The parser is a record `p` and every operation a pure operator returning `[ok, panic, p]`, as in `Earley.tla`; `Agenda` is push_row's loop, and a hidden commit point leaves it for `HideItem`, which pops the rows and calls `PushRow` again (the three are mutually RECURSIVE).
- The `Scratch` arena is abstracted to the row's entry sequence. `AddUnique` merges `hidden_start` (min) in definitive mode only, as `add_unique`/`just_add` do; `HideOriginHs` keeps the overwrite of the target slot before the origin's props are read.
- `CommitByte(b)` is a definitive `try_push_byte`, i.e. `scan(b)`; `ForceBytes`, `ScanModelVariable(mv)`, `TrieStarted`, `TriePush(b)`, `TriePop(n)` and `TrieFinished` are the other public calls. `assert!`s and the capture's usize subtraction set `panicked`.
- `apply_tokens` (marked "this is unused!" in the code) and `filter_max_tokens`, which needs the token indices only `apply_tokens` sets, are left out.

## Runs

| Run | Config | Expect | What it shows |
|---|---|---|---|
| `parser_core` | `MCParser.cfg` | pass | See below. |
| `hidden2_pop_replaced` | `MCHidden2.cfg` | violation of `PopBytesRestores` | After `x` is committed, the walker pushes `c` and then `d`, ending `G`'s lexeme. The speculative hidden replay (line 1375) pops the walker's own `c` frame and pushes `c`,`d` again on the new row, so `pop_bytes(1)` leaves `c` on row 1 (the start of `T`) instead of the `c` inside `G` on row 0: the walk tries the next tokens from a different state. `trie_finished` still truncates to its recorded depth and restores correctly. Finding: a code bug (spec §8 invariant 1). |
| `model_variable_row` | `MCParserMV.cfg` | violation of `NoPanic` | After `a`, `scan_model_variable("mv")` finds `S -> A . M A` and calls `push_row`, which stores the row and its `RowInfo`, but pushes no lexer state (`scan_gen_grammar_inner` does, line 986). `num_rows()` is the top frame's row + 1, so the variable is not consumed and `row_infos` is one longer than `num_rows()`; the next `force_bytes` fails `assert_definitive`. Finding: a code bug (line 1036). |
| `async_core` | `MCAsyncCmd.cfg` | pass | Two callers, two `exec` calls each, sends that may fail, aicirt answering in any order: the dispatch thread never panics; `pending_reqs` holds exactly the execs in flight plus one sender per failed send (`PendingAccounted`: the leak of line 249 is the only one); and the callers see `AbstractExec` (`ExecRefined`): each exec returns the response to its own command or fails before sending, and every sent exec returns, under the fairness below. |
| `async_cancel_crash` | `MCAsyncCancelCrash.cfg` | violation of `NoDispatchPanic` | Under `SpecWithCancel`, where an `exec` future may be dropped: a caller is cancelled while it awaits; aicirt's answer arrives and `tx.send(resp).unwrap()` (line 216) panics on the closed receiver; the panic hook kills aicirt and exits. Finding: a code bug. |
| `cmd_send_failure` | `MCCmdChannel.cfg` | violation of `NoAssertFail` | A failed `send` leaves `cmd_pending` set (line 52 runs before 53), so the next `exec` fails `assert!(!self.cmd_pending)`. Finding: a code bug (a failing `recv` at line 77 does the same). |
| `byte_parser` | `MCByteParser.cfg` | pass | See below. |
| `byte_hidden_dead_end` | `MCByteHidden.cfg` | violation of `CanContinue` | With `MCRules` (the gen may be empty), committing the stop `x` first: the commit point hides `STOP`, `hide_item` pops row 0 and re-pushes `C -> Body STOP .`, which starts at row 0. The completer skips items with `start_pos == curr_idx` (line 661, "handled below in the nullable check"), so `S -> C . TB` is never added and the row is a dead end: `b` is rejected. Finding: a code bug. The same step records the capture `("c", [0])`, because line 648 pushes the row byte even for an empty span (`CapturesCommitted` is violated too). |
| `map_ast` | `MCMapAst.cfg` | pass | The explicit-stack loop equals the recursive bottom-up map, and it returns; a failed assert would stop the loop without a result, so `Terminates` covers the assert as well. |
| `apply_tokens` | `MCApply.cfg` | pass | Every sequence of up to 6 tokens applied the controller's way: no panic (in particular no usize underflow in `filter_max_tokens`); replaying the accepted tokens against `get_bytes` changes nothing but the token windows (`ReplayUnchanged`); no row's lexeme is made of more tokens than its max_tokens (`LexemeWithinBudget`); every token in the mask `compute_bias` builds is accepted when applied next (`MaskSound`), except a rejection on max_tokens: the mask never looks at the budgets. TLC finds that exception here, with `b` still in the mask after `B`'s one-token budget is spent. |
| `apply_replay_hidden` | `MCApplyHidden.cfg` | violation of `ReplayUnchanged` | With the optional `V` alternatives, a dropped, non-forced hidden suffix `d` is left out of `get_bytes` (line 536), so the replay pushes `d` again. Finding: spec §8's round trip does not hold. |
| `apply_batch_budget` | `MCApplyBatch.cfg` | violation of `BatchIndependent` | After `a`, applying `aa`,`b` in one call gives "parse reject on max_tokens", two calls accept them. `push_row` opens the window at `self.token_idx` (line 1258), which counts the token that opened the row within one call. Finding: a code bug. |

`parser_core` covers every interleaving of definitive pushes, `force_bytes` and trie walks up to 6 frames. Along all of them:

- rows accept exactly the grammar's sentences;
- rows allow exactly the viable next lexemes;
- the top lexer state matches the bytes of its row;
- pops and `trie_finished` restore the state exactly;
- no assertion fails;
- the parser refines `AbstractRecognizer` (`ParserRefined`), `scan_model_variable` with EOS included (the grammar has no other model variable).

`byte_parser` covers every interleaving of definitive scans, model-variable scans, `force_bytes` and trie walks up to 6 rows, on the grammar where the gen holds at least one byte. Along all of them, checked in `ByteParser.tla`:

- `CanContinue`: a definitive, non-rejected parser accepts or has an item waiting for a terminal or model variable;
- `CapturesCommitted` (action): each new capture is a run of consecutive bytes of `get_bytes()` after the step, including the capture inside the hidden `H`, which is cut to empty at `hidden_start`;
- `MaskSound`: from every definitive state, every byte sequence of length <= 2 that the speculative walk accepts is accepted definitively (the opposite can differ: speculation cuts the row at a commit point, so it is stricter by design);
- `TrieFinishedRestores` (action) and `NoPanic`, as for the llguidance parser.

**Properties of `parser_core`** (all in `Parser.tla`):

- `AcceptsLanguage` and `AllowsViable` compare the Earley rows with the reference language of `Grammar.tla`. They relate the committed lexemes (`row_infos`) to the rows built from them.
- `LexerMatchesRow` relates the top lexer state to the frames of its row.
- `PopBytesRestores` and `TrieFinishedRestores` are action properties. They relate the state after a pop or `trie_finished` to the recorded state from before.
- `NoPanic` covers every `assert!` of the parser.
- `ParserRefined` checks `AbstractRecognizer!Spec` under the mapping `word <- CommittedWord`. Across every call, the lexemes in `row_infos` only grow, and every committed word is a prefix of a sentence. This holds also on a rejected byte that fails after `push_row` stored its row (line 1450), which `parser_core` reaches. Speculative pushes leave `row_infos` alone, so the walk maps to stuttering steps.
- `TypeOK` is the type invariant.

Every property of a passing run has a mutant in PROJECT.json (a plausible bug in the mapped code) that TLC catches.

**Bounds.**

- `MaxStack = 6` lexer frames, which means at most 5 bytes after the initial frame. That allows three lexemes plus whitespace, a second lexeme after byte_next_row, and a forced-byte run in one behaviour.
- `MaxWord = MaxStack + 1`. The committed lexemes (at most one per byte, plus the completion the grammar needs) then never exceed the reference bound.
- The byte alphabets hold one byte more than the lexemes use, so every error path is taken.
- The grammars are small: `MCParser` has 8 lexemes and 12 rules.
- `ByteParser`: `MaxRows = 6` rows, 3 bytes. Six rows hold a gen of up to three bytes, its stop, the byte after it and a trie walk of one or two bytes on top, which is what the hide, the capture cut and `MaskSound`'s two-byte tokens need.
- `AsyncCmd`: 2 callers with 2 calls each. Two callers are needed for responses in any order, rid collisions and routing. Two calls per caller give a caller a stale response from its previous call to confuse. `CmdChannel`: 3 exec calls, which is enough for a failure followed by another call.
- `ApplyTokens`: up to `MaxApplied = 6` tokens out of ten. That is enough to fill the `N` budget (three `A` over two tokens), to end `B` by force or reject it, to cross a hidden lexeme, and to test two tokens in one call after an earlier call. `MaxRow = 100` is never reached: the MAX_ROW bail is not exercised. `OverflowChecks = TRUE` is the debug build, where line 737 would panic.
- `MapAst`: every tree of depth <= 3 with <= 2 children per node (183 trees). That includes nodes whose children have different shapes, which is what shows the order of the results, and grandchildren whose `trg` lies below other frames. `StackBound = 9` is above the largest stack these trees need (7), so it never cuts a run short.

**Fairness.** `AsyncCmd` assumes weak fairness of the following:

- the dispatch thread, which is a `loop` that blocks only in `recv`;
- each caller's `Send`, which needs no await between insert and send;
- each caller's `Receive`, because tokio polls a woken future;
- aicirt's reading and answering of commands, which is an assumption about the server outside `src/`.

`AbstractExec` asks weak fairness of a started exec's send-or-fail and of a sent exec's return. Under the refinement mapping these are `AsyncCmd`'s fair `Send` and, through the fair dispatch thread and aicirt, `Receive`; `ExecRefined` checks that implication. The history variables `lastResp` (the request whose response each caller last received) and `leaked` (requests whose send failed) only record what the code did and never enable or block a step. `AbstractRecognizer` has no fairness: a parser may be dropped at any time.

Starting an `exec` and cancelling one are the callers' choice, so neither is fair. `async_cancel_crash` adds `Cancel` to the next-state relation (`SpecWithCancel`) with no fairness. `MapAst` assumes weak fairness of its loop step. The parser modules, `ApplyTokens` and `ByteParser` included, assume none. In the parser modules, the parser is a passive object: the caller may stop calling it at any time, and may drop it. For the same reason `CHECK_DEADLOCK FALSE` is set: a stopped parser, rejected or at the bound, is a legitimate end.

## Not modelled yet (plan for later work)

1. **ApplyTokens, more**: `compute_bias` is modelled, but in `MCApply` an empty mask never meets pending lexeme bytes, so its flush is a no-op there and the ignored flush result (line 397) is not exercised. Still to do: the MAX_ROW bail with a small `MaxRow`, `start_byte_idx`, the forced-hidden case of the max_tokens limit (line 627), and what `filter_max_tokens` should do with the allowed lexemes (line 747).
2. **Gen grammar** (llguidance): `scan_gen_grammar`, `maybe_gen_grammar` and `flush_gen_grammar` inside `trie_started`. The sub-grammar's bytes are recorded under the SKIP lexeme, so the outer reference language must first say what a gen-grammar symbol derives. `AcceptsLanguage`, `AllowsViable` and `ParserRefined` need that before a grammar with one can be checked. The controller that drives a sub-parser is outside `src/`. `model_variables()` is a read-only speculative query: its flush-and-restore is the one `is_accepting` makes, and `ParserRefined`/`TrieFinishedRestores` already cover it.
3. **AsyncCmd, more**: duplicated or lost answers from aicirt (the model's aicirt answers every command exactly once), and a bound on the `pending_reqs` leak.
4. **guidance_ctrl parser, more**: nested commit points (line 697 hides the original lhs at the chosen item's start), a capture starting after a hidden start (the usize underflow of line 651), a hidden symbol inside another (the props aliasing of `just_add`). Each needs its own grammar and a violation run.
5. **Budget merge**: `push_row` merges a lexeme's per-occurrence max_tokens by keeping the larger value, and drops an unlimited one (line 1240). Spec §4.1 says the minimum is kept. Setting `B` (budget 2) and `B2` (unlimited) of `MCParser` on one lexeme shows it in row 0. No run checks it; the hazard at line 1240 records it.

Not modelled at all: in `guidance_ctrl`, `apply_tokens` (unused, by its own comment), `filter_max_tokens`, `temperature` and `special_allowed` (pure queries the controller outside `src/` calls); `collapse`, which only records `last_collapse`; statistics and debug printing; DFA construction; in `iface.rs`, `start_aicirt`'s process spawning, signal-killer task and ping/tokens handshake (process I/O), and JSON encoding (abstracted to the `$rid`).
