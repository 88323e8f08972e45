------------------------- MODULE AbstractRecognizer -------------------------
(***************************************************************************)
(* What the Earley parser of llguidance_ctrl's earley/parser.rs promises   *)
(* about the lexemes it commits, with bytes, rows, lexer states and the    *)
(* speculative walk abstracted away: the committed lexemes (without the    *)
(* whitespace lexeme) only ever grow, and every committed word is a prefix *)
(* of a sentence of the grammar.  A call may commit several lexemes at     *)
(* once (force_bytes), and the parser may stop for good (a rejected byte   *)
(* or a failed assertion), after committing what it did.                   *)
(***************************************************************************)
EXTENDS Naturals, Sequences, SequencesExt

CONSTANTS
  Sentences     \* the lexeme sequences the grammar derives (bounded)

VARIABLES
  word,         \* the committed lexemes
  over          \* the parser is no longer used

rvars == <<word, over>>

(* Every prefix of a sentence.                                             *)
ViablePrefixes == UNION {{SubSeq(w, 1, k) : k \in 0..Len(w)} : w \in Sentences}

(* The committed word may grow to u.                                       *)
Extends(u) == u \in ViablePrefixes /\ IsStrictPrefix(word, u)

Init == word = <<>> /\ over = FALSE

Commit ==
  /\ ~over
  /\ \E u \in ViablePrefixes : Extends(u) /\ word' = u
  /\ UNCHANGED over

Stop ==
  /\ ~over
  /\ \/ word' = word
     \/ \E u \in ViablePrefixes : Extends(u) /\ word' = u
  /\ over' = TRUE

Next == Commit \/ Stop

Spec == Init /\ [][Next]_rvars

=============================================================================
