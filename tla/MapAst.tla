------------------------------- MODULE MapAst -------------------------------
(***************************************************************************)
(* derivre's map_ast (src/controllers/derivre/src/mapper.rs): a bottom-up  *)
(* map over a tree with an explicit stack instead of recursion.  One step  *)
(* of the model is one iteration of the while-let loop.  The input tree is *)
(* any tree up to MaxDepth levels with at most MaxWidth children per node; *)
(* get_args is the node's child list and map_node a callback that keeps    *)
(* everything it is given, so the result shows every argument it saw, in   *)
(* the order it saw them.                                                  *)
(***************************************************************************)
EXTENDS Naturals, Sequences, SequencesExt

CONSTANTS
  Labels,       \* node labels
  MaxDepth,     \* depth of the input trees
  MaxWidth,     \* children per node
  StackBound    \* frames the model lets the explicit stack hold

(* All trees of depth <= d: a node is [lab, kids].                        *)
RECURSIVE TreesOf(_)
TreesOf(d) ==
  IF d = 0 THEN [lab : Labels, kids : {<<>>}]
  ELSE [lab : Labels, kids : UNION {[1..w -> TreesOf(d - 1)] : w \in 0..MaxWidth}]

Trees == TreesOf(MaxDepth)

(* get_args and map_node.                                                   *)
GetArgs(t) == t.kids
MapNode(t, args) == [lab |-> t.lab, args |-> args]

None == [lab |-> "none", args |-> <<>>]

VARIABLES
  tree,         \* the argument ast
  stack,        \* Vec<StackNode>: [ast, trg (0-based), args]
  result,       \* the value map_ast returns, None while it runs
  panicked      \* the assert! of the map branch failed

vars == <<tree, stack, result, panicked>>

Init ==
  /\ tree \in Trees
  /\ stack = <<[ast |-> tree, trg |-> 0, args |-> <<>>]>>
  /\ result = None
  /\ panicked = FALSE

(* args.len() > 0 && entry.args.len() == 0: the node's children have not *)
(* been pushed yet.                                                        *)
FirstVisit(entry) == Len(GetArgs(entry.ast)) > 0 /\ entry.args = <<>>

(* Mutant: the node itself is not pushed back before its children.       *)
ExpandNoParent(rest, entry) ==
  rest \o [i \in 1..Len(GetArgs(entry.ast)) |->
             [ast |-> GetArgs(entry.ast)[i], trg |-> Len(rest), args |-> <<>>]]

(* Mutant: trg is stack.len() - 1.                                         *)
ExpandTrgBefore(rest, entry) ==
  Append(rest, entry) \o [i \in 1..Len(GetArgs(entry.ast)) |->
                            [ast |-> GetArgs(entry.ast)[i], trg |-> Len(rest) - 1, args |-> <<>>]]

(* First visit of a node with children: push it back, then a frame for    *)
(* each child whose result goes to the node's frame at index trg.          *)
Expand(rest, entry) ==
  Append(rest, entry) \o [i \in 1..Len(GetArgs(entry.ast)) |->
                            [ast |-> GetArgs(entry.ast)[i], trg |-> Len(rest), args |-> <<>>]]

(* Mutant: the result is put before the results already collected.       *)
DeliverFirst(rest, entry, r) == [rest EXCEPT ![entry.trg + 1].args = <<r>> \o @]

(* stack[entry.trg].args.push(r)                                           *)
Deliver(rest, entry, r) == [rest EXCEPT ![entry.trg + 1].args = Append(@, r)]

(* One iteration of while let Some(entry) = stack.pop().                   *)
Step ==
  /\ ~panicked /\ result = None /\ stack # <<>>
  /\ Len(stack) < StackBound
  /\ IF FirstVisit(Last(stack))
     THEN /\ stack' = Expand(Front(stack), Last(stack))
          /\ UNCHANGED <<result, panicked>>
     ELSE IF Len(Last(stack).args) # Len(GetArgs(Last(stack).ast))
     THEN /\ panicked' = TRUE
          /\ UNCHANGED <<stack, result>>
     ELSE IF Front(stack) = <<>>
     THEN /\ result' = MapNode(Last(stack).ast, Last(stack).args)
          /\ stack' = <<>>
          /\ UNCHANGED panicked
     ELSE /\ stack' = Deliver(Front(stack), Last(stack),
                              MapNode(Last(stack).ast, Last(stack).args))
          /\ UNCHANGED <<result, panicked>>
  /\ UNCHANGED tree

Next == Step

Spec == Init /\ [][Next]_vars /\ WF_vars(Step)

(****************************** properties *********************************)
(* The values map_node can build from trees of depth <= d.                *)
RECURSIVE ResultsOf(_)
ResultsOf(d) ==
  IF d = 0 THEN [lab : Labels, args : {<<>>}]
  ELSE [lab : Labels, args : UNION {[1..w -> ResultsOf(d - 1)] : w \in 0..MaxWidth}]

Results == ResultsOf(MaxDepth)

TypeOK ==
  /\ tree \in Trees
  /\ \A i \in DOMAIN stack :
        /\ stack[i].ast \in Trees /\ stack[i].trg \in 0..StackBound
        /\ Len(stack[i].args) <= MaxWidth /\ \A j \in DOMAIN stack[i].args : stack[i].args[j] \in Results
  /\ result \in Results \cup {None}
  /\ panicked \in BOOLEAN

(* Recursive reference: map_node applied bottom-up, with the children's   *)
(* results last child first.                                               *)
RECURSIVE MapRev(_)
MapRev(t) == MapNode(t, [i \in 1..Len(GetArgs(t)) |-> MapRev(GetArgs(t)[Len(GetArgs(t)) + 1 - i])])

(* The iterative loop computes the recursive bottom-up map: every result  *)
(* reaches its parent's frame through trg, none is lost or doubled, and    *)
(* map_node sees the children's results last child first.                  *)
MapsBottomUp == result # None => result = MapRev(tree)


(* map_ast returns: the loop reaches the root's map_node and never runs   *)
(* into unreachable!().                                                    *)
Terminates == <>(result # None)

=============================================================================
