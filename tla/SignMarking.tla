----------------------------- MODULE SignMarking -----------------------------
(***************************************************************************)
(* mark_signed_operators of the front end (Step_1_1): once the graph of a  *)
(* module is built, an operator whose operands are signed becomes signed,  *)
(* and unsigned() never is.  The loop visits the operators round after     *)
(* round, until a round changes nothing.                                   *)
(*                                                                         *)
(* A graph has the fields op, what a node is: an operator, or one of       *)
(* Operands; values, the nodes from which an edge of the type VALUE leads  *)
(* to a node (not the condition of ?:); and signed, the nodes that were    *)
(* created as signed ones.                                                 *)
(***************************************************************************)
EXTENDS FiniteSets

CONSTANT Graphs  \* graphs that from_AST may have built

\* A CONSTANT is a variable whose only assignment is a literal; a literal
\* itself has the type VALUE.
Operands == {"var", "number", "constant"}

OperatorsOf(g) == {p \in DOMAIN g.op : g.op[p] \notin Operands}

\* The operators of a right-hand side start with the sign of the variable that
\* is assigned to, those of a condition and slices of variables without.
SignFromTarget(g) ==
  \A p \in OperatorsOf(g), q \in DOMAIN g.op :
    q \in g.values[p] /\ g.op[q] = "unsigned" /\ q \in g.signed => p \in g.signed

IsSignGraph(g) ==
  /\ g.values \in [DOMAIN g.op -> SUBSET DOMAIN g.op]
  /\ g.signed \subseteq DOMAIN g.op
  /\ SignFromTarget(g)

ASSUME GraphsAssumption == \A g \in Graphs : IsSignGraph(g)

VARIABLES
  graph,
  signed,   \* the nodes that are signed
  todo,     \* operators that this round has to visit
  changed,  \* whether this round changed a node
  stage

vars == <<graph, signed, todo, changed, stage>>

Nodes == DOMAIN graph.op
Operators == OperatorsOf(graph)

\* Whether the operands of p are signed, if the nodes in S are: constants do
\* not count, and signed() does however it is marked.
SignedInputs(S, p) ==
  /\ \E q \in graph.values[p] : graph.op[q] # "constant"
  /\ \A q \in graph.values[p] : q \in S \/ graph.op[q] \in {"constant", "signed"}

\* Faulty: an unsigned() whose operand is signed is marked again.
MarkedAgain(p) == IF p \in signed THEN graph.op[p] # "unsigned" ELSE SignedInputs(signed, p)

\* Faulty: one signed operand is enough.
MarkedByOne(p) ==
  graph.op[p] # "unsigned" /\ (p \in signed \/ graph.values[p] \cap signed # {})

\* Whether p is signed after a visit.
Marked(p) == graph.op[p] # "unsigned" /\ (p \in signed \/ SignedInputs(signed, p))

Init ==
  /\ graph \in Graphs
  /\ signed = graph.signed
  /\ todo = Operators
  /\ changed = FALSE
  /\ stage = "added"

MarkNode ==
  /\ stage = "added"
  /\ \E p \in todo :
       /\ signed' = IF Marked(p) THEN signed \cup {p} ELSE signed \ {p}
       /\ changed' = (changed \/ signed' # signed)
       /\ todo' = todo \ {p}
  /\ UNCHANGED <<graph, stage>>

EndRound ==
  /\ stage = "added"
  /\ todo = {}
  /\ IF changed THEN todo' = Operators /\ changed' = FALSE /\ UNCHANGED stage
     ELSE stage' = "marked" /\ UNCHANGED <<todo, changed>>
  /\ UNCHANGED <<graph, signed>>

Next == MarkNode \/ EndRound

Spec == Init /\ [][Next]_vars

----------------------------------------------------------------------------
TypeOK ==
  /\ IsSignGraph(graph)
  /\ signed \subseteq Nodes
  /\ todo \subseteq Operators
  /\ changed \in BOOLEAN
  /\ stage \in {"added", "marked"}

(***************************************************************************)
(* When the loop ends, an operator is signed if it was created so or all   *)
(* its operands are signed now; but none that is unsigned().               *)
(***************************************************************************)
SignsAreInputs ==
  stage = "marked" =>
    \A p \in Operators :
      p \in signed <=> graph.op[p] # "unsigned" /\ (p \in graph.signed \/ SignedInputs(signed, p))

\* Sets of signed nodes that the rule of mark_signed_operators does not extend.
Closed(S) ==
  /\ graph.signed \ Operators \subseteq S
  /\ \A p \in Operators :
       graph.op[p] # "unsigned" /\ (p \in graph.signed \/ SignedInputs(S, p)) => p \in S

(***************************************************************************)
(* No node is signed without need either, and so the order of the nodes,   *)
(* and when the sign of an unsigned() is taken away, make no difference:   *)
(* the signs at the end are the least that the rule does not extend.       *)
(***************************************************************************)
SignsAreLeast ==
  /\ SignsAreInputs
  /\ stage = "marked" =>
       \A S \in SUBSET Operators :
         LET all == S \cup (graph.signed \ Operators)
         IN  Closed(all) => signed \subseteq all

(***************************************************************************)
(* No sign is changed back: it is given to operators other than unsigned() *)
(* and taken from those.  Since a round that changes nothing is the last,  *)
(* there are at most as many rounds as operators, and one more.            *)
(***************************************************************************)
SignsChangeOnce ==
  [][stage = "added" =>
     \A p \in Nodes : (p \in signed) # (p \in signed') =>
       p \in Operators /\ (p \in signed' <=> graph.op[p] # "unsigned")]_vars
=============================================================================
