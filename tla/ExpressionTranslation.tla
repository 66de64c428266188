------------------------ MODULE ExpressionTranslation ------------------------
(***************************************************************************)
(* What becomes of the right side of an assignment: from_AST cuts it to    *)
(* the width of the variable and makes nodes of it, each with a width and  *)
(* a sign (Step_1_1); generate_mlir converts every operand to the width    *)
(* that its user asks for, and prints one or more MLIR operations for each *)
(* node (Step_3_6, mlir.py).  The stages between them neither change an    *)
(* expression nor its widths and signs.  A node is known by its position   *)
(* in the expression, a sequence of operand numbers.                       *)
(***************************************************************************)
EXTENDS VerilogExpressions, SignMarking, TLC

\* Records with the fields types (of a variable: width, signed, and constant if
\* its only assignment is a literal), to (width, signed) and expr.
CONSTANT Assignments

VARIABLES
  asg,     \* the assignment
  tree     \* the expression that is translated; the nodes of its graph are
           \* positions

marking == <<graph, signed, todo, changed>>
translationVars == <<asg, tree, vars>>

T == asg.types

RECURSIVE Positions(_)
Positions(e) == {<< >>} \cup UNION {{<<i>> \o p : p \in Positions(e.args[i])} : i \in Args(e)}

RECURSIVE At(_, _)
At(e, p) == IF p = << >> THEN e ELSE At(e.args[Head(p)], Tail(p))

IsOperator(e) == e.op \notin Leaves

Signed(p) == p \in signed

----------------------------------------------------------------------------
(* from_AST                                                                *)

\* Expression.get_bitwidth
RECURSIVE BitWidth(_, _)
BitWidth(types, e) ==
  CASE e.op = "var" -> types[e.at[1]].width
    [] e.op = "number" -> e.at[2]
    [] e.op = "load" -> e.at[1]
    [] e.op \in Logical \cup {"!", "index"} -> 1
    [] e.op = "slice" -> e.at[1] - e.at[2] + 1
    [] e.op = "replicate" -> e.at[1] * BitWidth(types, e.args[1])
    [] e.op = "concat" -> SumOf([i \in Args(e) |-> BitWidth(types, e.args[i])])
    [] e.op \in Unary \/ e.args[1].op # "number" -> BitWidth(types, e.args[1])
    [] OTHER -> BitWidth(types, e.args[2])

Width(e) == BitWidth(T, e)

\* add_slicing_to_assignments: the expression that is added to the graph.  A
\* number gets the width of a word.
Cut(a) ==
  LET e == a.expr
      w == a.to.width
      own == BitWidth(a.types, e)
  IN  CASE own <= w \/ (e.op = "number" /\ w = 1) -> e
        [] e.op = "number" -> [e EXCEPT !.at[2] = WordWidth]
        [] OTHER -> [op |-> "slice", args |-> <<e>>, at |-> <<w - 1, 0>>]

\* add_ast_expression: an operator starts with the sign of the variable that
\* is assigned to.  The bounds of a slice and the like are numbers.  What a
\* memory loads is a variable still, that of a port.
SignGraph(a, e) ==
  LET ops == {p \in Positions(e) : IsOperator(At(e, p)) /\ At(e, p).op # "load"}
      bounded == {p \in ops : At(e, p).op \in {"slice", "index", "replicate"}}
      nodes == Positions(e) \cup {p \o <<0>> : p \in bounded}
      isBound(p) == p \notin Positions(e)
  IN  [op |-> [p \in nodes |-> IF isBound(p) THEN "number"
                               ELSE IF At(e, p).op = "load" THEN "var"
                               ELSE IF At(e, p).op = "var" /\ a.types[At(e, p).at[1]].constant THEN "constant"
                               ELSE At(e, p).op],
       values |-> [p \in nodes |->
                     IF p \notin ops THEN {}
                     ELSE {p \o <<i>> : i \in IF At(e, p).op = "?:" THEN {1, 2} ELSE Args(At(e, p))}
                            \cup (IF p \in bounded THEN {p \o <<0>>} ELSE {})],
       signed |-> {p \in nodes \ ops : ~isBound(p) /\ At(e, p).op = "var" /\ a.types[At(e, p).at[1]].signed}
                    \cup (IF a.to.signed THEN ops ELSE {})]

SignGraphs == {SignGraph(a, Cut(a)) : a \in Assignments}

ASSUME SignGraphsAssumption == SignGraphs \subseteq Graphs

\* constant_expr raises if a number does not fit.
AddSlicing ==
  /\ stage = "parsed"
  /\ LET cut == Cut(asg)
         fits == cut = asg.expr \/ asg.expr.op # "number" \/ asg.expr.at[1] < 2^asg.to.width
     IN  IF fits THEN stage' = "sliced" /\ tree' = cut
         ELSE stage' = "failed" /\ UNCHANGED tree
  /\ UNCHANGED <<asg, marking>>

AddExpression ==
  /\ stage = "sliced"
  /\ graph' = SignGraph(asg, tree)
  /\ signed' = graph'.signed
  /\ todo' = OperatorsOf(graph')
  /\ changed' = FALSE
  /\ stage' = "added"
  /\ UNCHANGED <<asg, tree>>

\* mark_signed_operators
MarkSigned == Next /\ UNCHANGED <<asg, tree>>

----------------------------------------------------------------------------
(* generate_mlir                                                           *)

Printable == {"+", "-", "*", "&", "|", "neg", "!", "&&", "?:", "concat", "replicate",
              "slice", "index", "signed", "unsigned", "load", "var", "number"}
               \cup Shifts \cup Comparisons

\* mlir-opt rejects a trunci to the same width and a name defined twice: the
\* operands of a concatenation give names to parts of it.
Accepted(e) ==
  /\ e.op = "index" => Width(e.args[1]) > 1
  /\ e.op = "concat" => \A i, j \in Args(e) : e.args[i].op = "var" /\ e.args[i] = e.args[j] => i = j

GenerateMlir ==
  /\ stage = "marked"
  /\ stage' = IF \E p \in Operators : At(tree, p).op \notin Printable THEN "failed"
              ELSE IF \E p \in Operators : ~Accepted(At(tree, p)) THEN "rejected"
              ELSE "printed"
  /\ UNCHANGED <<asg, tree, marking>>

TranslationInit ==
  /\ asg \in Assignments
  /\ tree = asg.expr
  /\ graph = << >> /\ signed = {} /\ todo = {} /\ changed = FALSE
  /\ stage = "parsed"

TranslationNext == AddSlicing \/ AddExpression \/ MarkSigned \/ GenerateMlir

TranslationSpec == TranslationInit /\ [][TranslationNext]_translationVars

\* Faulty: the operands of a comparison are cut to its width.
OwnWidth(e, i) == Width(e)

\* convert_nodes_to_mlir: the width to which operand i of e is converted.
TargetWidth(e, i) ==
  CASE e.op \in Comparisons -> Max({Width(e.args[j]) : j \in Args(e)})
    [] e.op = "?:" /\ i = 3 -> 1
    [] e.op \in {"concat", "replicate", "slice", "index"} -> Width(e.args[i])
    [] OTHER -> Width(e)

\* The value of the node at p, as a number of its width; of a load, the
\* index of getelementptr, which is signed.
RECURSIVE Computed(_, _)
Computed(p, env) ==
  LET e == At(tree, p)
      w == Width(e)
      \* convert_to_bit_width
      in(i) == Resized(Computed(p \o <<i>>, env), Width(e.args[i]), TargetWidth(e, i), Signed(p \o <<i>>))
      compared(i) == IF Signed(p) /\ e.op \notin {"==", "===", "!="}
                     THEN AsSigned(in(i), TargetWidth(e, i)) ELSE in(i)
      below(i) == [j \in {k \in Args(e) : k > i} |-> Width(e.args[j])]
  IN  CASE e.op = "var" -> env[e.at[1]]
        [] e.op = "number" -> e.at[1]
        [] e.op = "load" -> AsSigned(in(1), w)
        [] e.op \in Comparisons -> Bit(Holds(e.op, compared(1), compared(2)))
        [] e.op = "!" -> Bit(in(1) = 0)
        [] e.op \in {"&", "&&"} -> And(in(1), in(2), w)
        [] e.op = "|" -> Or(in(1), in(2), w)
        [] e.op = "+" -> (in(1) + in(2)) % 2^w
        [] e.op = "-" -> (in(1) - in(2)) % 2^w
        [] e.op = "*" -> (in(1) * in(2)) % 2^w
        [] e.op = "neg" -> (in(1) * (2^w - 1)) % 2^w
        [] e.op = "<<" -> (in(1) * 2^in(2)) % 2^w
        [] e.op = ">>>" -> (AsSigned(in(1), w) \div 2^in(2)) % 2^w
        [] e.op \in {"signed", "unsigned"} -> in(1)
        [] e.op = "?:" -> IF in(3) = 1 THEN in(1) ELSE in(2)
        [] e.op = "concat" -> SumOf([i \in Args(e) |-> in(i) * 2^SumOf(below(i))])
        [] e.op = "replicate" -> SumOf([i \in 0..e.at[1]-1 |-> in(1) * 2^(i * Width(e.args[1]))])
        [] e.op = "slice" -> (in(1) \div 2^e.at[2]) % 2^w
        [] e.op = "index" -> (in(1) \div 2^e.at[1]) % 2

\* What the user of the variable gets: a phi node, the return, an operator
\* of the variable's width.
Stored(env) ==
  IF tree.op = "load" THEN Computed(<< >>, env)
  ELSE Resized(Computed(<< >>, env), Width(tree), asg.to.width, Signed(<< >>))

----------------------------------------------------------------------------
(* Where the widths and signs are those of Verilog.                        *)

\* The node at p is not extended to the width, or with the right sign.
SignKept(p, width, sign) ==
  LET e == At(tree, p)
  IN  Width(e) >= width \/ Signed(p) = sign \/ e.op = "number"

RECURSIVE Exact(_, _, _)
Exact(p, width, sign) ==
  LET e == At(tree, p)
      arg(i) == p \o <<i>>
      own(i) == Exact(arg(i), SelfWidth(T, e.args[i]), SelfSigned(T, e.args[i]))
      common(N, w, s) == \A i \in N : Exact(arg(i), w, s) /\ SignKept(arg(i), w, s)
  IN  CASE e.op \in Leaves -> TRUE
        \* Only the lowest bit of a condition is looked at.
        [] e.op \in {"!", "&&"} -> \A i \in Args(e) : own(i) /\ Width(e.args[i]) = 1
        \* One unsigned operand makes a comparison one of unsigned numbers.
        [] e.op \in Comparisons ->
             /\ common({1, 2}, CommonWidth(T, e), CommonSign(T, e))
             /\ e.op \in {"==", "===", "!="} \/ Signed(p) = CommonSign(T, e)
        \* The address becomes as wide as the data, and is signed.
        [] e.op = "load" -> own(1) /\ Width(e.args[1]) < Width(e) /\ ~Signed(arg(1))
        [] e.op \in InContext ->
             /\ Width(e) = width
             /\ common(Args(e) \cap (IF e.op \in Shifts THEN {1} ELSE {1, 2}), width, sign)
             /\ e.op = "?:" => own(3) /\ Width(e.args[3]) = 1
             /\ e.op \in Shifts => e.args[2].op = "number" /\ e.args[2].at[1] < 2^width /\ e.args[2].at[1] < width
             /\ e.op = ">>>" => sign
        [] OTHER -> \A i \in Args(e) : own(i)

ExactTree ==
  LET w == Max({asg.to.width, SelfWidth(T, tree)})
  IN  /\ Exact(<< >>, w, SelfSigned(T, tree))
      /\ SignKept(<< >>, asg.to.width, SelfSigned(T, tree))

Values == [v \in DOMAIN T |-> 0..2^T[v].width - 1]
Environments == {f \in [DOMAIN T -> UNION {Values[v] : v \in DOMAIN T}] : \A v \in DOMAIN T : f[v] \in Values[v]}

(***************************************************************************)
(* What is printed computes what Verilog says the assignment assigns, for  *)
(* all values of the variables, if widths and signs are those of Verilog.  *)
(***************************************************************************)
MlirComputes ==
  stage = "printed" /\ ExactTree =>
    \A env \in Environments : Stored(env) = Assigned(T, asg.expr, env, asg.to.width)
=============================================================================
