----------------------- MODULE MCExpressionTranslation -----------------------
(***************************************************************************)
(* Expressions of up to three operators over the variables 1 and 2, of two *)
(* and three bits, assigned to a variable of one to four bits.             *)
(***************************************************************************)
EXTENDS ExpressionTranslation

Node(op, args, at) == [op |-> op, args |-> args, at |-> at]
Var(v) == Node("var", << >>, <<v>>)
Number(n, w) == Node("number", << >>, <<n, w>>)

Atoms == {Var(1), Var(2), Number(1, WordWidth)}

\* Each kind of operator once, over operands x and y.
Over(x, y) ==
  {Node(op, <<x, y>>, << >>) : op \in {"+", "&", "<", "==", "&&"}}
    \cup {Node(op, <<x>>, << >>) : op \in {"!", "signed", "unsigned"}}
    \cup {Node("concat", <<x, y>>, << >>), Node("replicate", <<y>>, <<2>>), Node("?:", <<x, y, x>>, << >>)}

\* And those that differ in what they print only.
More(x, y) ==
  {Node(op, <<x, y>>, << >>) : op \in {"-", "*", "|", "^", "||", "!=", "<=", ">", ">="}}
    \cup {Node("neg", <<x>>, << >>), Node("~", <<x>>, << >>), Node("slice", <<x>>, <<1, 0>>),
          Node("slice", <<x>>, <<1, 1>>), Node("index", <<x>>, <<0>>)}
    \cup {Node(op, <<x, n>>, << >>) : op \in Shifts, n \in {Number(0, WordWidth), Number(1, 2)}}

Simple == UNION {Over(x, y) \cup More(x, y) : x \in {Var(1), Var(2)}, y \in Atoms}

Nested ==
  LET inner == {Node("+", <<Var(1), Var(2)>>, << >>), Node("<", <<Var(1), Var(2)>>, << >>),
                Node("<", <<Var(2), Number(1, WordWidth)>>, << >>),
                Node("signed", <<Var(2)>>, << >>), Node("unsigned", <<Var(1)>>, << >>)}
  IN  (UNION {Over(x, y) \cup Over(y, x) : x \in inner, y \in {Var(2), Number(1, WordWidth)}})
        \cup (UNION {Over(x, y) : x \in inner, y \in inner})
        \cup {Node(op, <<Var(1), Var(2), c>>, << >>) : op \in {"?:"}, c \in inner}

Loads == {Node("load", <<a>>, <<w>>) : a \in {Var(1), Var(2), Number(1, 2)}, w \in 2..4}

\* A variable that may change, and one whose only assignment is a literal.
Type(w, s) == [width |-> w, signed |-> s, constant |-> FALSE]
Fixed(w, s) == [Type(w, s) EXCEPT !.constant = TRUE]
Typings ==
  {<<Type(2, s1), Type(3, s2)>> : s1 \in BOOLEAN, s2 \in BOOLEAN}
    \cup {<<Type(2, s1), Fixed(3, s2)>> : s1 \in BOOLEAN, s2 \in BOOLEAN}

MCAssignments ==
  {[types |-> t, to |-> Type(w, s), expr |-> e] :
     t \in Typings, w \in {1, 2, 4}, s \in BOOLEAN,
     e \in Simple \cup Nested \cup Atoms \cup {Number(3, WordWidth), Number(9, WordWidth)}}
  \cup {[types |-> t, to |-> Type(e.at[1], FALSE), expr |-> e] : t \in Typings, e \in Loads}
=============================================================================
