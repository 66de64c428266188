---------------------------- MODULE MCCreateFsm ----------------------------
(***************************************************************************)
(* Programs of up to Largest states, at most three, with three assignments *)
(* to the state variable: all there are, and those that FsmExtraction gets *)
(* from small circuits.                                                    *)
(***************************************************************************)
EXTENDS FsmExtraction

CONSTANTS
  Largest,  \* states of the largest program
  Rests,    \* what may remain of a condition
  Netlists  \* whether the circuits are there too

MCStateNode == {1, 2, 3}
MCStop == 4
MCAsg == {1, 2, 3}

\* An assignment runs in one state, or is shared by two.
InStates == {{s} : s \in MCStateNode} \cup {{1, 2}}

MCAssignments ==
  [to : MCStateNode, in : InStates, start : BOOLEAN, rest : Rests]

\* The assignments are interchangeable: one function per multiset.
Rank(x) ==
  x.to + 4 * Cardinality(x.in) + 12 * (CHOOSE s \in x.in : TRUE)
    + (IF x.start THEN 48 ELSE 0) + (IF x.rest = "none" THEN 96 ELSE 0)
    + (IF x.rest = "node0" THEN 192 ELSE 0)

Sorted(f) == Rank(f[1]) <= Rank(f[2]) /\ Rank(f[2]) <= Rank(f[3])

Over(n) == {x \in MCAssignments : x.to <= n /\ x.in \subseteq 1..n}

AllPrograms ==
  UNION {{[states |-> 1..n, asg |-> f] : f \in {g \in [MCAsg -> Over(n)] : Sorted(g)}} :
           n \in 1..Largest}

----------------------------------------------------------------------------
(* Circuits.  1, 2 and 3 are the assignments to the state variable, each   *)
(* of one of the constants 11, 12, 13, to which the comparisons 21, 22, 23 *)
(* compare the state variable.  A condition is an atom or a triple of an   *)
(* operation and two conditions, the second one empty for a negation.      *)

S1 == <<21>>
S2 == <<22>>
S3 == <<23>>
Started == <<31>>
X == <<32>>
Flag == <<33>>
Stall == <<34>>
Zero == <<35>>
One == <<36>>

IsAtom(c) == Len(c) = 1

\* g with the condition c, whose operators are numbered from n on.
RECURSIVE WithCondition(_, _, _)
WithCondition(g, c, n) ==
  IF IsAtom(c) THEN g
  ELSE LET top(d, i) == IF IsAtom(d) THEN d[1] ELSE i
           l == WithCondition(g, c[2], 3 * n)
           r == IF c[3] = << >> THEN l ELSE WithCondition(l, c[3], 3 * n + 1)
       IN  WithEdges(WithNodes(r, n :> <<"op", c[1]>>),
             {<<top(c[2], 3 * n), n, 0>>}
               \cup (IF c[3] = << >> THEN {} ELSE {<<top(c[3], 3 * n + 1), n, 1>>}))

And(c, d) == <<"&&", c, d>>
Or(c, d) == <<"||", c, d>>
Not(c) == <<"!", c, << >>>>
Equal(c, d) == <<"==", c, d>>

\* nodes: "state" is 41, which 51 sets to what `next` (42) is if there is
\* one; 43 is an output that is set under the condition `data`.
Circuit(next, to, conditions, data, set, clear) ==
  LET var == IF next THEN 42 ELSE 41
      top(c, n) == IF IsAtom(c) THEN c[1] ELSE n
      constants == [c \in {11, 12, 13} |-> <<"const", c - 10>>] @@ [n \in {34, 35} |-> <<"const", 0>>] @@ 36 :> <<"const", 1>>
      names == 31 :> <<"var", "start">> @@ 32 :> <<"var", "x">> @@ 33 :> <<"var", "flag">> @@ 41 :> <<"var", "state">>
                 @@ (IF next THEN 42 :> <<"var", "next">> ELSE << >>) @@ 43 :> <<"var", "out">>
      operators == [c \in {21, 22, 23} |-> <<"op", "==">>]
      assigned == [a \in {1, 2, 3, 4, 5, 6} |-> <<"asg", "">>] @@ (IF next THEN 51 :> <<"asg", "">> ELSE << >>)
      all == conditions \o <<data, set, clear>>
      values == [a \in 1..3 |-> 10 + to[a]] \o <<32, 36, 35>>
      targets == <<var, var, var, 43, 33, 33>>
      empty == [kind |-> << >>, label |-> << >>, edges |-> {},
                inputs |-> {32}, outputs |-> {43}, starts |-> {31}]
      nodes == WithNodes(empty, constants @@ names @@ operators @@ assigned)
      wired == WithEdges(nodes,
        {<<41, c, 0>> : c \in {21, 22, 23}} \cup {<<c - 10, c, 1>> : c \in {21, 22, 23}}
          \cup {<<values[a], a, 0>> : a \in 1..6} \cup {<<a, targets[a], a>> : a \in 1..6}
          \cup (IF next THEN {<<42, 51, 0>>, <<36, 51, 1>>, <<51, 41, 0>>} ELSE {}))
  IN  FoldLeft(LAMBDA g, a : WithEdges(WithCondition(g, all[a], 100 + a), {<<top(all[a], 100 + a), a, 1>>}),
               wired, [a \in 1..6 |-> a])

Simply == And(S1, Started)
AtLength == And(And(S1, Equal(Stall, Zero)), Equal(Started, One))
Rewired == Equal(Not(Not(Started)), One)  \* no path from Started is left in the view

Second ==
  {S2, And(S2, X), And(S2, Equal(X, One)), And(S2, Not(X)), And(S2, Equal(Flag, One)),
   And(Equal(Flag, Zero), S2), And(Or(S2, S3), X), And(Not(S1), Or(X, Flag)),
   Or(And(S2, X), And(S3, Flag)), And(S2, Not(And(S2, X))), Equal(And(S2, Flag), Zero)}

Third ==
  {S3, And(S2, Not(X)), And(S3, X), And(S2, Equal(Flag, One)), And(S1, Not(Started)),
   And(Not(And(S2, X)), S3), Or(S3, And(S1, Started))}

\* With a register of its own for the next state, and without one.
Circuits ==
  {Circuit(TRUE, <<2, 1, 3>>, <<AtLength, c2, c3>>, And(S3, Flag), S2, And(S1, X)) :
     c2 \in Second, c3 \in {And(S3, X), And(S1, Not(Started))}}
    \cup {Circuit(FALSE, <<2, 3, 1>>, <<Simply, c2, c3>>, S3, And(S2, X), S1) :
            c2 \in {And(S2, X), And(Not(S1), Or(X, Flag))}, c3 \in Third}
    \cup {Circuit(FALSE, <<2, 1, 3>>, <<c1, S2, And(And(S1, Not(X)), c3)>>, S2, And(S2, X), S1) :
            c1 \in {And(S1, Rewired), And(And(S1, X), Started)}, c3 \in {Rewired, Started}}

MCPrograms == AllPrograms \cup UNION {ProgramsFrom(g, MCAsg) : g \in IF Netlists THEN Circuits ELSE {}}
=============================================================================
