------------------------- MODULE MCStateAssociation -------------------------
(***************************************************************************)
(* Graphs without memories: an input (1), a value (2), two operators (3,   *)
(* 4), and two assignments (5, 6) to the variables 7 and 8; the others are *)
(* control flow nodes.  The second operator uses the first, and each       *)
(* assignment may be made in some of the states or, without a condition,   *)
(* in no known one.                                                        *)
(***************************************************************************)
EXTENDS StateAssociation

MCNode == 1..15
MCState == 1..3

Kind == <<"variable", "value", "operator", "operator", "assignment", "assignment",
          "variable", "variable", "control", "control", "control", "control",
          "control", "control", "control">>

\* The assignments 5 and 6 have the value `from`, the condition `by` (2: none)
\* and the target `to`; a condition is true in the states trueIn.
PlainGraph(args3, args4, from, by, to, trueIn) ==
  [kind |-> Kind,
   value |-> (args3 \X {3}) \cup (args4 \X {4}) \cup {<<3, 9>>}
             \cup {<<from[a], a>> : a \in {5, 6}} \cup {<<a, to[a]>> : a \in {5, 6}},
   cond |-> {<<by[a], a>> : a \in {5, 6}},
   ones |-> {},
   ports |-> [m \in {} |-> 0],
   seeds |-> [a \in {b \in {5, 6} : by[b] # 2} |-> trueIn[by[a]]],
   fsm |-> {<<1, 2>>, <<2, 3>>},
   inputs |-> {1},
   outputs |-> {7}]

Pair(F, G) == {f \in [{5, 6} -> F \cup G] : f[5] \in F /\ f[6] \in G}

PlainGraphs ==
  {PlainGraph(args3, args4, from, by, to, trueIn) :
     args3 \in {{1}, {7}}, args4 \in {{3, 8}},
     from \in Pair({1, 4}, {3, 7}), by \in Pair({2, 3, 4}, {2, 4}),
     to \in Pair({7}, {7, 8}),
     trueIn \in [{3, 4} -> {{1}, {1, 2}}]}

\* The condition of 5 is true in no state.
NeverTrue ==
  PlainGraph({7}, {3, 8}, <<0, 0, 0, 0, 4, 3>>, <<0, 0, 0, 0, 3, 4>>, <<0, 0, 0, 0, 7, 8>>,
             <<{}, {}, {}, {1}>>)
----------------------------------------------------------------------------
(***************************************************************************)
(* Graphs with a memory (1): the variables of its ports 2 (enable), 3      *)
(* (address), 4 (write enable), 5 (data), an assignment to each of them (6 *)
(* to 9), the assignment (10) of what it loads to the variable 11, and the *)
(* value 12.  A memory that is written copies: it stores what it loaded.   *)
(* The address of a memory that is only read may be computed, by the       *)
(* operator 13, which is also assigned (14) to the variable 15.            *)
(***************************************************************************)

\* The nodes of a memory that is only read, without and with the operator.
ReadOnly == {1, 2, 3, 6, 7, 10, 11, 12}
Computing == ReadOnly \cup {13, 14, 15}
Writing == 1..12

MemoryKind(n) ==
  CASE n = 1 -> "memory"
    [] n \in {2, 3, 4, 5, 11, 15} -> "variable"
    [] n \in {6, 7, 8, 9, 10, 14} -> "assignment"
    [] n = 13 -> "operator"
    [] n = 12 -> "value"

MemoryEdges(N) ==
  {<<2, 1>>, <<3, 1>>, <<4, 1>>, <<5, 1>>, <<6, 2>>, <<7, 3>>, <<8, 4>>, <<9, 5>>,
   <<1, 10>>, <<10, 11>>, <<11, 9>>, <<12, 6>>, <<12, 8>>,
   <<11, 13>>, <<13, 14>>, <<14, 15>>}
  \cup {IF 13 \in N THEN <<13, 7>> ELSE <<12, 7>>}

\* An assignment without seeds has the value 12 for its condition.  An
\* assignment that is not in `ones` sets its variable to another value.
MemoryGraph(N, seeds, ones) ==
  [kind |-> [n \in MCNode |-> IF n \in N THEN MemoryKind(n) ELSE "control"],
   value |-> MemoryEdges(N) \cap (N \X N),
   cond |-> {<<12, a>> : a \in ({6, 7, 8, 9, 10, 14} \cap N) \ DOMAIN seeds},
   ones |-> ones \cap N,
   ports |-> [m \in {1} |->
                [enable |-> 2, address |-> 3,
                 writeEnable |-> IF 4 \in N THEN 4 ELSE None,
                 data |-> IF 5 \in N THEN 5 ELSE None]],
   seeds |-> seeds,
   fsm |-> {<<1, 2>>, <<2, 3>>},
   inputs |-> {},
   outputs |-> {11}]

\* The read-only memory is enabled and addressed in any states; the other one
\* is enabled in 1 and 2 and stores in 2, where some assignments may lack seeds.
LoadSeeds == UNION {[B -> {{1}, {2}, {1, 2}}] : B \in SUBSET {6, 7}}

ComputedSeeds == {[a \in B |-> IF a = 7 THEN {1, 2} ELSE {1}] : B \in {{6}, {6, 7}, {6, 14}}}

StoreSeeds ==
  {[a \in 6..9 \ B |-> IF a \in {6, 7} THEN {1, 2} ELSE {2}] :
     B \in {{}, {6}, {7}, {8}, {8, 9}}}

MemoryGraphs ==
  {MemoryGraph(ReadOnly, f, ones) : f \in LoadSeeds, ones \in {{}, {6}}} \cup
  {MemoryGraph(Computing, f, {6}) : f \in ComputedSeeds} \cup
  {MemoryGraph(Writing, f, ones) : f \in StoreSeeds, ones \in {{6, 8}}}

\* A second memory (13), with the ports 4 (enable) and 5 (address), is
\* addressed by what either of them loads: 14 assigns its value to 11 too.
TwoMemories(seeds) ==
  [kind |-> [n \in MCNode |-> CASE n = 13 -> "memory" [] n = 15 -> "control"
                               [] OTHER -> MemoryKind(n)],
   value |-> {<<2, 1>>, <<3, 1>>, <<4, 13>>, <<5, 13>>, <<6, 2>>, <<7, 3>>, <<8, 4>>, <<9, 5>>,
              <<1, 10>>, <<10, 11>>, <<13, 14>>, <<14, 11>>, <<11, 9>>,
              <<12, 6>>, <<12, 7>>, <<12, 8>>},
   cond |-> {<<12, a>> : a \in {6, 7, 8, 9, 10, 14} \ DOMAIN seeds},
   ones |-> {6, 8},
   ports |-> [m \in {1, 13} |->
                [enable |-> IF m = 1 THEN 2 ELSE 4, address |-> IF m = 1 THEN 3 ELSE 5,
                 writeEnable |-> None, data |-> None]],
   seeds |-> seeds,
   fsm |-> {<<1, 2>>, <<2, 3>>},
   inputs |-> {},
   outputs |-> {11}]

TwoMemoryGraphs == {TwoMemories([a \in {6, 8, 9} |-> IF a = 6 THEN {1} ELSE {2}])}

MCGraphs == PlainGraphs \cup {NeverTrue} \cup MemoryGraphs \cup TwoMemoryGraphs
=============================================================================
