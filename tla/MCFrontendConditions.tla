------------------------ MODULE MCFrontendConditions ------------------------
(***************************************************************************)
(* Small modules for FrontendConditions: two signals, one reset, chains of  *)
(* up to three arms, one chain in an arm of another, a default before them, *)
(* and variables assigned in slices.  The reference is an interpreter of    *)
(* the statements.                                                          *)
(***************************************************************************)
EXTENDS FrontendConditions, Functions, TLC

MCPoints == [a : BOOLEAN, b : BOOLEAN, rst : BOOLEAN]
MCQuiet == {p \in MCPoints : ~p.rst}
MCNames == {"init", "chain", "inner", "s1", "s2", "s3", "i1", "i2", "low", "high"}
MCVars == {"x", "y"}
MCWidth == [v \in MCVars |-> 3]

Guard(P) == [holds |-> P, timed |-> FALSE]
A     == Guard({p \in MCPoints : p.a})
B     == Guard({p \in MCPoints : p.b})
AandB == Guard(A.holds \cap B.holds)
AnotB == Guard(A.holds \ B.holds)
NotA  == Guard(MCPoints \ A.holds)
NotB  == Guard(MCPoints \ B.holds)
Else  == Guard(MCPoints)
Reset == [holds |-> {p \in MCPoints : p.rst}, timed |-> TRUE]

Whole(v) == [kind |-> "assign", var |-> v, slice |-> NoSlice, width |-> 3, x |-> FALSE]
Wide(v)  == [Whole(v) EXCEPT !.width = 4]
DontCare(v) == [Whole(v) EXCEPT !.x = TRUE]
Part(msb, lsb, w) == [kind |-> "assign", var |-> "x", slice |-> <<msb, lsb>>,
                      width |-> w, x |-> FALSE]

ArmOf(kind, g, body) == [kind |-> kind, guard |-> g, body |-> body]
IfChain(arms) == [kind |-> "if", arms |-> arms]
Case(arms) == [kind |-> "case", arms |-> arms]

\* the statements a module does not use are never read
Unused == [n \in MCNames |-> Whole("y")]
Module(top, stmts) ==
    [top |-> top, stmts |-> [n \in MCNames |-> IF n \in DOMAIN stmts THEN stmts[n]
                                               ELSE Unused[n]]]

-----------------------------------------------------------------------------
\* chains of three arms, with or without an assignment before them
Triples ==
    {Module(top, ("init" :> Whole("x")) @@ ("s1" :> s[1]) @@ ("s2" :> s[2]) @@ ("s3" :> s[3])
                 @@ ("chain" :> IfChain(<<ArmOf("if", g1, <<"s1">>),
                                          ArmOf("else if", g2, <<"s2">>),
                                          ArmOf(g3[1], g3[2], <<"s3">>)>>))) :
       top \in {<<"init", "chain">>, <<"chain">>},
       g1 \in {A, B, Reset}, g2 \in {A, B, Reset},
       g3 \in {<<"else", Else>>, <<"else if", NotA>>, <<"else if", Reset>>},
       s \in {<<Whole("x"), Whole("x"), Whole("x")>>,
              <<Whole("x"), DontCare("x"), Wide("y")>>}}

Pairs ==
    {Module(top, ("init" :> Whole("x")) @@ ("s1" :> Whole("x")) @@ ("s2" :> s)
                 @@ ("chain" :> IfChain(<<ArmOf("if", g1, <<"s1">>),
                                          ArmOf(g2[1], g2[2], <<"s2">>)>>))) :
       top \in {<<"init", "chain">>, <<"chain">>}, g1 \in {A, Reset},
       g2 \in {<<"else", Else>>, <<"else if", B>>, <<"else if", Reset>>},
       s \in {Wide("x"), DontCare("y")}}

\* a chain in an arm of a chain
Nested ==
    {Module(<<"chain">>,
            ("s1" :> Whole("x")) @@ ("s2" :> Whole("x")) @@ ("i1" :> Whole("x")) @@ ("i2" :> Whole("y"))
            @@ ("chain" :> IfChain(<<ArmOf("if", g1, <<"s1">>),
                                     ArmOf("else", Else, <<"inner", "s2">>)>>))
            @@ ("inner" :> inner)) :
       g1 \in {A, Reset},
       inner \in {IfChain(<<ArmOf("if", B, <<"i1">>), ArmOf("else", Else, <<"i2">>)>>)}
           \cup {IfChain(<<ArmOf("if", g, <<"i1", "i2">>)>>) : g \in {B, Reset}}
           \cup {Case(<<ArmOf("label", B, <<"i2">>), ArmOf("default", NotB, <<"i1">>)>>)}}

\* case items in any order
Cases ==
    LET items == {ArmOf("label", AandB, <<"s1">>), ArmOf("label", AnotB, <<"s2">>),
                  ArmOf("default", NotA, <<"s3">>)} IN
    {Module(top, ("init" :> Whole("x")) @@ ("s1" :> s1) @@ ("s2" :> Whole("x")) @@ ("s3" :> Whole("x"))
                 @@ ("chain" :> Case(arms))) :
       top \in {<<"init", "chain">>, <<"chain">>},
       s1 \in {Whole("x"), DontCare("x")},
       arms \in {o \in [1..3 -> items] : Range(o) = items}}

\* a variable of three bits, one slice always assigned and another if a holds
Slices2 ==
    {Module(<<"low", "chain">>,
            ("low" :> Part(u[1], u[2], wu)) @@ ("s1" :> Part(c[1], c[2], wc)) @@ ("chain" :> IfChain(<<ArmOf("if", A, <<"s1">>)>>))) :
       u \in {<<0, 0>>, <<1, 0>>, <<2, 1>>, <<2, 2>>},
       c \in {<<0, 0>>, <<1, 0>>, <<2, 1>>, <<2, 2>>, <<1, 1>>, <<2, 0>>},
       wu \in 1..3, wc \in 1..3}

\* two slices always assigned, or none, and a third between them
Slices3 ==
    {Module(top,
            ("low" :> Part(l[1], l[2], 1)) @@ ("high" :> Part(2, 2, 1)) @@ ("s1" :> Part(c[1], c[2], 1)) @@ ("s2" :> Part(c[1], c[2], 1))
            @@ ("chain" :> IfChain(<<ArmOf("if", A, <<"s1">>), ArmOf("else if", B, <<"s2">>)>>))) :
       top \in {<<"high", "low", "chain">>, <<"chain">>},
       l \in {<<0, 0>>, <<1, 1>>}, c \in {<<1, 1>>, <<0, 0>>}}

MCPrograms == Triples \cup Pairs \cup Nested \cup Cases \cup Slices2 \cup Slices3

-----------------------------------------------------------------------------
(* The interpreter: the assignments executed at a point, in order.           *)

RECURSIVE Run(_, _)
Run(body, p) ==
    IF body = << >> THEN << >>
    ELSE LET s == Stmt(Head(body))
             taken == {i \in DOMAIN s.arms : p \in s.arms[i].guard.holds}
             first == CHOOSE i \in taken : \A j \in taken : i <= j
             here == IF s.kind = "assign" THEN <<Head(body)>>
                     ELSE IF taken = {} THEN << >>
                     ELSE Run(s.arms[first].body, p)
         IN here \o Run(Tail(body), p)

Written(v, p) == SelectSeq(Run(program.top, p), LAMBDA n : Stmt(n).var = v)

CoversBit(n, i) ==
    LET s == Stmt(n).slice IN s = NoSlice \/ (s[2] <= i /\ i <= s[1])

LowBit(n) == IF Stmt(n).slice = NoSlice THEN 0 ELSE Stmt(n).slice[2]

LastOf(s) == s[Len(s)]

\* a right-hand side that is too narrow is extended
Zero == <<"zero", 0>>

\* what the bits of v are assigned at p, lowest first
Expected(v, p) ==
    [i \in 1..Width[v] |->
       LET n == LastOf(SelectSeq(Written(v, p), LAMBDA m : CoversBit(m, i - 1)))
       IN IF i - LowBit(n) <= Stmt(n).width THEN <<n, i - LowBit(n)>> ELSE Zero]

IsSliced(v) == \E n \in Names : Stmt(n).kind = "assign" /\ Stmt(n).var = v /\ Stmt(n).slice # NoSlice

\* at the top of the module, or in the `else' of a skipped reset
AlwaysWritten(v) == {n \in Names : /\ Stmt(n).kind = "assign" /\ Stmt(n).var = v
                                   /\ \A p \in Quiet : n \in Range(Written(v, p))}

\* no assignment overrides a conditional one
Exclusive(v, p) ==
    \A i \in 1..Len(Written(v, p)) - 1 : Written(v, p)[i] \in AlwaysWritten(v)

\* of a sliced variable: each bit is assigned once, and something is conditional
Assembled(v, p) ==
    /\ LastOf(Written(v, p)) \notin AlwaysWritten(v)
    /\ \A i \in 0..Width[v] - 1 :
         Len(SelectSeq(Written(v, p), LAMBDA m : CoversBit(m, i))) = 1

Fits(v) == \A n \in Names :
    Stmt(n).kind = "assign" /\ Stmt(n).var = v /\ Stmt(n).slice # NoSlice =>
        Stmt(n).width = Stmt(n).slice[1] - Stmt(n).slice[2] + 1

Given(v, p) ==
    {[i \in 1..Width[v] |-> IF i \in DOMAIN e.bits THEN e.bits[i] ELSE Zero] :
       e \in {f \in graph : VarOf(f) = v /\ p \in f.holds}}

Assigned(v, p) ==
    IF Written(v, p) = << >> THEN {}
    ELSE IF Stmt(LastOf(Written(v, p))).x THEN {}
    ELSE {Expected(v, p)}

-----------------------------------------------------------------------------
\* In a module whose chains are regular, and unless a conditional assignment
\* is overridden, the graph gives a variable, at every point outside of reset,
\* the bits that the last assignment executed there gives it, and nothing
\* where the source assigns nothing: the negation of the other conditions
\* stands for the order of a default and its exceptions, and the slices of a
\* variable are put together in place.
FinalValue ==
    phase = "done" /\ AllRegular =>
      \A v \in Vars, p \in Quiet :
         /\ Exclusive(v, p)
         /\ IsSliced(v) => Fits(v) /\ Written(v, p) # << >> /\ Assembled(v, p)
         => Given(v, p) = Assigned(v, p)

\* The translation of a slice that is always assigned and one that is
\* conditional, as the comments of the source give it (hace/Step_1_1.py:2436):
\* a[0] <= 0 and a[10:1] <= b become a <= {b, 0}, under the condition.
SlicesTranslated ==
    phase = "done" =>
      \A v \in Vars, p \in Quiet :
         IsSliced(v) /\ Exclusive(v, p) /\ Written(v, p) # << >> /\ Assembled(v, p)
         => Given(v, p) = Assigned(v, p)
=============================================================================
