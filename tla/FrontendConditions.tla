------------------------- MODULE FrontendConditions -------------------------
(***************************************************************************)
(* How the front end turns the statements of a Verilog module into          *)
(* conditional assignments (hace/Step_1_1.py: SingleStatement.from_tree,    *)
(* get_assignments, adjust_sliced_assignments_constants,                    *)
(* add_slicing_to_assignments and the part of from_AST that calls them).    *)
(*                                                                          *)
(* A condition is the set of points (valuations of the module's signals) at *)
(* which it is true; and, or and not are then what they do to such sets.    *)
(* `if' and `case' chains are walked arm by arm, with the conditions met so *)
(* far in `prev', as the two loops of from_tree do; parsing a chain and     *)
(* descending into its arms are one walk here, since neither has an effect  *)
(* on the other.                                                            *)
(***************************************************************************)
EXTENDS Integers, Sequences, FiniteSets

CONSTANTS Points,      \* valuations of the signals
          Quiet,       \* those at which no clock or reset is asserted
          Names,       \* the statements of a module
          Vars,        \* the variables assigned
          Width,       \* the declared bit width of each
          Programs     \* the modules considered

-----------------------------------------------------------------------------
(* Statements.  A guard is the expression of an arm: where it holds, and    *)
(* whether it references one of TIMED_CONSTRUCTS.  That of an `else' holds   *)
(* everywhere, that of a `default' wherever no label does.                   *)

Guards == [holds : SUBSET Points, timed : BOOLEAN]

Arms == [kind : {"if", "else if", "else", "label", "default"},
         guard : Guards, body : Seq(Names)]

NoSlice == << >>                           \* the whole variable

Slices == {NoSlice} \cup {s \in Nat \X Nat : s[2] <= s[1]}     \* (msb, lsb)

Assigns == [kind : {"assign"}, var : Vars, slice : Slices,
            width : Nat, x : BOOLEAN]      \* x: the right-hand side is 'bx

Chains == [kind : {"if", "case"}, arms : Seq(Arms)]

Statements == Assigns \cup Chains

IsIfChain(arms) ==
    \A i \in DOMAIN arms :
      /\ (arms[i].kind = "if") <=> (i = 1)
      /\ arms[i].kind \in {"if", "else if", "else"}
      /\ arms[i].kind = "else" =>
            i = Len(arms) /\ arms[i].guard = [holds |-> Points, timed |-> FALSE]
      /\ arms[i].guard.timed => arms[i].guard.holds \cap Quiet = {}

IsCaseChain(arms) ==
    \A i \in DOMAIN arms :
      /\ arms[i].kind \in {"label", "default"}
      /\ \A j \in DOMAIN arms \ {i} :
            /\ arms[i].guard.holds \cap arms[j].guard.holds = {}
            /\ arms[i].kind = "default" => arms[j].kind = "label"
      /\ arms[i].kind = "default" =>
            \A p \in Points : \/ p \in arms[i].guard.holds
                              \/ \E j \in DOMAIN arms : j # i /\ p \in arms[j].guard.holds

IsProgram(pr) ==
    /\ pr \in [stmts : [Names -> Statements], top : Seq(Names)]
    /\ \A n \in Names :
         /\ pr.stmts[n].kind = "if"   => IsIfChain(pr.stmts[n].arms)
         /\ pr.stmts[n].kind = "case" => IsCaseChain(pr.stmts[n].arms)

ASSUME QuietAssumption == Quiet \subseteq Points

ASSUME WidthAssumption == Width \in [Vars -> Nat \ {0}]

ASSUME ProgramsAssumption == \A pr \in Programs : IsProgram(pr)

-----------------------------------------------------------------------------
(* Conditions: an Expression, or None.                                       *)

Conditions == {c \in [none : BOOLEAN, holds : SUBSET Points] :
                 c.none => c.holds = Points}

NoCondition == [none |-> TRUE, holds |-> Points]

Expression(P) == [none |-> FALSE, holds |-> P]

\* faulty: the conjunction with None stays None
AndKeepingNone(base, c) == [base EXCEPT !.holds = @ \cap c.holds]

\* faulty: an inner chain forgets the condition of the arm it is in
AndInnermost(base, c) == IF c.none THEN base ELSE c

And(base, c) ==
    IF c.none THEN base
    ELSE IF base.none THEN c
    ELSE Expression(base.holds \cap c.holds)

\* the conjunction of the negations of all conditions met so far
NoneOf(prev) == {p \in Points : \A g \in prev : p \notin g.holds}

-----------------------------------------------------------------------------
VARIABLES program, phase, stack, asgs, todo, graph
vars == <<program, phase, stack, asgs, todo, graph>>

Stmt(n) == program.stmts[n]
VarOf(a) == Stmt(a.of).var

(***************************************************************************)
(* One frame per call that is active: the statements of a body, or the arms *)
(* of a chain, `next' being the one to take.  `base' is the condition passed *)
(* down.  `reach' is not in the code: the points at which an execution of   *)
(* the module gets to statement or arm number `next'.                        *)
(***************************************************************************)
BodyFrames == [kind : {"body"}, body : Seq(Names), next : Nat \ {0},
               base : Conditions, reach : SUBSET Points]

ChainFrames == [kind : {"chain"}, name : Names, next : Nat \ {0},
                base : Conditions, prev : SUBSET Guards,
                reach : SUBSET Points]

Frames == BodyFrames \cup ChainFrames

\* bit i of the right-hand side of statement n, counted from the lowest
Bits(n) == [i \in 1..Stmt(n).width |-> <<n, i>>]

Assignments == [of : Names, slice : Slices, bits : Seq(Names \X Nat),
                cond : Conditions, reach : SUBSET Points]

Phases == {"collect", "slices", "negate", "done", "failed"}

Init ==
    /\ program \in Programs
    /\ phase = "collect"
    /\ stack = <<[kind |-> "body", body |-> program.top, next |-> 1,
                  base |-> NoCondition, reach |-> Points]>>
    /\ asgs = {}
    /\ todo = {}
    /\ graph = {}

Fail ==
    /\ phase' = "failed"
    /\ UNCHANGED <<program, stack, asgs, todo, graph>>

-----------------------------------------------------------------------------
(* Statement.get_assignments and SingleStatement.get_assignments.            *)

Top == Head(stack)

InBody == /\ phase = "collect" /\ stack # << >>
          /\ Top.kind = "body"
          /\ Top.next \in DOMAIN Top.body

Here == Top.body[Top.next]

Advance(f) == [f EXCEPT !.next = @ + 1]

\* An assignment, or a declaration with an initial value.
Collect ==
    /\ InBody
    /\ Stmt(Here).kind = "assign"
    /\ asgs' = asgs \cup {[of |-> Here, slice |-> Stmt(Here).slice,
                           bits |-> Bits(Here), cond |-> Top.base,
                           reach |-> Top.reach]}
    /\ stack' = <<Advance(Top)>> \o Tail(stack)
    /\ UNCHANGED <<program, phase, todo, graph>>

\* faulty: what follows a chain in its body is forgotten
EnterChainOnly ==
    /\ InBody
    /\ Stmt(Here).kind \in {"if", "case"}
    /\ stack' = <<[kind |-> "chain", name |-> Here, next |-> 1,
                   base |-> Top.base, prev |-> {}, reach |-> Top.reach]>> \o Tail(stack)
    /\ UNCHANGED <<program, phase, asgs, todo, graph>>

EnterChain ==
    /\ InBody
    /\ Stmt(Here).kind \in {"if", "case"}
    /\ stack' = <<[kind |-> "chain", name |-> Here, next |-> 1,
                   base |-> Top.base, prev |-> {}, reach |-> Top.reach],
                  Advance(Top)>> \o Tail(stack)
    /\ UNCHANGED <<program, phase, asgs, todo, graph>>

Items(f) == IF f.kind = "body" THEN f.body ELSE Stmt(f.name).arms

Leave ==
    /\ phase = "collect" /\ stack # << >>
    /\ Top.next \notin DOMAIN Items(Top)
    /\ stack' = Tail(stack)
    /\ UNCHANGED <<program, phase, asgs, todo, graph>>

-----------------------------------------------------------------------------
(* SingleStatement.from_tree: one step per arm.                              *)

AtArm(kind) ==
    /\ phase = "collect" /\ stack # << >>
    /\ Top.kind = "chain"
    /\ Top.next \in DOMAIN Stmt(Top.name).arms
    /\ Stmt(Top.name).arms[Top.next].kind = kind

Arm == Stmt(Top.name).arms[Top.next]

\* the frame once its arm has been dealt with
Past(prev) == [Advance(Top) EXCEPT !.prev = prev,
                                   !.reach = @ \ Arm.guard.holds]

Descend(condition, prev) ==
    /\ stack' = <<[kind |-> "body", body |-> Arm.body, next |-> 1,
                   base |-> And(Top.base, condition),
                   reach |-> Top.reach \cap Arm.guard.holds],
                  Past(prev)>> \o Tail(stack)
    /\ UNCHANGED <<program, phase, asgs, todo, graph>>

SkipArm(prev) ==
    /\ stack' = <<Past(prev)>> \o Tail(stack)
    /\ UNCHANGED <<program, phase, asgs, todo, graph>>

\* An `if' that references a clock or a reset leaves no trace in prev.
IfArm ==
    /\ AtArm("if")
    /\ IF Arm.guard.timed
         THEN SkipArm(Top.prev)
         ELSE Descend(Expression(Arm.guard.holds), Top.prev \cup {Arm.guard})

\* faulty: its own condition is among those it negates
ElseIfArmNotedFirst ==
    /\ AtArm("else if")
    /\ LET seen == Top.prev \cup {Arm.guard} IN
       IF \E g \in seen : g.timed
         THEN SkipArm(seen)
         ELSE Descend(Expression(NoneOf(seen) \cap Arm.guard.holds), seen)

\* With no condition met so far an `else if' takes its own, and is not noted
\* in prev.  Otherwise it is, and one that references a clock or reset makes
\* the conditions of the later ones reference it too.
ElseIfArm ==
    /\ AtArm("else if")
    /\ IF Top.prev = {}
         THEN IF Arm.guard.timed
                THEN SkipArm(Top.prev)
                ELSE Descend(Expression(Arm.guard.holds), Top.prev)
         ELSE LET seen == Top.prev \cup {Arm.guard} IN
              IF \E g \in seen : g.timed
                THEN SkipArm(seen)
                ELSE Descend(Expression(NoneOf(Top.prev) \cap Arm.guard.holds), seen)

ElseArm ==
    /\ AtArm("else")
    /\ Descend(IF Top.prev = {} THEN NoCondition ELSE Expression(NoneOf(Top.prev)),
               Top.prev)

CaseLabel ==
    /\ AtArm("label")
    /\ Descend(Expression(Arm.guard.holds), Top.prev \cup {Arm.guard})

CaseDefault ==
    /\ AtArm("default")
    /\ Top.prev # {}
    /\ Descend(Expression(NoneOf(Top.prev)), Top.prev)

DefaultComesFirst ==
    /\ AtArm("default")
    /\ Top.prev = {}
    /\ Fail

-----------------------------------------------------------------------------
(* adjust_sliced_assignments_constants, one step per sliced variable.        *)

Sliced(v) == {a \in asgs : VarOf(a) = v /\ a.slice # NoSlice}
Unconditional(A) == {a \in A : a.cond.none}

Msb(a) == a.slice[1]
Lsb(a) == a.slice[2]

BeginSlices ==
    /\ phase = "collect" /\ stack = << >>
    /\ phase' = "slices"
    /\ todo' = {v \in Vars : Sliced(v) # {}}
    /\ UNCHANGED <<program, stack, asgs, graph>>

\* concat_expr, whose first element is the highest; bits are lowest first
Joined(a, low, high) ==
    [a EXCEPT !.slice = NoSlice, !.bits = low \o a.bits \o high]

\* the assertion on the slices of the unconditional u and the conditional a
Covers(u, a, w) ==
    \/ Msb(a) - Lsb(a) = w
    \/ Lsb(a) = 0 /\ Msb(a) = Lsb(u) - 1 /\ Msb(u) = w - 1
    \/ Msb(a) = w - 1 /\ Lsb(a) = Msb(u) + 1 /\ Lsb(u) = 0

\* faulty: the always assigned slice is put on the wrong side
JoinWithSwapped(u, a, w) ==
    IF Msb(a) - Lsb(a) = w THEN Joined(a, << >>, << >>)
    ELSE IF Lsb(a) = 0     THEN Joined(a, u.bits, << >>)
    ELSE                        Joined(a, << >>, u.bits)

JoinWith(u, a, w) ==
    IF Msb(a) - Lsb(a) = w THEN Joined(a, << >>, << >>)
    ELSE IF Lsb(a) = 0     THEN Joined(a, << >>, u.bits)
    ELSE                        Joined(a, u.bits, << >>)

Replace(v, new) ==
    /\ asgs' = (asgs \ Sliced(v)) \cup new
    /\ todo' = todo \ {v}
    /\ UNCHANGED <<program, phase, stack, graph>>

JoinOne(v) ==
    /\ phase = "slices" /\ v \in todo
    /\ \E u \in Sliced(v) :
         /\ Unconditional(Sliced(v)) = {u}
         /\ IF \A a \in Sliced(v) \ {u} : Covers(u, a, Width[v])
              THEN Replace(v, {JoinWith(u, a, Width[v]) : a \in Sliced(v) \ {u}})
              ELSE Fail

\* Two unconditional slices, one below and one above.  Nothing asserts that
\* the conditional one lies between them.
JoinTwo(v) ==
    /\ phase = "slices" /\ v \in todo
    /\ \E low, high \in Sliced(v) :
         /\ low # high
         /\ Unconditional(Sliced(v)) = {low, high}
         /\ Msb(low) <= Msb(high)
         /\ IF Lsb(low) = 0 /\ Msb(high) = Width[v] - 1
              THEN Replace(v, {Joined(a, low.bits, high.bits) :
                                 a \in Sliced(v) \ {low, high}})
              ELSE Fail

OtherSlices(v) ==
    /\ phase = "slices" /\ v \in todo
    /\ Cardinality(Unconditional(Sliced(v))) \notin {1, 2}
    /\ Fail

-----------------------------------------------------------------------------
(* add_slicing_to_assignments, then the two loops of from_AST over the       *)
(* variables, one step per variable here: they negate the conditions of the  *)
(* others in the condition of an unconditional assignment, and add the       *)
(* assignments to the graph, which a failed assertion leaves unused.         *)

LhsWidth(a) == IF a.slice = NoSlice THEN Width[VarOf(a)]
                                    ELSE Msb(a) - Lsb(a) + 1

\* The lower bits of a right-hand side that is too wide; constants fit here.
Truncated(a) ==
    IF Len(a.bits) > LhsWidth(a) /\ ~Stmt(a.of).x
      THEN [a EXCEPT !.bits = SubSeq(@, 1, LhsWidth(a))]
      ELSE a

BeginNegate ==
    /\ phase = "slices" /\ todo = {}
    /\ phase' = "negate"
    /\ asgs' = {Truncated(a) : a \in asgs}
    /\ todo' = Vars
    /\ UNCHANGED <<program, stack, graph>>

Of(v) == {a \in asgs : VarOf(a) = v}

OthersFail(a, A) == {p \in Points : \A b \in A \ {a} : p \notin b.cond.holds}

\* faulty: a default is assigned together with its exceptions
EdgeConditionAlone(a, A) == a.cond.holds

EdgeCondition(a, A) ==
    IF ~a.cond.none THEN a.cond.holds
    ELSE IF A = {a} THEN Points
    ELSE OthersFail(a, A)

Edge(a, A) == [of |-> a.of, bits |-> a.bits, holds |-> EdgeCondition(a, A)]

Negate(v) ==
    /\ phase = "negate" /\ v \in todo
    /\ Cardinality(Unconditional(Of(v))) <= 1
    /\ graph' = graph \cup {Edge(a, Of(v)) : a \in {b \in Of(v) : ~Stmt(b.of).x}}
    /\ todo' = todo \ {v}
    /\ UNCHANGED <<program, phase, stack, asgs>>

TwoUnconditional(v) ==
    /\ phase = "negate" /\ v \in todo
    /\ Cardinality(Unconditional(Of(v))) > 1
    /\ Fail

Done ==
    /\ phase = "negate" /\ todo = {}
    /\ phase' = "done"
    /\ UNCHANGED <<program, stack, asgs, todo, graph>>

Next ==
    \/ Collect \/ EnterChain \/ Leave
    \/ IfArm \/ ElseIfArm \/ ElseArm
    \/ CaseLabel \/ CaseDefault \/ DefaultComesFirst
    \/ BeginSlices
    \/ \E v \in Vars : JoinOne(v) \/ JoinTwo(v) \/ OtherSlices(v)
    \/ BeginNegate
    \/ \E v \in Vars : Negate(v) \/ TwoUnconditional(v)
    \/ Done

Spec == Init /\ [][Next]_vars

-----------------------------------------------------------------------------
\* The state is well formed: frames, collected assignments and edges.
TypeOK ==
    /\ program \in Programs
    /\ phase \in Phases
    /\ stack \in Seq(Frames)
    /\ asgs \subseteq Assignments
    /\ todo \subseteq Vars
    /\ graph \subseteq [of : Names, bits : Seq(Names \X Nat), holds : SUBSET Points]

\* The condition collected for an assignment is never too narrow: wherever the
\* statement is executed, in reset or not, it is true.
ConditionCoversReach == \A a \in asgs : a.reach \subseteq a.cond.holds

(***************************************************************************)
(* The chains that from_tree reads as Verilog does, outside of reset.  After *)
(* a skipped `if' at most one other arm may be left, since the next is not   *)
(* noted in prev; no `else if' may follow one that is skipped later on,      *)
(* since it would be skipped with it; a `default' comes last, since it       *)
(* negates only the labels before it.                                        *)
(***************************************************************************)
Regular(arms) ==
    \A i \in DOMAIN arms :
      /\ arms[i].kind \in {"if", "else if"} /\ arms[i].guard.timed =>
            \/ \A j, k \in DOMAIN arms :
                  ~arms[j].guard.timed /\ ~arms[k].guard.timed => j = k
            \/ \A j \in DOMAIN arms : j > i => arms[j].kind # "else if"
      /\ arms[i].kind = "default" => i = Len(arms)

AllRegular == \A n \in Names : Stmt(n).kind # "assign" => Regular(Stmt(n).arms)

\* Outside of reset, the condition collected for an assignment is true at
\* exactly the points at which the statement is executed, in a module whose
\* chains are regular: nested conditions, negations and skipped resets add up
\* to the control flow of the source.
ConditionIsReach ==
    AllRegular =>
      \A a \in asgs : a.cond.holds \cap Quiet = a.reach \cap Quiet

-----------------------------------------------------------------------------
(* What the source executes at a point: the statements at the top, and with *)
(* a chain those of the first of its arms that holds.                        *)

Chosen(arms, i, p) ==
    /\ p \in arms[i].guard.holds
    /\ \A j \in DOMAIN arms : j < i => p \notin arms[j].guard.holds

\* U has all that is executed at p with the statements in it.
ClosedAt(p, U) ==
    \A n \in U : Stmt(n).kind # "assign" =>
      LET arms == Stmt(n).arms IN
      \A i \in DOMAIN arms : Chosen(arms, i, p) =>
         \A k \in DOMAIN arms[i].body : arms[i].body[k] \in U

ExecutedWith(p, N) ==
    {n \in Names : \A U \in SUBSET Names : N \subseteq U /\ ClosedAt(p, U) => n \in U}

Executed(p) == ExecutedWith(p, {program.top[k] : k \in DOMAIN program.top})

AssignmentsIn(N) == {n \in N : Stmt(n).kind = "assign"}

(***************************************************************************)
(* When the walk is over, in a module whose chains are regular: outside of  *)
(* reset, the assignments whose condition is true at a point are those that *)
(* the source executes there.  None was passed over on the way, however     *)
(* deep it is nested or where in a body it stands, and none is collected    *)
(* that is not executed.                                                    *)
(***************************************************************************)
CollectsExecution ==
    phase = "collect" /\ stack = << >> /\ AllRegular =>
      \A p \in Quiet :
        {a.of : a \in {b \in asgs : p \in b.cond.holds}} = AssignmentsIn(Executed(p))

-----------------------------------------------------------------------------
\* the source executes it at p, and nothing that takes the place of a default
Prevails(a, p) ==
    /\ p \in a.reach
    /\ a.cond.none => \A b \in Of(VarOf(a)) \ {a} : p \notin b.reach

(***************************************************************************)
(* Once all edges are in the graph, those that hold at a point outside of   *)
(* reset are exactly the assignments that the source executes there: each   *)
(* conditional one, a default where none of its exceptions is executed, and *)
(* no 'bx.  So negating the conditions of the others neither leaves a       *)
(* variable without its default nor drives it by a default and an exception *)
(* at once.                                                                 *)
(***************************************************************************)
EdgesFollowReach ==
    phase = "done" /\ AllRegular =>
      \A p \in Quiet :
        {<<e.of, e.bits>> : e \in {f \in graph : p \in f.holds}}
          = {<<a.of, a.bits>> : a \in {b \in asgs : ~Stmt(b.of).x /\ Prevails(b, p)}}

\* bit i of the variable, counted from 1, is in the slice s
InSlice(s, i) == Lsb(s) < i /\ i <= Msb(s) + 1

\* The slices S make up w bits without overlap, and each right-hand side is as
\* wide as its slice.
Tiles(S, w) ==
    /\ \A s \in S : Msb(s) < w /\ Len(s.bits) = Msb(s) - Lsb(s) + 1
    /\ \A i \in 1..w : \E s \in S : InSlice(s, i)
    /\ \A s, t \in S : \A i \in 1..w : InSlice(s, i) /\ InSlice(t, i) => s = t

(***************************************************************************)
(* Where a conditional slice and the slices that are always assigned make   *)
(* up the variable, they are put together in place, wherever each lies: the *)
(* one assignment that takes the place of them keeps the condition, and     *)
(* each of its bits is the bit that the slice around it assigns.            *)
(***************************************************************************)
SlicesInPlace ==
    [][\A v \in Vars : \A a \in Sliced(v) \ Unconditional(Sliced(v)) :
         LET S == Unconditional(Sliced(v)) \cup {a} IN
         phase = "slices" /\ v \in todo /\ v \notin todo' /\ Tiles(S, Width[v]) =>
           \E b \in asgs' :
             /\ b.of = a.of /\ b.cond = a.cond /\ b.slice = NoSlice
             /\ Len(b.bits) = Width[v]
             /\ \A s \in S, i \in 1..Width[v] :
                  InSlice(s, i) => b.bits[i] = s.bits[i - Lsb(s)]]_vars
=============================================================================
