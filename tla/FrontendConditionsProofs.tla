---------------------- MODULE FrontendConditionsProofs ----------------------
(***************************************************************************)
(* Proofs about FrontendConditions, for every set of modules: the condition *)
(* collected for an assignment covers the points at which the statement is   *)
(* executed, and outside of reset is exactly them where chains are regular;  *)
(* what is collected there is what the source executes; slices are put       *)
(* together in place.                                                        *)
(***************************************************************************)
EXTENDS FrontendConditions, SequenceTheorems, TLAPS

-----------------------------------------------------------------------------
(* The stack.                                                                *)

Elements(s) == {s[i] : i \in DOMAIN s}

\* What is popped was on the stack.
LEMMA Popped ==
    ASSUME NEW S, NEW s \in Seq(S), s # << >>
    PROVE  /\ Head(s) \in S
           /\ Head(s) \in Elements(s)
           /\ Tail(s) \in Seq(S)
           /\ Elements(Tail(s)) \subseteq Elements(s)
<1>1. /\ Head(s) = s[1] /\ Head(s) \in S
      /\ Tail(s) \in Seq(S) /\ Len(Tail(s)) = Len(s) - 1
      /\ \A i \in 1..Len(Tail(s)) : Tail(s)[i] = s[i+1]
  BY HeadTailProperties
<1>2. Len(s) \in Nat /\ Len(s) # 0 /\ DOMAIN s = 1..Len(s)
  BY EmptySeq, LenProperties
<1>3. DOMAIN Tail(s) = 1..Len(Tail(s))
  BY <1>1, LenProperties
<1> QED
  BY <1>1, <1>2, <1>3 DEF Elements

\* What replaces the top is all that is new.
LEMMA Pushed ==
    ASSUME NEW S, NEW s \in Seq(S), NEW t \in Seq(S)
    PROVE  t \o s \in Seq(S) /\ Elements(t \o s) \subseteq Elements(t) \cup Elements(s)
<1>1. /\ t \o s \in Seq(S) /\ Len(t \o s) = Len(t) + Len(s)
      /\ \A i \in 1..Len(t) + Len(s) :
            (t \o s)[i] = IF i <= Len(t) THEN t[i] ELSE s[i - Len(t)]
  BY ConcatProperties
<1>2. /\ Len(s) \in Nat /\ DOMAIN s = 1..Len(s)
      /\ Len(t) \in Nat /\ DOMAIN t = 1..Len(t)
      /\ DOMAIN (t \o s) = 1..Len(t \o s)
  BY <1>1, LenProperties
<1>3. ASSUME NEW i \in DOMAIN (t \o s)
      PROVE  (t \o s)[i] \in Elements(t) \cup Elements(s)
  <2>1. CASE i <= Len(t)
    BY <2>1, <1>1, <1>2, <1>3 DEF Elements
  <2>2. CASE i > Len(t)
    <3>1. i - Len(t) \in DOMAIN s /\ (t \o s)[i] = s[i - Len(t)]
      BY <2>2, <1>1, <1>2, <1>3
    <3> QED
      BY <3>1 DEF Elements
  <2> QED
    BY <2>1, <2>2, <1>2, <1>3
<1> QED
  BY <1>1, <1>3 DEF Elements

LEMMA PushedOne ==
    ASSUME NEW S, NEW s \in Seq(S), NEW e \in S
    PROVE  <<e>> \o s \in Seq(S) /\ Elements(<<e>> \o s) \subseteq {e} \cup Elements(s)
<1>1. <<e>> \in Seq(S) /\ Elements(<<e>>) = {e}
  BY DEF Elements
<1> QED
  BY <1>1, Pushed

LEMMA PushedTwo ==
    ASSUME NEW S, NEW s \in Seq(S), NEW e \in S, NEW f \in S
    PROVE  /\ <<e, f>> \o s \in Seq(S)
           /\ Elements(<<e, f>> \o s) \subseteq {e, f} \cup Elements(s)
<1>1. <<e, f>> \in Seq(S) /\ Elements(<<e, f>>) = {e, f}
  BY DEF Elements
<1> QED
  BY <1>1, Pushed

-----------------------------------------------------------------------------
(* Conditions.                                                               *)

\* A conjunction holds where both of its parts do, None being no restriction.
LEMMA AndHolds ==
    ASSUME NEW b \in Conditions, NEW c \in Conditions
    PROVE  And(b, c) \in Conditions /\ And(b, c).holds = b.holds \cap c.holds
BY DEF And, Conditions, Expression

LEMMA ExpressionHolds ==
    ASSUME NEW P \in SUBSET Points
    PROVE  Expression(P) \in Conditions /\ Expression(P).holds = P
BY DEF Conditions, Expression

LEMMA NoConditionHolds ==
    NoCondition \in Conditions /\ NoCondition.holds = Points
BY DEF NoCondition, Conditions

-----------------------------------------------------------------------------
(* Modules.                                                                  *)

LEMMA ProgramShape ==
    ASSUME program \in Programs
    PROVE  /\ program.top \in Seq(Names)
           /\ \A n \in Names :
                /\ Stmt(n) \in Statements
                /\ Stmt(n).kind = "assign" => Stmt(n) \in Assigns
                /\ Stmt(n).kind # "assign" => Stmt(n) \in Chains
                /\ Stmt(n).kind = "if" => IsIfChain(Stmt(n).arms)
                /\ Stmt(n).kind = "case" => IsCaseChain(Stmt(n).arms)
<1>1. IsProgram(program)
  BY ProgramsAssumption
<1>2. /\ program.top \in Seq(Names)
      /\ \A n \in Names : Stmt(n) \in Statements
  BY <1>1 DEF IsProgram, Stmt
<1>3. \A n \in Names : /\ Stmt(n).kind = "assign" => Stmt(n) \in Assigns
                       /\ Stmt(n).kind # "assign" => Stmt(n) \in Chains
  BY <1>2 DEF Statements, Assigns, Chains
<1> QED
  BY <1>1, <1>2, <1>3 DEF IsProgram, Stmt

-----------------------------------------------------------------------------
(* The type invariant, with frames naming chains and assignments naming      *)
(* assignments.                                                              *)

ChainsAreNamed ==
    /\ \A f \in Elements(stack) : f.kind = "chain" => Stmt(f.name).kind # "assign"
    /\ \A a \in asgs : Stmt(a.of).kind = "assign"

TypeInv == TypeOK /\ ChainsAreNamed

\* the top of the stack and what is below it
LEMMA TopShape ==
    ASSUME TypeInv, stack # << >>
    PROVE  /\ Top \in Frames /\ Top \in Elements(stack)
           /\ Tail(stack) \in Seq(Frames)
           /\ Elements(Tail(stack)) \subseteq Elements(stack)
           /\ Top.kind = "body" => Top \in BodyFrames
           /\ Top.kind = "chain" => /\ Top \in ChainFrames
                                    /\ Stmt(Top.name) \in Chains
<1>1. /\ Top \in Frames /\ Top \in Elements(stack)
      /\ Tail(stack) \in Seq(Frames)
      /\ Elements(Tail(stack)) \subseteq Elements(stack)
  BY Popped DEF TypeInv, TypeOK, Top
<1>2. /\ Top.kind = "body" => Top \in BodyFrames
      /\ Top.kind = "chain" => Top \in ChainFrames
  BY <1>1 DEF Frames, BodyFrames, ChainFrames
<1>3. ASSUME Top.kind = "chain"
      PROVE  Stmt(Top.name) \in Chains
  <2>1. Top.name \in Names
    BY <1>2, <1>3 DEF ChainFrames
  <2>2. Stmt(Top.name).kind # "assign"
    BY <1>1, <1>3 DEF TypeInv, ChainsAreNamed
  <2> QED
    BY <2>1, <2>2, ProgramShape DEF TypeInv, TypeOK
<1> QED
  BY <1>1, <1>2, <1>3

LEMMA ArmShape ==
    ASSUME TypeInv, NEW kind, AtArm(kind)
    PROVE  /\ Top \in ChainFrames /\ Top \in Elements(stack)
           /\ Tail(stack) \in Seq(Frames)
           /\ Elements(Tail(stack)) \subseteq Elements(stack)
           /\ Stmt(Top.name) \in Chains
           /\ Top.next \in DOMAIN Stmt(Top.name).arms
           /\ Arm \in Arms /\ Arm.kind = kind
<1>1. /\ Top \in ChainFrames /\ Top \in Elements(stack)
      /\ Tail(stack) \in Seq(Frames)
      /\ Elements(Tail(stack)) \subseteq Elements(stack)
      /\ Stmt(Top.name) \in Chains
  BY TopShape DEF AtArm
<1>2. Top.next \in DOMAIN Stmt(Top.name).arms
  BY DEF AtArm
<1>3. Stmt(Top.name).arms \in Seq(Arms)
  BY <1>1 DEF Chains
<1>4. Arm \in Arms
  BY <1>2, <1>3, ElementOfSeq, LenProperties DEF Arm
<1> QED
  BY <1>1, <1>2, <1>4 DEF AtArm, Arm

\* the frame of a chain whose arm has been dealt with
LEMMA PastShape ==
    ASSUME Top \in ChainFrames, Arm \in Arms, NEW prev \in SUBSET Guards
    PROVE  /\ Past(prev) \in ChainFrames
           /\ Past(prev).kind = "chain" /\ Past(prev).name = Top.name
           /\ Past(prev).next = Top.next + 1 /\ Past(prev).base = Top.base
           /\ Past(prev).prev = prev
           /\ Past(prev).reach = Top.reach \ Arm.guard.holds
<1> DEFINE f == Advance(Top)
<1>1. /\ f \in ChainFrames
      /\ f.kind = "chain" /\ f.name = Top.name /\ f.next = Top.next + 1
      /\ f.base = Top.base /\ f.reach = Top.reach
  BY DEF Advance, ChainFrames
<1>2. f.reach \ Arm.guard.holds \in SUBSET Points
  BY <1>1 DEF ChainFrames
<1>3. Past(prev) = [f EXCEPT !.prev = prev, !.reach = f.reach \ Arm.guard.holds]
  BY DEF Past
<1> HIDE DEF f
<1> QED
  BY <1>1, <1>2, <1>3 DEF ChainFrames

\* what SkipArm and Descend leave on the stack
LEMMA SkipShape ==
    ASSUME TypeInv, NEW kind, AtArm(kind), NEW prev \in SUBSET Guards, SkipArm(prev)
    PROVE  /\ stack' \in Seq(Frames)
           /\ Elements(stack') \subseteq {Past(prev)} \cup Elements(stack)
<1>1. Past(prev) \in Frames
  BY ArmShape, PastShape DEF Frames
<1>2. /\ Tail(stack) \in Seq(Frames)
      /\ Elements(Tail(stack)) \subseteq Elements(stack)
  BY ArmShape
<1>3. stack' = <<Past(prev)>> \o Tail(stack)
  BY DEF SkipArm
<1> HIDE DEF Past
<1> QED
  BY <1>1, <1>2, <1>3, PushedOne

DescendTo(c) == [kind |-> "body", body |-> Arm.body, next |-> 1,
                 base |-> And(Top.base, c),
                 reach |-> Top.reach \cap Arm.guard.holds]

LEMMA DescendShape ==
    ASSUME TypeInv, NEW kind, AtArm(kind), NEW c \in Conditions,
           NEW prev \in SUBSET Guards, Descend(c, prev)
    PROVE  /\ stack' \in Seq(Frames)
           /\ Elements(stack') \subseteq {DescendTo(c), Past(prev)} \cup Elements(stack)
           /\ DescendTo(c) \in BodyFrames
<1>1. Past(prev) \in Frames
  BY ArmShape, PastShape DEF Frames
<1>2. /\ Tail(stack) \in Seq(Frames)
      /\ Elements(Tail(stack)) \subseteq Elements(stack)
      /\ Top \in ChainFrames /\ Arm \in Arms
  BY ArmShape
<1>3. And(Top.base, c) \in Conditions
  BY <1>2, AndHolds DEF ChainFrames
<1>4. DescendTo(c) \in BodyFrames
  <2>1. Arm.body \in Seq(Names)
    BY <1>2 DEF Arms
  <2>2. Top.reach \cap Arm.guard.holds \in SUBSET Points
    BY <1>2 DEF ChainFrames
  <2> QED
    BY <2>1, <2>2, <1>3 DEF BodyFrames, DescendTo
<1>5. stack' = <<DescendTo(c), Past(prev)>> \o Tail(stack)
  BY DEF Descend, DescendTo
<1>6. DescendTo(c) \in Frames
  BY <1>4 DEF Frames
<1> HIDE DEF Past, DescendTo
<1> QED
  BY <1>1, <1>2, <1>4, <1>5, <1>6, PushedTwo

-----------------------------------------------------------------------------
(* Type correctness.                                                         *)

LEMMA InitTypeInv == Init => TypeInv
<1> SUFFICES ASSUME Init PROVE TypeInv
  OBVIOUS
<1> DEFINE f == [kind |-> "body", body |-> program.top, next |-> 1,
                 base |-> NoCondition, reach |-> Points]
<1>1. f \in Frames /\ f.kind = "body"
  BY ProgramShape, NoConditionHolds DEF Init, Frames, BodyFrames
<1>2. stack = <<f>>
  BY DEF Init
<1> HIDE DEF f
<1>3. stack \in Seq(Frames) /\ Elements(stack) = {f}
  BY <1>1, <1>2 DEF Elements
<1> QED
  BY <1>1, <1>3 DEF Init, TypeInv, TypeOK, ChainsAreNamed, Phases

\* A step that leaves the program and names what it should keeps the rest.
LEMMA KeepsNames ==
    ASSUME TypeInv, program' = program,
           \A a \in asgs' : \/ Stmt(a.of).kind = "assign"
                             \/ \E b \in asgs : b.of = a.of,
           \A f \in Elements(stack') \ Elements(stack) :
              f.kind = "chain" => Stmt(f.name).kind # "assign"
    PROVE  ChainsAreNamed'
BY DEF TypeInv, ChainsAreNamed, Stmt

LEMMA SkipTypeInv ==
    ASSUME TypeInv, NEW kind, AtArm(kind), NEW prev \in SUBSET Guards, SkipArm(prev)
    PROVE  TypeInv'
<1>1. /\ stack' \in Seq(Frames)
      /\ Elements(stack') \subseteq {Past(prev)} \cup Elements(stack)
  BY SkipShape
<1>2. Past(prev).name = Top.name /\ Stmt(Top.name).kind # "assign"
  BY ArmShape, PastShape DEF Chains
<1>3. UNCHANGED <<program, phase, asgs, todo, graph>>
  BY DEF SkipArm
<1>4. ChainsAreNamed'
  BY <1>1, <1>2, <1>3, KeepsNames
<1> QED
  BY <1>1, <1>3, <1>4 DEF TypeInv, TypeOK

LEMMA DescendTypeInv ==
    ASSUME TypeInv, NEW kind, AtArm(kind), NEW c \in Conditions,
           NEW prev \in SUBSET Guards, Descend(c, prev)
    PROVE  TypeInv'
<1>1. /\ stack' \in Seq(Frames)
      /\ Elements(stack') \subseteq {DescendTo(c), Past(prev)} \cup Elements(stack)
  BY DescendShape
<1>2. Past(prev).name = Top.name /\ Stmt(Top.name).kind # "assign"
  BY ArmShape, PastShape DEF Chains
<1>3. UNCHANGED <<program, phase, asgs, todo, graph>>
  BY DEF Descend
<1>4. DescendTo(c).kind = "body"
  BY DEF DescendTo
<1>5. ChainsAreNamed'
  BY <1>1, <1>2, <1>3, <1>4, KeepsNames
<1> QED
  BY <1>1, <1>3, <1>5 DEF TypeInv, TypeOK

\* Every step at an arm skips it or descends into it, or the pass fails.
LEMMA ArmSteps ==
    ASSUME TypeInv,
           \/ IfArm \/ ElseIfArm \/ ElseArm \/ CaseLabel \/ CaseDefault
    PROVE  TypeInv'
<1>1. ASSUME NEW kind, AtArm(kind)
      PROVE  /\ Top.prev \in SUBSET Guards
             /\ Top.prev \cup {Arm.guard} \in SUBSET Guards
             /\ Expression(Arm.guard.holds) \in Conditions
             /\ Expression(NoneOf(Top.prev)) \in Conditions
             /\ Expression(NoneOf(Top.prev) \cap Arm.guard.holds) \in Conditions
  <2>1. Top \in ChainFrames /\ Arm \in Arms
    BY <1>1, ArmShape
  <2>2. Top.prev \in SUBSET Guards /\ Arm.guard \in Guards
    BY <2>1 DEF ChainFrames, Arms
  <2>3. Arm.guard.holds \in SUBSET Points
    BY <2>2 DEF Guards
  <2>4. NoneOf(Top.prev) \in SUBSET Points
    BY DEF NoneOf
  <2> QED
    BY <2>2, <2>3, <2>4, ExpressionHolds
<1>2. CASE IfArm
  BY <1>1, <1>2, SkipTypeInv, DescendTypeInv DEF IfArm
<1>3. CASE ElseIfArm
  BY <1>1, <1>3, SkipTypeInv, DescendTypeInv DEF ElseIfArm
<1>4. CASE ElseArm
  BY <1>1, <1>4, DescendTypeInv, NoConditionHolds DEF ElseArm
<1>5. CASE CaseLabel
  BY <1>1, <1>5, DescendTypeInv DEF CaseLabel
<1>6. CASE CaseDefault
  BY <1>1, <1>6, DescendTypeInv DEF CaseDefault
<1> QED
  BY <1>2, <1>3, <1>4, <1>5, <1>6
\* The statement at the top of the stack.
LEMMA HereShape ==
    ASSUME TypeInv, InBody
    PROVE  /\ Top \in BodyFrames /\ Top \in Elements(stack)
           /\ Tail(stack) \in Seq(Frames)
           /\ Elements(Tail(stack)) \subseteq Elements(stack)
           /\ Here \in Names
           /\ Advance(Top) \in BodyFrames
           /\ Advance(Top).base = Top.base /\ Advance(Top).reach = Top.reach
<1>1. /\ Top \in BodyFrames /\ Top \in Elements(stack)
      /\ Tail(stack) \in Seq(Frames)
      /\ Elements(Tail(stack)) \subseteq Elements(stack)
  BY TopShape DEF InBody
<1>2. Here \in Names
  <2>1. Top.body \in Seq(Names) /\ Top.next \in DOMAIN Top.body
    BY <1>1 DEF BodyFrames, InBody
  <2> QED
    BY <2>1, ElementOfSeq, LenProperties DEF Here
<1>3. /\ Advance(Top) \in BodyFrames
      /\ Advance(Top).base = Top.base /\ Advance(Top).reach = Top.reach
  BY <1>1 DEF Advance, BodyFrames
<1> QED
  BY <1>1, <1>2, <1>3

Collected == [of |-> Here, slice |-> Stmt(Here).slice, bits |-> Bits(Here),
              cond |-> Top.base, reach |-> Top.reach]

LEMMA CollectTypeInv ==
    ASSUME TypeInv, Collect
    PROVE  TypeInv' /\ Elements(stack') \subseteq {Advance(Top)} \cup Elements(stack)
<1>1. InBody /\ Stmt(Here).kind = "assign"
  BY DEF Collect
<1>2. Stmt(Here) \in Assigns
  BY <1>1, HereShape, ProgramShape DEF TypeInv, TypeOK
<1>3. Collected \in Assignments
  <2>1. Stmt(Here).width \in Nat /\ Stmt(Here).slice \in Slices
    BY <1>2 DEF Assigns
  <2>2. Bits(Here) \in Seq(Names \X Nat)
    <3>1. \A i \in 1..Stmt(Here).width : <<Here, i>> \in Names \X Nat
      BY <1>1, <2>1, HereShape
    <3> QED
      BY <2>1, <3>1, IsASeq DEF Bits
  <2>3. Top.base \in Conditions /\ Top.reach \in SUBSET Points
    BY <1>1, HereShape DEF BodyFrames
  <2> QED
    BY <1>1, <2>1, <2>2, <2>3, HereShape DEF Assignments, Collected
<1>4. /\ stack' \in Seq(Frames)
      /\ Elements(stack') \subseteq {Advance(Top)} \cup Elements(stack)
      /\ Advance(Top).kind = "body"
  <2>1. Advance(Top) \in Frames /\ Advance(Top).kind = "body"
    BY <1>1, HereShape DEF Frames, BodyFrames
  <2>2. stack' = <<Advance(Top)>> \o Tail(stack)
    BY DEF Collect
  <2> HIDE DEF Advance
  <2> QED
    BY <1>1, <2>1, <2>2, HereShape, PushedOne
<1>5. UNCHANGED <<program, phase, todo, graph>> /\ asgs' = asgs \cup {Collected}
  BY DEF Collect, Collected
<1>6. ChainsAreNamed'
  <2>1. Collected.of = Here
    BY DEF Collected
  <2> QED
    BY <1>1, <1>4, <1>5, <2>1, KeepsNames
<1> QED
  BY <1>3, <1>4, <1>5, <1>6 DEF TypeInv, TypeOK

Entered == [kind |-> "chain", name |-> Here, next |-> 1, base |-> Top.base,
            prev |-> {}, reach |-> Top.reach]

LEMMA EnterTypeInv ==
    ASSUME TypeInv, EnterChain
    PROVE  /\ TypeInv'
           /\ Elements(stack') \subseteq {Entered, Advance(Top)} \cup Elements(stack)
<1>1. InBody /\ Stmt(Here).kind # "assign"
  BY DEF EnterChain
<1>2. Entered \in ChainFrames
  BY <1>1, HereShape DEF ChainFrames, BodyFrames, Entered
<1>3. Advance(Top) \in Frames /\ Advance(Top).kind = "body"
  BY <1>1, HereShape DEF Frames, BodyFrames
<1>4. /\ stack' \in Seq(Frames)
      /\ Elements(stack') \subseteq {Entered, Advance(Top)} \cup Elements(stack)
  <2>1. Entered \in Frames
    BY <1>2 DEF Frames
  <2>2. stack' = <<Entered, Advance(Top)>> \o Tail(stack)
    BY DEF EnterChain, Entered
  <2> HIDE DEF Advance, Entered
  <2> QED
    BY <1>1, <1>3, <2>1, <2>2, HereShape, PushedTwo
<1>5. UNCHANGED <<program, phase, asgs, todo, graph>>
  BY DEF EnterChain
<1>6. ChainsAreNamed'
  <2>1. Entered.name = Here
    BY DEF Entered
  <2> QED
    BY <1>1, <1>3, <1>4, <1>5, <2>1, KeepsNames
<1> QED
  BY <1>4, <1>5, <1>6 DEF TypeInv, TypeOK

LEMMA LeaveTypeInv ==
    ASSUME TypeInv, Leave
    PROVE  TypeInv' /\ Elements(stack') \subseteq Elements(stack)
<1>1. /\ stack' = Tail(stack) /\ stack # << >>
      /\ UNCHANGED <<program, phase, asgs, todo, graph>>
  BY DEF Leave
<1>2. stack' \in Seq(Frames) /\ Elements(stack') \subseteq Elements(stack)
  BY <1>1, TopShape
<1>3. ChainsAreNamed'
  BY <1>1, <1>2, KeepsNames
<1> QED
  BY <1>1, <1>2, <1>3 DEF TypeInv, TypeOK
\* After the walk assignments change their bits only.
LEMMA JoinedShape ==
    ASSUME NEW a \in Assignments,
           NEW low \in Seq(Names \X Nat), NEW high \in Seq(Names \X Nat)
    PROVE  /\ Joined(a, low, high) \in Assignments
           /\ Joined(a, low, high).cond = a.cond
           /\ Joined(a, low, high).reach = a.reach
           /\ Joined(a, low, high).of = a.of
<1>1. low \o a.bits \o high \in Seq(Names \X Nat)
  BY ConcatProperties DEF Assignments
<1>2. NoSlice \in Slices
  BY DEF Slices
<1> HIDE DEF NoSlice, Slices
<1> QED
  BY <1>1, <1>2 DEF Joined, Assignments

LEMMA TruncatedShape ==
    ASSUME TypeInv, NEW a \in asgs
    PROVE  /\ Truncated(a) \in Assignments
           /\ Truncated(a).cond = a.cond
           /\ Truncated(a).reach = a.reach /\ Truncated(a).of = a.of
<1>1. a \in Assignments
  BY DEF TypeInv, TypeOK
<1>2. CASE Len(a.bits) > LhsWidth(a) /\ ~Stmt(a.of).x
  <2>1. a.bits \in Seq(Names \X Nat)
    BY <1>1 DEF Assignments
  <2>2. LhsWidth(a) \in Nat
    <3>1. CASE a.slice = NoSlice
      <4>1. a.of \in Names /\ Stmt(a.of).kind = "assign"
        BY <1>1 DEF TypeInv, ChainsAreNamed, Assignments
      <4>2. VarOf(a) \in Vars
        BY <4>1, ProgramShape DEF TypeInv, TypeOK, Assigns, VarOf
      <4> QED
        BY <3>1, <4>2, WidthAssumption DEF LhsWidth
    <3>2. CASE a.slice # NoSlice
      BY <1>1, <3>2 DEF LhsWidth, Assignments, Slices, Msb, Lsb
    <3> QED
      BY <3>1, <3>2
  <2>3. SubSeq(a.bits, 1, LhsWidth(a)) \in Seq(Names \X Nat)
    BY <1>2, <2>1, <2>2, SubSeqProperties, LenProperties
  <2>4. Truncated(a) = [a EXCEPT !.bits = SubSeq(a.bits, 1, LhsWidth(a))]
    BY <1>2 DEF Truncated
  <2> QED
    BY <1>1, <2>3, <2>4 DEF Assignments
<1>3. CASE ~(Len(a.bits) > LhsWidth(a) /\ ~Stmt(a.of).x)
  BY <1>1, <1>3 DEF Truncated
<1> QED
  BY <1>2, <1>3
\* the assignments of the next state are those of this one, but for their bits
OnlyBits ==
    \A b \in asgs' :
       \E a \in asgs : b.of = a.of /\ b.cond = a.cond /\ b.reach = a.reach

LEMMA JoinSteps ==
    ASSUME TypeInv, NEW v \in Vars, JoinOne(v) \/ JoinTwo(v) \/ OtherSlices(v)
    PROVE  TypeInv' /\ OnlyBits /\ UNCHANGED <<program, stack>>
<1>1. asgs \subseteq Assignments /\ Sliced(v) \subseteq asgs
  BY DEF TypeInv, TypeOK, Sliced
<1>2. \A a \in asgs : a.bits \in Seq(Names \X Nat)
  BY <1>1 DEF Assignments
<1>3. ASSUME Fail
      PROVE  TypeInv' /\ OnlyBits /\ UNCHANGED <<program, stack>>
  BY <1>3 DEF Fail, TypeInv, TypeOK, ChainsAreNamed, OnlyBits, Phases, Stmt
<1>4. ASSUME NEW new, Replace(v, new),
             \A b \in new : /\ b \in Assignments
                            /\ \E a \in asgs : b.of = a.of /\ b.cond = a.cond
                                               /\ b.reach = a.reach
      PROVE  TypeInv' /\ OnlyBits /\ UNCHANGED <<program, stack>>
  <2>1. /\ asgs' = (asgs \ Sliced(v)) \cup new /\ todo' = todo \ {v}
        /\ UNCHANGED <<program, phase, stack, graph>>
    BY <1>4 DEF Replace
  <2>2. OnlyBits
    BY <1>4, <2>1 DEF OnlyBits
  <2>3. ChainsAreNamed'
    BY <2>1, <2>2, KeepsNames DEF OnlyBits
  <2>4. TypeOK'
    BY <1>1, <1>4, <2>1 DEF TypeInv, TypeOK
  <2> QED
    BY <2>1, <2>2, <2>3, <2>4 DEF TypeInv
<1>5. << >> \in Seq(Names \X Nat)
  OBVIOUS
<1>6. CASE JoinOne(v)
  <2>1. PICK u \in Sliced(v) :
           \/ Replace(v, {JoinWith(u, a, Width[v]) : a \in Sliced(v) \ {u}})
           \/ Fail
    BY <1>6 DEF JoinOne
  <2>2. ASSUME NEW a \in Sliced(v)
        PROVE  LET b == JoinWith(u, a, Width[v]) IN
               /\ b \in Assignments
               /\ b.of = a.of /\ b.cond = a.cond /\ b.reach = a.reach
    <3>1. /\ a \in Assignments
          /\ a.bits \in Seq(Names \X Nat) /\ u.bits \in Seq(Names \X Nat)
      BY <1>1, <1>2
    <3> HIDE DEF Joined
    <3> QED
      BY <3>1, <1>5, JoinedShape DEF JoinWith
  <2> QED
    BY <1>1, <1>3, <1>4, <2>1, <2>2
<1>7. CASE JoinTwo(v)
  <2>1. PICK low \in Sliced(v), high \in Sliced(v) :
           \/ Replace(v, {Joined(a, low.bits, high.bits) : a \in Sliced(v) \ {low, high}})
           \/ Fail
    BY <1>7 DEF JoinTwo
  <2>2. ASSUME NEW a \in Sliced(v)
        PROVE  LET b == Joined(a, low.bits, high.bits) IN
               /\ b \in Assignments
               /\ b.of = a.of /\ b.cond = a.cond /\ b.reach = a.reach
    <3>1. /\ a \in Assignments
          /\ low.bits \in Seq(Names \X Nat) /\ high.bits \in Seq(Names \X Nat)
      BY <1>1, <1>2
    <3> HIDE DEF Joined
    <3> QED
      BY <3>1, JoinedShape
  <2> QED
    BY <1>1, <1>3, <1>4, <2>1, <2>2
<1>8. CASE OtherSlices(v)
  BY <1>3, <1>8 DEF OtherSlices
<1> QED
  BY <1>6, <1>7, <1>8

LEMMA BeginNegateTypeInv ==
    ASSUME TypeInv, BeginNegate
    PROVE  TypeInv' /\ OnlyBits /\ UNCHANGED <<program, stack>>
<1>1. /\ asgs' = {Truncated(a) : a \in asgs} /\ todo' = Vars /\ phase' = "negate"
      /\ UNCHANGED <<program, stack, graph>>
  BY DEF BeginNegate
<1> HIDE DEF Truncated
<1>2. OnlyBits
  BY <1>1, TruncatedShape DEF OnlyBits
<1>3. ChainsAreNamed'
  BY <1>1, <1>2, KeepsNames DEF OnlyBits
<1>4. TypeOK'
  BY <1>1, TruncatedShape DEF TypeInv, TypeOK, Phases
<1> QED
  BY <1>1, <1>2, <1>3, <1>4 DEF TypeInv

LEMMA NegateTypeInv ==
    ASSUME TypeInv, NEW v \in Vars, Negate(v) \/ TwoUnconditional(v)
    PROVE  TypeInv' /\ UNCHANGED <<program, stack, asgs>>
<1>1. CASE TwoUnconditional(v)
  BY <1>1 DEF TwoUnconditional, Fail, TypeInv, TypeOK, ChainsAreNamed, Phases, Stmt
<1>2. CASE Negate(v)
  <2>1. ASSUME NEW a \in asgs
        PROVE  Edge(a, Of(v)) \in [of : Names, bits : Seq(Names \X Nat), holds : SUBSET Points]
    <3>1. a \in Assignments
      BY DEF TypeInv, TypeOK
    <3>2. a.cond.holds \in SUBSET Points
      BY <3>1 DEF Assignments, Conditions
    <3>3. EdgeCondition(a, Of(v)) \in SUBSET Points
      BY <3>2 DEF EdgeCondition, OthersFail
    <3> HIDE DEF EdgeCondition
    <3> QED
      BY <3>1, <3>3 DEF Edge, Assignments
  <2>2. /\ graph' = graph \cup {Edge(a, Of(v)) : a \in {b \in Of(v) : ~Stmt(b.of).x}}
        /\ todo' = todo \ {v}
        /\ UNCHANGED <<program, phase, stack, asgs>>
    BY <1>2 DEF Negate
  <2>3. Of(v) \subseteq asgs
    BY DEF Of
  <2>4. TypeOK'
    <3> HIDE DEF Edge
    <3> QED
      BY <2>1, <2>2, <2>3 DEF TypeInv, TypeOK
  <2>5. ChainsAreNamed'
    BY <2>2 DEF TypeInv, ChainsAreNamed, Stmt
  <2> QED
    BY <2>2, <2>4, <2>5 DEF TypeInv
<1> QED
  BY <1>1, <1>2
-----------------------------------------------------------------------------
(* Conditions cover executions.  What is left to the remaining arms of a     *)
(* chain is disjoint from the guards before, and prev are such guards.       *)

FrameCovers(f) ==
    /\ f.reach \subseteq f.base.holds
    /\ f.kind = "chain" =>
         /\ \A j \in DOMAIN Stmt(f.name).arms :
               j < f.next => f.reach \cap Stmt(f.name).arms[j].guard.holds = {}
         /\ \A g \in f.prev : \E j \in DOMAIN Stmt(f.name).arms :
               j < f.next /\ g = Stmt(f.name).arms[j].guard

CoverInv == (\A f \in Elements(stack) : FrameCovers(f)) /\ ConditionCoversReach

\* A step covers if it leaves the program and what it adds covers.
LEMMA KeepsCover ==
    ASSUME CoverInv, program' = program,
           \A f \in Elements(stack') \ Elements(stack) : FrameCovers(f),
           \A b \in asgs' : \/ b.reach \subseteq b.cond.holds
                             \/ \E a \in asgs : b.cond = a.cond /\ b.reach = a.reach
    PROVE  CoverInv'
<1>1. \A f : FrameCovers(f)' <=> FrameCovers(f)
  BY DEF FrameCovers, Stmt
<1>2. (\A f \in Elements(stack) : FrameCovers(f))'
  BY <1>1 DEF CoverInv
<1>3. ConditionCoversReach'
  BY DEF CoverInv, ConditionCoversReach
<1> QED
  BY <1>2, <1>3 DEF CoverInv

LEMMA PastCovers ==
    ASSUME TypeInv, CoverInv, NEW kind, AtArm(kind),
           NEW prev \in SUBSET Guards, prev \subseteq Top.prev \cup {Arm.guard}
    PROVE  FrameCovers(Past(prev))
<1>1. /\ Top \in ChainFrames /\ Top \in Elements(stack) /\ Arm \in Arms
      /\ Top.next \in DOMAIN Stmt(Top.name).arms
      /\ Stmt(Top.name) \in Chains
  BY ArmShape
<1>2. FrameCovers(Top) /\ Top.kind = "chain"
  BY <1>1 DEF CoverInv, ChainFrames
<1>3. /\ Past(prev).kind = "chain" /\ Past(prev).name = Top.name
      /\ Past(prev).next = Top.next + 1 /\ Past(prev).base = Top.base
      /\ Past(prev).prev = prev
      /\ Past(prev).reach = Top.reach \ Arm.guard.holds
  BY <1>1, PastShape
<1>4. \A j \in DOMAIN Stmt(Top.name).arms :
         j < Top.next + 1 => j < Top.next \/ j = Top.next
  <2>1. Stmt(Top.name).arms \in Seq(Arms) /\ Top.next \in Nat
    BY <1>1 DEF Chains, ChainFrames
  <2> QED
    BY <2>1, LenProperties
<1>5. Arm = Stmt(Top.name).arms[Top.next] /\ Top.next < Top.next + 1
  BY <1>1 DEF Arm, ChainFrames
<1>6. \A j \in DOMAIN Stmt(Top.name).arms :
         j < Top.next => j < Top.next + 1
  <2>1. Stmt(Top.name).arms \in Seq(Arms) /\ Top.next \in Nat
    BY <1>1 DEF Chains, ChainFrames
  <2> QED
    BY <2>1, LenProperties
<1> HIDE DEF Past, Arm, Top, Stmt
<1>7. Past(prev).reach \subseteq Past(prev).base.holds
  BY <1>2, <1>3 DEF FrameCovers
<1>8. ASSUME NEW j \in DOMAIN Stmt(Top.name).arms, j < Top.next + 1
      PROVE  Past(prev).reach \cap Stmt(Top.name).arms[j].guard.holds = {}
  BY <1>2, <1>3, <1>4, <1>5, <1>8 DEF FrameCovers
<1>9. ASSUME NEW g \in prev
      PROVE  \E j \in DOMAIN Stmt(Top.name).arms :
                j < Top.next + 1 /\ g = Stmt(Top.name).arms[j].guard
  BY <1>1, <1>2, <1>5, <1>6 DEF FrameCovers
<1> QED
  BY <1>3, <1>7, <1>8, <1>9 DEF FrameCovers

LEMMA SkipCovers ==
    ASSUME TypeInv, CoverInv, NEW kind, AtArm(kind),
           NEW prev \in SUBSET Guards, prev \subseteq Top.prev \cup {Arm.guard},
           SkipArm(prev)
    PROVE  CoverInv'
<1>1. Elements(stack') \subseteq {Past(prev)} \cup Elements(stack)
  BY SkipShape
<1>2. program' = program /\ asgs' = asgs
  BY DEF SkipArm
<1> QED
  BY <1>1, <1>2, PastCovers, KeepsCover

LEMMA DescendCovers ==
    ASSUME TypeInv, CoverInv, NEW kind, AtArm(kind), NEW c \in Conditions,
           NEW prev \in SUBSET Guards, prev \subseteq Top.prev \cup {Arm.guard},
           Top.reach \cap Arm.guard.holds \subseteq c.holds,
           Descend(c, prev)
    PROVE  CoverInv'
<1>1. Elements(stack') \subseteq {DescendTo(c), Past(prev)} \cup Elements(stack)
  BY DescendShape
<1>2. program' = program /\ asgs' = asgs
  BY DEF Descend
<1>3. FrameCovers(DescendTo(c))
  <2>1. Top \in ChainFrames /\ Top \in Elements(stack)
    BY ArmShape
  <2>2. Top.reach \subseteq Top.base.holds /\ Top.base \in Conditions
    BY <2>1 DEF CoverInv, FrameCovers, ChainFrames
  <2>3. And(Top.base, c).holds = Top.base.holds \cap c.holds
    BY <2>2, AndHolds
  <2>4. /\ DescendTo(c).reach = Top.reach \cap Arm.guard.holds
        /\ DescendTo(c).base = And(Top.base, c) /\ DescendTo(c).kind = "body"
    BY DEF DescendTo
  <2> QED
    BY <2>2, <2>3, <2>4 DEF FrameCovers
<1> QED
  BY <1>1, <1>2, <1>3, PastCovers, KeepsCover

\* Everything that is left to an arm escaped the conditions before it.
LEMMA ReachEscapes ==
    ASSUME TypeInv, CoverInv, NEW kind, AtArm(kind)
    PROVE  /\ Top.reach \subseteq NoneOf(Top.prev)
           /\ NoneOf(Top.prev) \subseteq Points
           /\ Top.reach \subseteq Points /\ Arm.guard.holds \subseteq Points
           /\ Top.prev \in SUBSET Guards /\ Arm.guard \in Guards
<1>1. Top \in ChainFrames /\ Top \in Elements(stack) /\ Arm \in Arms
  BY ArmShape
<1>2. FrameCovers(Top) /\ Top.kind = "chain"
  BY <1>1 DEF CoverInv, ChainFrames
<1>3. Top.reach \in SUBSET Points /\ Top.prev \in SUBSET Guards
  BY <1>1 DEF ChainFrames
<1>4. Arm.guard \in Guards
  BY <1>1 DEF Arms
<1> HIDE DEF Arm, Top, Stmt
<1>5. \A g \in Top.prev : Top.reach \cap g.holds = {}
  BY <1>2 DEF FrameCovers
<1> QED
  BY <1>3, <1>4, <1>5 DEF NoneOf, Guards

LEMMA ArmsCover ==
    ASSUME TypeInv, CoverInv,
           \/ IfArm \/ ElseIfArm \/ ElseArm \/ CaseLabel \/ CaseDefault
    PROVE  CoverInv'
<1>1. ASSUME NEW kind, AtArm(kind)
      PROVE  /\ Top.prev \in SUBSET Guards
             /\ Top.prev \cup {Arm.guard} \in SUBSET Guards
             /\ Expression(Arm.guard.holds) \in Conditions
             /\ Expression(Arm.guard.holds).holds = Arm.guard.holds
             /\ Expression(NoneOf(Top.prev)) \in Conditions
             /\ Expression(NoneOf(Top.prev)).holds = NoneOf(Top.prev)
             /\ Expression(NoneOf(Top.prev) \cap Arm.guard.holds) \in Conditions
             /\ Expression(NoneOf(Top.prev) \cap Arm.guard.holds).holds
                  = NoneOf(Top.prev) \cap Arm.guard.holds
             /\ Top.reach \subseteq NoneOf(Top.prev)
             /\ Top.reach \subseteq Points
  BY <1>1, ReachEscapes, ExpressionHolds
<1>2. CASE IfArm
  BY <1>1, <1>2, SkipCovers, DescendCovers DEF IfArm
<1>3. CASE ElseIfArm
  <2>1. AtArm("else if")
    BY <1>3 DEF ElseIfArm
  <2>2. CASE Top.prev = {} /\ Arm.guard.timed
    BY <1>1, <1>3, <2>1, <2>2, SkipCovers DEF ElseIfArm
  <2>3. CASE Top.prev = {} /\ ~Arm.guard.timed
    BY <1>1, <1>3, <2>1, <2>3, DescendCovers DEF ElseIfArm
  <2>4. CASE Top.prev # {} /\ \E g \in Top.prev \cup {Arm.guard} : g.timed
    BY <1>1, <1>3, <2>1, <2>4, SkipCovers DEF ElseIfArm
  <2>5. CASE Top.prev # {} /\ ~\E g \in Top.prev \cup {Arm.guard} : g.timed
    BY <1>1, <1>3, <2>1, <2>5, DescendCovers DEF ElseIfArm
  <2> QED
    BY <2>2, <2>3, <2>4, <2>5
<1>4. CASE ElseArm
  BY <1>1, <1>4, DescendCovers, NoConditionHolds DEF ElseArm
<1>5. CASE CaseLabel
  BY <1>1, <1>5, DescendCovers DEF CaseLabel
<1>6. CASE CaseDefault
  BY <1>1, <1>6, DescendCovers DEF CaseDefault
<1> QED
  BY <1>2, <1>3, <1>4, <1>5, <1>6
-----------------------------------------------------------------------------
(* The theorems about types and coverage.                                    *)

\* The steps that touch neither the program nor the conditions.
LEMMA OtherSteps ==
    ASSUME TypeInv,
           \/ DefaultComesFirst \/ BeginSlices \/ BeginNegate \/ Done
           \/ \E v \in Vars : JoinOne(v) \/ JoinTwo(v) \/ OtherSlices(v)
           \/ \E v \in Vars : Negate(v) \/ TwoUnconditional(v)
           \/ UNCHANGED vars
    PROVE  TypeInv' /\ OnlyBits /\ UNCHANGED <<program, stack>>
<1>1. CASE DefaultComesFirst
  BY <1>1 DEF DefaultComesFirst, Fail, TypeInv, TypeOK, ChainsAreNamed, Phases,
              Stmt, OnlyBits
<1>2. CASE BeginSlices
  BY <1>2 DEF BeginSlices, TypeInv, TypeOK, ChainsAreNamed, Phases, Stmt, OnlyBits
<1>3. CASE Done
  BY <1>3 DEF Done, TypeInv, TypeOK, ChainsAreNamed, Phases, Stmt, OnlyBits
<1>4. CASE UNCHANGED vars
  BY <1>4 DEF vars, TypeInv, TypeOK, ChainsAreNamed, Stmt, OnlyBits
<1>5. CASE \E v \in Vars : Negate(v) \/ TwoUnconditional(v)
  BY <1>5, NegateTypeInv DEF OnlyBits
<1>6. CASE BeginNegate
  BY <1>6, BeginNegateTypeInv
<1>7. CASE \E v \in Vars : JoinOne(v) \/ JoinTwo(v) \/ OtherSlices(v)
  BY <1>7, JoinSteps
<1> QED
  BY <1>1, <1>2, <1>3, <1>4, <1>5, <1>6, <1>7

LEMMA NextTypeInv == TypeInv /\ [Next]_vars => TypeInv'
<1> SUFFICES ASSUME TypeInv, [Next]_vars PROVE TypeInv'
  OBVIOUS
<1>1. CASE Collect
  BY <1>1, CollectTypeInv
<1>2. CASE EnterChain
  BY <1>2, EnterTypeInv
<1>3. CASE Leave
  BY <1>3, LeaveTypeInv
<1>4. CASE IfArm \/ ElseIfArm \/ ElseArm \/ CaseLabel \/ CaseDefault
  BY <1>4, ArmSteps
<1> QED
  BY <1>1, <1>2, <1>3, <1>4, OtherSteps DEF Next

\* TypeOK holds of every run, for any set of modules.
THEOREM TypeCorrect == Spec => []TypeOK
<1>1. TypeInv => TypeOK
  BY DEF TypeInv
<1> QED
  BY <1>1, InitTypeInv, NextTypeInv, PTL DEF Spec

LEMMA InitCovers == Init => CoverInv
<1> SUFFICES ASSUME Init PROVE CoverInv
  OBVIOUS
<1> DEFINE f == [kind |-> "body", body |-> program.top, next |-> 1,
                 base |-> NoCondition, reach |-> Points]
<1>1. FrameCovers(f)
  BY NoConditionHolds DEF FrameCovers
<1>2. stack = <<f>> /\ asgs = {}
  BY DEF Init
<1> HIDE DEF f
<1>3. Elements(stack) = {f}
  BY <1>2 DEF Elements
<1> QED
  BY <1>1, <1>2, <1>3 DEF CoverInv, ConditionCoversReach

LEMMA NextCovers == TypeInv /\ CoverInv /\ [Next]_vars => CoverInv'
<1> SUFFICES ASSUME TypeInv, CoverInv, [Next]_vars PROVE CoverInv'
  OBVIOUS
<1>1. CASE Collect
  <2>1. InBody /\ program' = program /\ asgs' = asgs \cup {Collected}
    BY <1>1 DEF Collect, Collected
  <2>2. FrameCovers(Top) /\ Top.kind = "body"
    BY <2>1, HereShape DEF CoverInv, BodyFrames
  <2>3. Advance(Top).base = Top.base /\ Advance(Top).reach = Top.reach
        /\ Advance(Top).kind = "body"
    BY <2>1, HereShape DEF BodyFrames
  <2>4. FrameCovers(Advance(Top))
    BY <2>2, <2>3 DEF FrameCovers
  <2>5. Collected.reach \subseteq Collected.cond.holds
    BY <2>2 DEF Collected, FrameCovers
  <2> HIDE DEF Advance, Collected
  <2> QED
    BY <1>1, <2>1, <2>4, <2>5, CollectTypeInv, KeepsCover
<1>2. CASE EnterChain
  <2>1. InBody /\ program' = program /\ asgs' = asgs
    BY <1>2 DEF EnterChain
  <2>2. FrameCovers(Top) /\ Top.kind = "body"
    BY <2>1, HereShape DEF CoverInv, BodyFrames
  <2>3. Advance(Top).base = Top.base /\ Advance(Top).reach = Top.reach
        /\ Advance(Top).kind = "body"
    BY <2>1, HereShape DEF BodyFrames
  <2>4. FrameCovers(Advance(Top))
    BY <2>2, <2>3 DEF FrameCovers
  <2>5. FrameCovers(Entered)
    <3>1. Stmt(Here) \in Chains
      BY <1>2, <2>1, HereShape, ProgramShape DEF TypeInv, TypeOK, EnterChain
    <3>2. \A j \in DOMAIN Stmt(Here).arms : ~(j < 1)
      BY <3>1, LenProperties DEF Chains
    <3> QED
      BY <2>2, <3>2 DEF FrameCovers, Entered
  <2> HIDE DEF Advance, Entered
  <2> QED
    BY <1>2, <2>1, <2>4, <2>5, EnterTypeInv, KeepsCover
<1>3. CASE Leave
  <2>1. program' = program /\ asgs' = asgs
    BY <1>3 DEF Leave
  <2> QED
    BY <1>3, <2>1, LeaveTypeInv, KeepsCover
<1>4. CASE IfArm \/ ElseIfArm \/ ElseArm \/ CaseLabel \/ CaseDefault
  BY <1>4, ArmsCover
<1>5. CASE OnlyBits /\ UNCHANGED <<program, stack>>
  BY <1>5, KeepsCover DEF OnlyBits
<1> QED
  BY <1>1, <1>2, <1>3, <1>4, <1>5, OtherSteps DEF Next

\* ConditionCoversReach holds of every run, for any set of modules: no
\* condition is too narrow, whatever the shape of the chains.
THEOREM ConditionsCover == Spec => []ConditionCoversReach
<1>1. TypeInv /\ CoverInv => ConditionCoversReach
  BY DEF CoverInv
<1> QED
  BY <1>1, InitTypeInv, NextTypeInv, InitCovers, NextCovers, PTL DEF Spec
-----------------------------------------------------------------------------
(* Conditions are exact outside of reset where chains are regular.  What     *)
(* escaped the guards before is still to be reached; and prev holds those    *)
(* guards, but for resets.  If it is empty, either there were only resets,   *)
(* or the one arm that is not a reset has been taken.                        *)

ArmsOf(f) == Stmt(f.name).arms

Timed(f, j) == ArmsOf(f)[j].guard.timed

PrevExact(f) ==
    /\ Stmt(f.name).kind = "case" =>
         \A j \in DOMAIN ArmsOf(f) :
            j < f.next /\ ArmsOf(f)[j].kind = "label" => ArmsOf(f)[j].guard \in f.prev
    /\ Stmt(f.name).kind = "if" /\ f.prev = {} =>
         \/ \A j \in DOMAIN ArmsOf(f) :
               j < f.next /\ ArmsOf(f)[j].kind # "else" => Timed(f, j)
         \/ \E j \in DOMAIN ArmsOf(f) :
               /\ j < f.next
               /\ \A i \in DOMAIN ArmsOf(f) : ~Timed(f, i) => i = j
    /\ Stmt(f.name).kind = "if" /\ f.prev # {} =>
         \A j \in DOMAIN ArmsOf(f) :
            j < f.next /\ ArmsOf(f)[j].kind # "else" =>
               ArmsOf(f)[j].guard \in f.prev \/ Timed(f, j)

ReachExact(f) ==
    \A p \in f.base.holds \cap Quiet :
       (\A j \in DOMAIN ArmsOf(f) : j < f.next => p \notin ArmsOf(f)[j].guard.holds)
       => p \in f.reach

FrameExact(f) ==
    /\ f.kind = "body"  => f.base.holds \cap Quiet \subseteq f.reach
    /\ f.kind = "chain" => ReachExact(f) /\ PrevExact(f)

ExactInv ==
    AllRegular =>
      /\ \A f \in Elements(stack) : FrameExact(f)
      /\ \A a \in asgs : a.cond.holds \cap Quiet \subseteq a.reach

\* A step is exact if it leaves the program and what it adds is exact.
LEMMA KeepsExact ==
    ASSUME ExactInv, program' = program,
           AllRegular => \A f \in Elements(stack') \ Elements(stack) : FrameExact(f),
           AllRegular =>
             \A b \in asgs' : \/ b.cond.holds \cap Quiet \subseteq b.reach
                              \/ \E a \in asgs : b.cond = a.cond /\ b.reach = a.reach
    PROVE  ExactInv'
<1>1. \A f : FrameExact(f)' <=> FrameExact(f)
  BY DEF FrameExact, ReachExact, PrevExact, ArmsOf, Timed, Stmt
<1>2. AllRegular' <=> AllRegular
  <2>1. \A n : Stmt(n)' = Stmt(n)
    BY DEF Stmt
  <2>2. ASSUME NEW n PROVE Regular(Stmt(n).arms)' <=> Regular(Stmt(n).arms)
    <3> HIDE DEF Stmt
    <3> QED
      BY <2>1 DEF Regular
  <2> QED
    BY <2>1, <2>2 DEF AllRegular
<1> HIDE DEF FrameExact
<1>3. ASSUME AllRegular
      PROVE  (\A f \in Elements(stack) : FrameExact(f))'
  BY <1>1, <1>3 DEF ExactInv
<1>4. ASSUME AllRegular
      PROVE  \A b \in asgs' : b.cond.holds \cap Quiet \subseteq b.reach
  BY <1>4 DEF ExactInv
<1> QED
  BY <1>2, <1>3, <1>4 DEF ExactInv

\* The shape of the chain at the top.
LEMMA ChainShape ==
    ASSUME TypeInv, AllRegular, NEW kind, AtArm(kind)
    PROVE  /\ Stmt(Top.name).kind \in {"if", "case"}
           /\ Stmt(Top.name).kind = "if" => IsIfChain(ArmsOf(Top))
           /\ Stmt(Top.name).kind = "case" => IsCaseChain(ArmsOf(Top))
           /\ Regular(ArmsOf(Top))
           /\ Top.next \in DOMAIN ArmsOf(Top)
           /\ Arm = ArmsOf(Top)[Top.next] /\ Arm.kind = kind
           /\ DOMAIN ArmsOf(Top) = 1..Len(ArmsOf(Top)) /\ Len(ArmsOf(Top)) \in Nat
           /\ \A j \in DOMAIN ArmsOf(Top) :
                /\ ArmsOf(Top)[j].guard.holds \subseteq Points
                /\ ArmsOf(Top)[j].guard.timed \in BOOLEAN
<1>1. /\ Top \in ChainFrames /\ Stmt(Top.name) \in Chains
      /\ Top.next \in DOMAIN Stmt(Top.name).arms /\ Arm.kind = kind
  BY ArmShape
<1>2. Top.name \in Names
  BY <1>1 DEF ChainFrames
<1>3. Stmt(Top.name).kind \in {"if", "case"} /\ Stmt(Top.name).arms \in Seq(Arms)
  BY <1>1 DEF Chains
<1>4. \A j \in DOMAIN ArmsOf(Top) : ArmsOf(Top)[j] \in Arms
  BY <1>3, ElementOfSeq, LenProperties DEF ArmsOf
<1>5. \A j \in DOMAIN ArmsOf(Top) :
        /\ ArmsOf(Top)[j].guard.holds \subseteq Points
        /\ ArmsOf(Top)[j].guard.timed \in BOOLEAN
  BY <1>4 DEF Arms, Guards
<1>6. DOMAIN ArmsOf(Top) = 1..Len(ArmsOf(Top)) /\ Len(ArmsOf(Top)) \in Nat
  BY <1>3, LenProperties DEF ArmsOf
<1>7. /\ Stmt(Top.name).kind = "if" => IsIfChain(ArmsOf(Top))
      /\ Stmt(Top.name).kind = "case" => IsCaseChain(ArmsOf(Top))
  BY <1>2, ProgramShape DEF ArmsOf, TypeInv, TypeOK
<1>8. Regular(ArmsOf(Top))
  BY <1>2, <1>3 DEF AllRegular, ArmsOf
<1> QED
  BY <1>1, <1>3, <1>5, <1>6, <1>7, <1>8 DEF ArmsOf, Arm

LEMMA PastExact ==
    ASSUME TypeInv, AllRegular, FrameExact(Top), NEW kind, AtArm(kind),
           NEW prev \in SUBSET Guards, PrevExact(Past(prev))
    PROVE  FrameExact(Past(prev))
<1>1. /\ Top \in ChainFrames /\ Arm \in Arms
      /\ Top.kind = "chain" /\ Top.next \in Nat
  BY ArmShape DEF ChainFrames
<1>2. /\ Past(prev).kind = "chain" /\ Past(prev).name = Top.name
      /\ Past(prev).next = Top.next + 1 /\ Past(prev).base = Top.base
      /\ Past(prev).reach = Top.reach \ Arm.guard.holds
  BY <1>1, PastShape
<1>3. ReachExact(Top)
  BY <1>1 DEF FrameExact
<1>4. ArmsOf(Past(prev)) = ArmsOf(Top)
  BY <1>2 DEF ArmsOf
<1>5. /\ Top.next \in DOMAIN ArmsOf(Top) /\ Arm = ArmsOf(Top)[Top.next]
      /\ DOMAIN ArmsOf(Top) = 1..Len(ArmsOf(Top)) /\ Len(ArmsOf(Top)) \in Nat
  BY ChainShape
<1> HIDE DEF Past, Top, Arm, ArmsOf
<1>6. ASSUME NEW p \in Past(prev).base.holds \cap Quiet,
             \A j \in DOMAIN ArmsOf(Top) :
                j < Top.next + 1 => p \notin ArmsOf(Top)[j].guard.holds
      PROVE  p \in Top.reach \ Arm.guard.holds
  <2>1. \A j \in DOMAIN ArmsOf(Top) : j < Top.next => j < Top.next + 1
    BY <1>1, <1>5
  <2>2. p \in Top.reach
    BY <1>2, <1>3, <1>6, <2>1 DEF ReachExact
  <2>3. p \notin Arm.guard.holds
    BY <1>1, <1>5, <1>6
  <2> QED
    BY <2>2, <2>3
<1>7. ReachExact(Past(prev))
  BY <1>2, <1>4, <1>6 DEF ReachExact
<1> QED
  BY <1>2, <1>7 DEF FrameExact

LEMMA DescendExact ==
    ASSUME TypeInv, FrameExact(Top), NEW kind, AtArm(kind), NEW c \in Conditions,
           Top.base.holds \cap c.holds \cap Quiet \subseteq Top.reach \cap Arm.guard.holds
    PROVE  FrameExact(DescendTo(c))
<1>1. Top.base \in Conditions
  BY ArmShape DEF ChainFrames
<1>2. And(Top.base, c).holds = Top.base.holds \cap c.holds
  BY <1>1, AndHolds
<1>3. /\ DescendTo(c).reach = Top.reach \cap Arm.guard.holds
      /\ DescendTo(c).base = And(Top.base, c) /\ DescendTo(c).kind = "body"
  BY DEF DescendTo
<1> QED
  BY <1>2, <1>3 DEF FrameExact
\* One lemma per arm: the condition it takes is exact, and so is prev after it.
LEMMA IfArmExact ==
    ASSUME TypeInv, AllRegular, FrameExact(Top), CoverInv, AtArm("if")
    PROVE  /\ Arm.guard.timed => PrevExact(Past(Top.prev))
           /\ ~Arm.guard.timed =>
                /\ PrevExact(Past(Top.prev \cup {Arm.guard}))
                /\ Top.base.holds \cap Arm.guard.holds \cap Quiet
                     \subseteq Top.reach \cap Arm.guard.holds
<1>1. /\ Top \in ChainFrames /\ Arm \in Arms /\ Top.kind = "chain"
      /\ Top \in Elements(stack)
  BY ArmShape DEF ChainFrames
<1>2. /\ Stmt(Top.name).kind = "if" /\ IsIfChain(ArmsOf(Top))
      /\ Top.next \in DOMAIN ArmsOf(Top) /\ Arm = ArmsOf(Top)[Top.next]
      /\ DOMAIN ArmsOf(Top) = 1..Len(ArmsOf(Top)) /\ Len(ArmsOf(Top)) \in Nat
  <2>1. Stmt(Top.name).kind # "case"
    BY ChainShape DEF IsCaseChain
  <2> QED
    BY <2>1, ChainShape
<1>3. Top.next = 1
  BY <1>2, ArmShape DEF IsIfChain
<1>4. Top.prev = {}
  <2>1. FrameCovers(Top)
    BY <1>1 DEF CoverInv
  <2>2. ~\E j \in DOMAIN ArmsOf(Top) : j < 1
    BY <1>2
  <2> HIDE DEF Top
  <2> QED
    BY <1>1, <1>3, <2>1, <2>2 DEF FrameCovers, ArmsOf
<1>5. ReachExact(Top)
  BY <1>1 DEF FrameExact
<1>6. ASSUME NEW prev \in SUBSET Guards
      PROVE  /\ Past(prev).name = Top.name /\ Past(prev).next = 2
             /\ Past(prev).prev = prev /\ ArmsOf(Past(prev)) = ArmsOf(Top)
  BY <1>1, <1>3, PastShape DEF ArmsOf
<1>7. Arm.guard \in Guards
  BY <1>1 DEF Arms
<1>8. \A j \in DOMAIN ArmsOf(Top) : j < 2 => j = Top.next
  BY <1>2, <1>3
<1> HIDE DEF Past, Top, Arm, ArmsOf
<1>9. ASSUME Arm.guard.timed
      PROVE  PrevExact(Past({}))
  BY <1>2, <1>6, <1>8, <1>9 DEF PrevExact, Timed
<1>10. PrevExact(Past({Arm.guard}))
  <2> DEFINE f == Past({Arm.guard})
  <2>1. {Arm.guard} \in SUBSET Guards
    BY <1>7
  <2>2. /\ f.name = Top.name /\ f.next = 2
        /\ f.prev = {Arm.guard} /\ ArmsOf(f) = ArmsOf(Top)
    BY <1>6, <2>1
  <2> HIDE DEF f
  <2>3. \A j \in DOMAIN ArmsOf(f) : j < f.next => ArmsOf(f)[j].guard \in f.prev
    BY <1>2, <1>8, <2>2
  <2>4. Stmt(f.name).kind # "case" /\ f.prev # {}
    BY <1>2, <2>2
  <2>5. PrevExact(f)
    BY <2>3, <2>4 DEF PrevExact
  <2> QED
    BY <2>5 DEF f
<1>11. Top.base.holds \cap Quiet \subseteq Top.reach
  BY <1>2, <1>3, <1>5 DEF ReachExact
<1> QED
  BY <1>4, <1>9, <1>10, <1>11

LEMMA Irreflexive == \A n \in Nat : ~(n < n)
  OBVIOUS

LEMMA Bounds ==
    ASSUME NEW n \in Nat, NEW i \in 1..n
    PROVE  1 \in 1..n /\ (\A j \in 1..n : j < i => j # n) /\ (i # 1 => 1 < i)
  OBVIOUS

\* What is before an arm that is not the first of an `if' chain.
LEMMA IfChainArm ==
    ASSUME NEW arms, NEW n \in Nat, DOMAIN arms = 1..n, Len(arms) = n,
           IsIfChain(arms), NEW i \in 1..n, arms[i].kind \in {"else if", "else"}
    PROVE  /\ 1 \in DOMAIN arms /\ 1 < i /\ arms[1].kind = "if"
           /\ \A j \in DOMAIN arms : j < i => arms[j].kind # "else"
           /\ \A j \in DOMAIN arms :
                 arms[j].guard.timed => arms[j].guard.holds \cap Quiet = {}
           /\ arms[i].kind = "else" => ~arms[i].guard.timed /\ arms[i].guard.holds = Points
<1>1. 1 \in 1..n /\ (\A j \in 1..n : j < i => j # n) /\ (i # 1 => 1 < i)
  BY Bounds
<1>2. 1 \in DOMAIN arms /\ i \in DOMAIN arms
  BY <1>1
<1>3. arms[1].kind = "if"
  BY <1>2 DEF IsIfChain
<1>4. 1 < i
  BY <1>1, <1>3
<1>5. \A j \in DOMAIN arms : j < i => j # Len(arms)
  BY <1>1
<1>6. \A j \in DOMAIN arms : j < i => arms[j].kind # "else"
  BY <1>5 DEF IsIfChain
<1>7. \A j \in DOMAIN arms :
         arms[j].guard.timed => arms[j].guard.holds \cap Quiet = {}
  BY DEF IsIfChain
<1>8. arms[i].kind = "else" => arms[i].guard = [holds |-> Points, timed |-> FALSE]
  BY <1>2 DEF IsIfChain
<1>9. arms[i].kind = "else" => ~arms[i].guard.timed /\ arms[i].guard.holds = Points
  BY <1>8
<1> QED
  BY <1>2, <1>3, <1>4, <1>6, <1>7, <1>9

LEMMA IfChainBefore ==
    ASSUME TypeInv, AllRegular, NEW kind \in {"else if", "else"}, AtArm(kind)
    PROVE  /\ Stmt(Top.name).kind = "if" /\ Regular(ArmsOf(Top))
           /\ Top.next \in DOMAIN ArmsOf(Top) /\ Arm = ArmsOf(Top)[Top.next]
           /\ Arm.kind = kind /\ Arm.guard \in Guards
           /\ DOMAIN ArmsOf(Top) = 1..Len(ArmsOf(Top)) /\ Len(ArmsOf(Top)) \in Nat
           /\ 1 \in DOMAIN ArmsOf(Top) /\ 1 < Top.next /\ ArmsOf(Top)[1].kind = "if"
           /\ \A j \in DOMAIN ArmsOf(Top) : j < Top.next => ArmsOf(Top)[j].kind # "else"
           /\ \A j \in DOMAIN ArmsOf(Top) :
                 Timed(Top, j) => ArmsOf(Top)[j].guard.holds \cap Quiet = {}
           /\ kind = "else" => ~Arm.guard.timed /\ Arm.guard.holds = Points
<1>1. /\ Stmt(Top.name).kind \in {"if", "case"}
      /\ Stmt(Top.name).kind = "if" => IsIfChain(ArmsOf(Top))
      /\ Stmt(Top.name).kind = "case" => IsCaseChain(ArmsOf(Top))
      /\ Regular(ArmsOf(Top))
      /\ Top.next \in DOMAIN ArmsOf(Top)
      /\ Arm = ArmsOf(Top)[Top.next] /\ Arm.kind = kind
      /\ DOMAIN ArmsOf(Top) = 1..Len(ArmsOf(Top)) /\ Len(ArmsOf(Top)) \in Nat
  BY ChainShape
<1>2. Arm.guard \in Guards
  BY ArmShape DEF Arms
<1> HIDE DEF Top, Arm, ArmsOf
<1>3. Stmt(Top.name).kind = "if" /\ IsIfChain(ArmsOf(Top))
  BY <1>1 DEF IsCaseChain
<1> HIDE DEF Top, Arm, ArmsOf
<1> QED
  BY <1>1, <1>2, <1>3, IfChainArm DEF Timed

\* The frame after an arm, in terms of the one before.
LEMMA AfterArm ==
    ASSUME TypeInv, NEW kind, AtArm(kind), NEW prev \in SUBSET Guards
    PROVE  /\ Past(prev).name = Top.name /\ Past(prev).next = Top.next + 1
           /\ Past(prev).prev = prev /\ ArmsOf(Past(prev)) = ArmsOf(Top)
           /\ Top.kind = "chain" /\ Top.next \in Nat
           /\ Top.prev \in SUBSET Guards
           /\ Top.base.holds \subseteq Points
           /\ \A j \in DOMAIN ArmsOf(Top) :
                 j < Top.next + 1 => j < Top.next \/ j = Top.next
           /\ \A j \in DOMAIN ArmsOf(Top) : j < Top.next => j < Top.next + 1
           /\ Top.next < Top.next + 1
<1>1. /\ Top \in ChainFrames /\ Arm \in Arms /\ Stmt(Top.name) \in Chains
  BY ArmShape
<1>2. /\ Past(prev).name = Top.name /\ Past(prev).next = Top.next + 1
      /\ Past(prev).prev = prev
  BY <1>1, PastShape
<1>3. DOMAIN ArmsOf(Top) = 1..Len(ArmsOf(Top)) /\ Len(ArmsOf(Top)) \in Nat
  BY <1>1, LenProperties DEF Chains, ArmsOf
<1>4. /\ Top.kind = "chain" /\ Top.next \in Nat
      /\ Top.prev \in SUBSET Guards /\ Top.base.holds \subseteq Points
  BY <1>1 DEF ChainFrames, Conditions
<1>5. ArmsOf(Past(prev)) = ArmsOf(Top)
  BY <1>2 DEF ArmsOf
<1> HIDE DEF Past, Top, ArmsOf
<1> QED
  BY <1>2, <1>3, <1>4, <1>5

\* Outside of reset, what escaped the guards that are not timed is reached.
LEMMA Reached ==
    ASSUME TypeInv, AllRegular, FrameExact(Top),
           NEW kind \in {"else if", "else"}, AtArm(kind),
           NEW p \in Top.base.holds \cap Quiet,
           \A j \in DOMAIN ArmsOf(Top) :
              j < Top.next => Timed(Top, j) \/ p \notin ArmsOf(Top)[j].guard.holds
    PROVE  p \in Top.reach
<1>1. ReachExact(Top)
  <2>1. Top.kind = "chain"
    BY ArmShape DEF ChainFrames
  <2> QED
    BY <2>1 DEF FrameExact
<1>2. \A j \in DOMAIN ArmsOf(Top) :
         Timed(Top, j) => ArmsOf(Top)[j].guard.holds \cap Quiet = {}
  BY IfChainBefore
<1> HIDE DEF Top, ArmsOf
<1> QED
  BY <1>1, <1>2 DEF ReachExact

LEMMA ElseIfArmExact ==
    ASSUME TypeInv, AllRegular, FrameExact(Top), AtArm("else if")
    PROVE  /\ Top.prev = {} => PrevExact(Past(Top.prev))
           /\ Top.prev = {} /\ ~Arm.guard.timed =>
                Top.base.holds \cap Arm.guard.holds \cap Quiet
                  \subseteq Top.reach \cap Arm.guard.holds
           /\ Top.prev # {} =>
                /\ PrevExact(Past(Top.prev \cup {Arm.guard}))
                /\ Top.base.holds \cap (NoneOf(Top.prev) \cap Arm.guard.holds) \cap Quiet
                     \subseteq Top.reach \cap Arm.guard.holds
<1>1. /\ Stmt(Top.name).kind = "if" /\ Regular(ArmsOf(Top))
      /\ Top.next \in DOMAIN ArmsOf(Top) /\ Arm = ArmsOf(Top)[Top.next]
      /\ Arm.kind = "else if" /\ Arm.guard \in Guards
      /\ 1 \in DOMAIN ArmsOf(Top) /\ 1 < Top.next /\ ArmsOf(Top)[1].kind = "if"
      /\ \A j \in DOMAIN ArmsOf(Top) : j < Top.next => ArmsOf(Top)[j].kind # "else"
  BY IfChainBefore
<1>2. /\ Top.kind = "chain" /\ Top.next \in Nat /\ Top.prev \in SUBSET Guards
      /\ \A j \in DOMAIN ArmsOf(Top) :
            j < Top.next + 1 => j < Top.next \/ j = Top.next
      /\ \A j \in DOMAIN ArmsOf(Top) : j < Top.next => j < Top.next + 1
      /\ Top.next < Top.next + 1 /\ Top.base.holds \subseteq Points
  BY AfterArm
<1>3. ASSUME NEW prev \in SUBSET Guards
      PROVE  /\ Past(prev).name = Top.name /\ Past(prev).next = Top.next + 1
             /\ Past(prev).prev = prev /\ ArmsOf(Past(prev)) = ArmsOf(Top)
  BY AfterArm
<1>4. PrevExact(Top)
  BY <1>2 DEF FrameExact
<1>5. ASSUME NEW p \in Top.base.holds \cap Quiet,
             \A j \in DOMAIN ArmsOf(Top) :
                j < Top.next => Timed(Top, j) \/ p \notin ArmsOf(Top)[j].guard.holds
      PROVE  p \in Top.reach
  BY <1>5, Reached
<1>6. \A prev \in SUBSET Guards : \A j : Timed(Past(prev), j) <=> Timed(Top, j)
  BY <1>3 DEF Timed
<1>7. Timed(Top, Top.next) <=> Arm.guard.timed
  BY <1>1 DEF Timed
<1> HIDE DEF Past, Top, Arm, ArmsOf, Timed
<1>8. CASE Top.prev = {}
  <2>1. CASE \A j \in DOMAIN ArmsOf(Top) : j < Top.next => Timed(Top, j)
    <3>1. ASSUME ~Arm.guard.timed
          PROVE  Top.base.holds \cap Arm.guard.holds \cap Quiet
                    \subseteq Top.reach \cap Arm.guard.holds
      BY <1>5, <2>1
    <3>2. ASSUME Arm.guard.timed
          PROVE  \A j \in DOMAIN ArmsOf(Top) : j < Top.next + 1 => Timed(Top, j)
      BY <1>2, <1>7, <2>1, <3>2
    <3>3. ASSUME ~Arm.guard.timed
          PROVE  \A i \in DOMAIN ArmsOf(Top) : ~Timed(Top, i) => i = Top.next
      <4>1. Timed(Top, 1)
        BY <1>1, <2>1
      <4>2. \/ \A j, k \in DOMAIN ArmsOf(Top) : ~Timed(Top, j) /\ ~Timed(Top, k) => j = k
            \/ \A j \in DOMAIN ArmsOf(Top) : j > 1 => ArmsOf(Top)[j].kind # "else if"
        BY <1>1, <4>1 DEF Regular, Timed
      <4>3. Top.next > 1
        BY <1>1
      <4> QED
        BY <1>1, <1>7, <3>3, <4>2, <4>3
    <3>4. PrevExact(Past({}))
      BY <1>1, <1>2, <1>3, <1>6, <3>2, <3>3 DEF PrevExact
    <3> QED
      BY <1>8, <3>1, <3>4
  <2>2. CASE \E j \in DOMAIN ArmsOf(Top) :
               /\ j < Top.next
               /\ \A i \in DOMAIN ArmsOf(Top) : ~Timed(Top, i) => i = j
    <3>1. PICK j \in DOMAIN ArmsOf(Top) :
               /\ j < Top.next
               /\ \A i \in DOMAIN ArmsOf(Top) : ~Timed(Top, i) => i = j
      BY <2>2
    <3>2. Arm.guard.timed
      <4>1. ~(Top.next < Top.next)
        BY <1>2, Irreflexive, Zenon
      <4>2. j # Top.next
        BY <3>1, <4>1
      <4> QED
        BY <1>1, <1>7, <3>1, <4>2
    <3>3. j < Top.next + 1
      BY <1>2, <3>1
    <3>4. PrevExact(Past({}))
      BY <1>1, <1>3, <1>6, <3>1, <3>3 DEF PrevExact
    <3> QED
      BY <1>8, <3>2, <3>4
  <2> QED
    BY <1>1, <1>4, <1>8, <2>1, <2>2 DEF PrevExact
<1>9. CASE Top.prev # {}
  <2>1. \A j \in DOMAIN ArmsOf(Top) :
           j < Top.next => ArmsOf(Top)[j].guard \in Top.prev \/ Timed(Top, j)
    BY <1>1, <1>4, <1>9 DEF PrevExact
  <2>2. Top.base.holds \cap (NoneOf(Top.prev) \cap Arm.guard.holds) \cap Quiet
          \subseteq Top.reach \cap Arm.guard.holds
    BY <1>5, <2>1 DEF NoneOf
  <2> DEFINE seen == Top.prev \cup {Arm.guard}
  <2>3. seen \in SUBSET Guards /\ seen # {}
    BY <1>1, <1>2
  <2>4. \A j \in DOMAIN ArmsOf(Top) :
           j < Top.next + 1 => ArmsOf(Top)[j].guard \in seen \/ Timed(Top, j)
    BY <1>1, <1>2, <2>1
  <2> HIDE DEF seen
  <2>5. PrevExact(Past(seen))
    <3> DEFINE f == Past(seen)
    <3>1. /\ Stmt(f.name).kind = "if" /\ f.next = Top.next + 1
          /\ f.prev = seen /\ ArmsOf(f) = ArmsOf(Top)
          /\ \A j : Timed(f, j) <=> Timed(Top, j)
      BY <1>1, <1>3, <1>6, <2>3
    <3> HIDE DEF f
    <3>2. PrevExact(f)
      BY <2>3, <2>4, <3>1 DEF PrevExact
    <3> QED
      BY <3>2 DEF f
  <2> QED
    BY <1>9, <2>2, <2>5 DEF seen
<1> QED
  BY <1>8, <1>9

LEMMA ElseArmExact ==
    ASSUME TypeInv, AllRegular, FrameExact(Top), AtArm("else")
    PROVE  /\ PrevExact(Past(Top.prev))
           /\ Top.prev = {} =>
                Top.base.holds \cap Quiet \subseteq Top.reach \cap Arm.guard.holds
           /\ Top.base.holds \cap NoneOf(Top.prev) \cap Quiet
                \subseteq Top.reach \cap Arm.guard.holds \/ Top.prev = {}
<1>1. /\ Stmt(Top.name).kind = "if"
      /\ Top.next \in DOMAIN ArmsOf(Top) /\ Arm = ArmsOf(Top)[Top.next]
      /\ Arm.kind = "else" /\ ~Arm.guard.timed /\ Arm.guard.holds = Points
      /\ \A j \in DOMAIN ArmsOf(Top) : j < Top.next => ArmsOf(Top)[j].kind # "else"
  BY IfChainBefore
<1>2. /\ Top.kind = "chain" /\ Top.next \in Nat /\ Top.prev \in SUBSET Guards
      /\ \A j \in DOMAIN ArmsOf(Top) :
            j < Top.next + 1 => j < Top.next \/ j = Top.next
      /\ \A j \in DOMAIN ArmsOf(Top) : j < Top.next => j < Top.next + 1
      /\ Top.base.holds \subseteq Points
  BY AfterArm
<1>3. /\ Past(Top.prev).name = Top.name /\ Past(Top.prev).next = Top.next + 1
      /\ Past(Top.prev).prev = Top.prev /\ ArmsOf(Past(Top.prev)) = ArmsOf(Top)
  BY <1>2, AfterArm
<1>4. PrevExact(Top)
  BY <1>2 DEF FrameExact
<1>5. ASSUME NEW p \in Top.base.holds \cap Quiet,
             \A j \in DOMAIN ArmsOf(Top) :
                j < Top.next => Timed(Top, j) \/ p \notin ArmsOf(Top)[j].guard.holds
      PROVE  p \in Top.reach
  BY <1>5, Reached
<1>6. \A j : Timed(Past(Top.prev), j) <=> Timed(Top, j)
  BY <1>3 DEF Timed
<1>7. ~Timed(Top, Top.next)
  BY <1>1 DEF Timed
<1> DEFINE f == Past(Top.prev)
<1>8. /\ f.name = Top.name /\ f.next = Top.next + 1
      /\ f.prev = Top.prev /\ ArmsOf(f) = ArmsOf(Top)
      /\ \A j : Timed(f, j) <=> Timed(Top, j)
  BY <1>3, <1>6
<1> HIDE DEF f, Past, Top, Arm, ArmsOf, Timed
<1>9. PrevExact(f)
  BY <1>1, <1>2, <1>4, <1>8 DEF PrevExact
<1>10. CASE Top.prev = {}
  <2>1. \A j \in DOMAIN ArmsOf(Top) : j < Top.next => Timed(Top, j)
    <3>1. ASSUME NEW j \in DOMAIN ArmsOf(Top), j < Top.next,
                 \A i \in DOMAIN ArmsOf(Top) : ~Timed(Top, i) => i = j
          PROVE  FALSE
      <4>1. ~(Top.next < Top.next)
        BY <1>2, Irreflexive, Zenon
      <4>2. j # Top.next
        BY <3>1, <4>1
      <4> QED
        BY <1>1, <1>7, <3>1, <4>2
    <3> QED
      BY <1>1, <1>4, <1>10, <3>1 DEF PrevExact
  <2> QED
    BY <1>1, <1>2, <1>5, <1>9, <1>10, <2>1 DEF f
<1>11. CASE Top.prev # {}
  <2>1. \A j \in DOMAIN ArmsOf(Top) :
           j < Top.next => ArmsOf(Top)[j].guard \in Top.prev \/ Timed(Top, j)
    BY <1>1, <1>4, <1>11 DEF PrevExact
  <2>2. Top.base.holds \cap NoneOf(Top.prev) \cap Quiet
          \subseteq Top.reach \cap Arm.guard.holds
    BY <1>1, <1>2, <1>5, <2>1 DEF NoneOf
  <2> QED
    BY <1>9, <1>11, <2>2 DEF f
<1> QED
  BY <1>10, <1>11

\* What is before an arm of a `case'.
LEMMA CaseBefore ==
    ASSUME TypeInv, AllRegular, NEW kind \in {"label", "default"}, AtArm(kind)
    PROVE  /\ Stmt(Top.name).kind = "case" /\ IsCaseChain(ArmsOf(Top))
           /\ Top.next \in DOMAIN ArmsOf(Top) /\ Arm = ArmsOf(Top)[Top.next]
           /\ Arm.kind = kind /\ Arm.guard \in Guards
           /\ \A j \in DOMAIN ArmsOf(Top) : j < Top.next => j # Top.next
           /\ kind = "default" =>
                \A j \in DOMAIN ArmsOf(Top) :
                   j # Top.next => j < Top.next /\ ArmsOf(Top)[j].kind = "label"
<1>1. /\ Stmt(Top.name).kind \in {"if", "case"}
      /\ Stmt(Top.name).kind = "if" => IsIfChain(ArmsOf(Top))
      /\ Stmt(Top.name).kind = "case" => IsCaseChain(ArmsOf(Top))
      /\ Regular(ArmsOf(Top))
      /\ Top.next \in DOMAIN ArmsOf(Top)
      /\ Arm = ArmsOf(Top)[Top.next] /\ Arm.kind = kind
      /\ DOMAIN ArmsOf(Top) = 1..Len(ArmsOf(Top)) /\ Len(ArmsOf(Top)) \in Nat
  BY ChainShape
<1>2. Arm.guard \in Guards
  BY ArmShape DEF Arms
<1> DEFINE i == Top.next
           n == Len(ArmsOf(Top))
<1>3. n \in Nat /\ i \in 1..n /\ DOMAIN ArmsOf(Top) = 1..n
  BY <1>1
<1> HIDE DEF Top, Arm, ArmsOf
<1>4. Stmt(Top.name).kind = "case" /\ IsCaseChain(ArmsOf(Top))
  BY <1>1 DEF IsIfChain
<1>5. kind = "default" => i = n
  BY <1>1 DEF Regular
<1>6. kind = "default" => \A j \in DOMAIN ArmsOf(Top) \ {i} : ArmsOf(Top)[j].kind = "label"
  BY <1>1, <1>4 DEF IsCaseChain
<1> HIDE DEF i, n
<1>7. /\ \A j \in 1..n : j < i => j # i
      /\ i = n => \A j \in 1..n : j # i => j < i
  BY <1>3
<1> QED
  BY <1>1, <1>2, <1>3, <1>4, <1>5, <1>6, <1>7 DEF i

LEMMA CaseLabelExact ==
    ASSUME TypeInv, AllRegular, FrameExact(Top), AtArm("label")
    PROVE  /\ PrevExact(Past(Top.prev \cup {Arm.guard}))
           /\ Top.base.holds \cap Arm.guard.holds \cap Quiet
                \subseteq Top.reach \cap Arm.guard.holds
<1>1. /\ Stmt(Top.name).kind = "case" /\ IsCaseChain(ArmsOf(Top))
      /\ Top.next \in DOMAIN ArmsOf(Top) /\ Arm = ArmsOf(Top)[Top.next]
      /\ Arm.guard \in Guards
      /\ \A j \in DOMAIN ArmsOf(Top) : j < Top.next => j # Top.next
  BY CaseBefore
<1>2. /\ Top.kind = "chain" /\ Top.prev \in SUBSET Guards
      /\ \A j \in DOMAIN ArmsOf(Top) :
            j < Top.next + 1 => j < Top.next \/ j = Top.next
  BY AfterArm
<1> DEFINE seen == Top.prev \cup {Arm.guard}
           f == Past(seen)
<1>3. seen \in SUBSET Guards
  BY <1>1, <1>2
<1>4. /\ f.name = Top.name /\ f.next = Top.next + 1
      /\ f.prev = seen /\ ArmsOf(f) = ArmsOf(Top)
  BY <1>3, AfterArm
<1>5. PrevExact(Top) /\ ReachExact(Top)
  BY <1>2 DEF FrameExact
<1> HIDE DEF f, Past, Top, Arm, ArmsOf
<1>6. \A j \in DOMAIN ArmsOf(Top) :
         j < Top.next => ArmsOf(Top)[j].guard.holds \cap Arm.guard.holds = {}
  BY <1>1 DEF IsCaseChain
<1>7. Top.base.holds \cap Arm.guard.holds \cap Quiet
         \subseteq Top.reach \cap Arm.guard.holds
  BY <1>5, <1>6 DEF ReachExact
<1>8. PrevExact(f)
  BY <1>1, <1>2, <1>4, <1>5 DEF PrevExact
<1> QED
  BY <1>7, <1>8 DEF f

LEMMA CaseDefaultExact ==
    ASSUME TypeInv, AllRegular, FrameExact(Top), AtArm("default")
    PROVE  /\ PrevExact(Past(Top.prev))
           /\ Top.base.holds \cap NoneOf(Top.prev) \cap Quiet
                \subseteq Top.reach \cap Arm.guard.holds
<1>1. /\ Stmt(Top.name).kind = "case" /\ IsCaseChain(ArmsOf(Top))
      /\ Top.next \in DOMAIN ArmsOf(Top) /\ Arm = ArmsOf(Top)[Top.next]
      /\ Arm.kind = "default"
      /\ \A j \in DOMAIN ArmsOf(Top) : j < Top.next => j # Top.next
      /\ \A j \in DOMAIN ArmsOf(Top) :
            j # Top.next => j < Top.next /\ ArmsOf(Top)[j].kind = "label"
  BY CaseBefore
<1>2. /\ Top.kind = "chain" /\ Top.prev \in SUBSET Guards
      /\ Top.base.holds \subseteq Points
      /\ \A j \in DOMAIN ArmsOf(Top) :
            j < Top.next + 1 => j < Top.next \/ j = Top.next
  BY AfterArm
<1> DEFINE f == Past(Top.prev)
<1>4. /\ f.name = Top.name /\ f.next = Top.next + 1
      /\ f.prev = Top.prev /\ ArmsOf(f) = ArmsOf(Top)
  BY <1>2, AfterArm
<1>5. PrevExact(Top) /\ ReachExact(Top)
  BY <1>2 DEF FrameExact
<1> HIDE DEF f, Past, Top, Arm, ArmsOf
<1>6. ASSUME NEW p \in Top.base.holds \cap NoneOf(Top.prev) \cap Quiet
      PROVE  p \in Top.reach \cap Arm.guard.holds
  <2>1. \A j \in DOMAIN ArmsOf(Top) : j # Top.next => ArmsOf(Top)[j].guard \in Top.prev
    BY <1>1, <1>5 DEF PrevExact
  <2>2. \A j \in DOMAIN ArmsOf(Top) : j # Top.next => p \notin ArmsOf(Top)[j].guard.holds
    BY <2>1 DEF NoneOf
  <2>3. p \in Top.reach
    BY <1>1, <1>5, <2>2 DEF ReachExact
  <2>4. p \in Arm.guard.holds
    BY <1>1, <1>2, <2>2 DEF IsCaseChain
  <2> QED
    BY <2>3, <2>4
<1>7. PrevExact(f)
  BY <1>1, <1>2, <1>4, <1>5 DEF PrevExact
<1> QED
  BY <1>6, <1>7 DEF f
-----------------------------------------------------------------------------
(* The theorem about exactness.                                              *)

LEMMA SkipExact ==
    ASSUME TypeInv, ExactInv, NEW kind, AtArm(kind), NEW prev \in SUBSET Guards,
           AllRegular => PrevExact(Past(prev)),
           SkipArm(prev)
    PROVE  ExactInv'
<1>1. Elements(stack') \subseteq {Past(prev)} \cup Elements(stack)
  BY SkipShape
<1>2. program' = program /\ asgs' = asgs
  BY DEF SkipArm
<1>3. Top \in Elements(stack)
  BY ArmShape
<1>4. AllRegular => FrameExact(Past(prev))
  BY <1>3, PastExact DEF ExactInv
<1> QED
  BY <1>1, <1>2, <1>4, KeepsExact

LEMMA DescendKeepsExact ==
    ASSUME TypeInv, ExactInv, NEW kind, AtArm(kind), NEW c \in Conditions,
           NEW prev \in SUBSET Guards,
           AllRegular =>
             /\ PrevExact(Past(prev))
             /\ Top.base.holds \cap c.holds \cap Quiet
                  \subseteq Top.reach \cap Arm.guard.holds,
           Descend(c, prev)
    PROVE  ExactInv'
<1>1. Elements(stack') \subseteq {DescendTo(c), Past(prev)} \cup Elements(stack)
  BY DescendShape
<1>2. program' = program /\ asgs' = asgs
  BY DEF Descend
<1>3. Top \in Elements(stack)
  BY ArmShape
<1>4. AllRegular => FrameExact(Past(prev))
  BY <1>3, PastExact DEF ExactInv
<1>5. AllRegular => FrameExact(DescendTo(c))
  BY <1>3, DescendExact DEF ExactInv
<1> QED
  BY <1>1, <1>2, <1>4, <1>5, KeepsExact

LEMMA ArmsExact ==
    ASSUME TypeInv, CoverInv, ExactInv,
           \/ IfArm \/ ElseIfArm \/ ElseArm \/ CaseLabel \/ CaseDefault
    PROVE  ExactInv'
<1>1. ASSUME NEW kind, AtArm(kind)
      PROVE  /\ Top.prev \in SUBSET Guards
             /\ Top.prev \cup {Arm.guard} \in SUBSET Guards
             /\ Expression(Arm.guard.holds) \in Conditions
             /\ Expression(Arm.guard.holds).holds = Arm.guard.holds
             /\ Expression(NoneOf(Top.prev)) \in Conditions
             /\ Expression(NoneOf(Top.prev)).holds = NoneOf(Top.prev)
             /\ Expression(NoneOf(Top.prev) \cap Arm.guard.holds) \in Conditions
             /\ Expression(NoneOf(Top.prev) \cap Arm.guard.holds).holds
                  = NoneOf(Top.prev) \cap Arm.guard.holds
             /\ AllRegular => FrameExact(Top)
  <2>1. Top \in Elements(stack)
    BY <1>1, ArmShape
  <2>2. AllRegular => FrameExact(Top)
    BY <2>1 DEF ExactInv
  <2> QED
    BY <1>1, <2>2, ReachEscapes, ExpressionHolds
<1>2. CASE IfArm
  <2>1. AtArm("if")
    BY <1>2 DEF IfArm
  <2>2. CASE Arm.guard.timed
    <3>1. SkipArm(Top.prev)
      BY <1>2, <2>2 DEF IfArm
    <3>2. AllRegular => PrevExact(Past(Top.prev))
      BY <1>1, <2>1, <2>2, IfArmExact
    <3> QED
      BY <1>1, <2>1, <3>1, <3>2, SkipExact
  <2>3. CASE ~Arm.guard.timed
    <3>1. Descend(Expression(Arm.guard.holds), Top.prev \cup {Arm.guard})
      BY <1>2, <2>3 DEF IfArm
    <3>2. AllRegular =>
            /\ PrevExact(Past(Top.prev \cup {Arm.guard}))
            /\ Top.base.holds \cap Arm.guard.holds \cap Quiet
                 \subseteq Top.reach \cap Arm.guard.holds
      BY <1>1, <2>1, <2>3, IfArmExact
    <3> HIDE DEF Past, Top, Arm, PrevExact
    <3> QED
      BY <1>1, <2>1, <3>1, <3>2, DescendKeepsExact
  <2> QED
    BY <2>2, <2>3
<1>3. CASE ElseIfArm
  <2>1. AtArm("else if")
    BY <1>3 DEF ElseIfArm
  <2>2. CASE Top.prev = {} /\ Arm.guard.timed
    <3>1. SkipArm(Top.prev)
      BY <1>3, <2>2 DEF ElseIfArm
    <3> QED
      BY <1>1, <2>1, <2>2, <3>1, SkipExact, ElseIfArmExact
  <2>3. CASE Top.prev = {} /\ ~Arm.guard.timed
    <3>1. Descend(Expression(Arm.guard.holds), Top.prev)
      BY <1>3, <2>3 DEF ElseIfArm
    <3>2. AllRegular =>
            /\ PrevExact(Past(Top.prev))
            /\ Top.base.holds \cap Arm.guard.holds \cap Quiet
                 \subseteq Top.reach \cap Arm.guard.holds
      BY <1>1, <2>1, <2>3, ElseIfArmExact
    <3> HIDE DEF Past, Top, Arm, PrevExact
    <3> QED
      BY <1>1, <2>1, <3>1, <3>2, DescendKeepsExact
  <2>4. CASE Top.prev # {} /\ \E g \in Top.prev \cup {Arm.guard} : g.timed
    <3>1. SkipArm(Top.prev \cup {Arm.guard})
      BY <1>3, <2>4 DEF ElseIfArm
    <3>2. AllRegular => PrevExact(Past(Top.prev \cup {Arm.guard}))
      BY <1>1, <2>1, <2>4, ElseIfArmExact
    <3> HIDE DEF Past, Top, Arm, PrevExact
    <3> QED
      BY <1>1, <2>1, <3>1, <3>2, SkipExact
  <2>5. CASE Top.prev # {} /\ ~\E g \in Top.prev \cup {Arm.guard} : g.timed
    <3>1. Descend(Expression(NoneOf(Top.prev) \cap Arm.guard.holds),
                  Top.prev \cup {Arm.guard})
      BY <1>3, <2>5 DEF ElseIfArm
    <3>2. AllRegular =>
            /\ PrevExact(Past(Top.prev \cup {Arm.guard}))
            /\ Top.base.holds \cap (NoneOf(Top.prev) \cap Arm.guard.holds) \cap Quiet
                 \subseteq Top.reach \cap Arm.guard.holds
      BY <1>1, <2>1, <2>5, ElseIfArmExact
    <3> HIDE DEF Past, Top, Arm, PrevExact, NoneOf
    <3> QED
      BY <1>1, <2>1, <3>1, <3>2, DescendKeepsExact
  <2> QED
    BY <2>2, <2>3, <2>4, <2>5
<1>4. CASE ElseArm
  <2>1. AtArm("else")
    BY <1>4 DEF ElseArm
  <2>2. CASE Top.prev = {}
    <3>1. Descend(NoCondition, Top.prev)
      BY <1>4, <2>2 DEF ElseArm
    <3>2. NoCondition \in Conditions /\ NoCondition.holds = Points
      BY NoConditionHolds
    <3>3. AllRegular =>
            /\ PrevExact(Past(Top.prev))
            /\ Top.base.holds \cap NoCondition.holds \cap Quiet
                 \subseteq Top.reach \cap Arm.guard.holds
      BY <1>1, <2>1, <2>2, <3>2, ElseArmExact
    <3> HIDE DEF Past, Top, Arm, PrevExact, NoCondition
    <3> QED
      BY <1>1, <2>1, <3>1, <3>2, <3>3, DescendKeepsExact
  <2>3. CASE Top.prev # {}
    <3>1. Descend(Expression(NoneOf(Top.prev)), Top.prev)
      BY <1>4, <2>3 DEF ElseArm
    <3>2. AllRegular =>
            /\ PrevExact(Past(Top.prev))
            /\ Top.base.holds \cap NoneOf(Top.prev) \cap Quiet
                 \subseteq Top.reach \cap Arm.guard.holds
      BY <1>1, <2>1, <2>3, ElseArmExact
    <3> HIDE DEF Past, Top, Arm, PrevExact, NoneOf
    <3> QED
      BY <1>1, <2>1, <3>1, <3>2, DescendKeepsExact
  <2> QED
    BY <2>2, <2>3
<1>5. CASE CaseLabel
  <2>1. AtArm("label") /\ Descend(Expression(Arm.guard.holds), Top.prev \cup {Arm.guard})
    BY <1>5 DEF CaseLabel
  <2>2. AllRegular =>
          /\ PrevExact(Past(Top.prev \cup {Arm.guard}))
          /\ Top.base.holds \cap Arm.guard.holds \cap Quiet
               \subseteq Top.reach \cap Arm.guard.holds
    BY <1>1, <2>1, CaseLabelExact
  <2> HIDE DEF Past, Top, Arm, PrevExact
  <2> QED
    BY <1>1, <2>1, <2>2, DescendKeepsExact
<1>6. CASE CaseDefault
  <2>1. AtArm("default") /\ Descend(Expression(NoneOf(Top.prev)), Top.prev)
    BY <1>6 DEF CaseDefault
  <2>2. AllRegular =>
          /\ PrevExact(Past(Top.prev))
          /\ Top.base.holds \cap NoneOf(Top.prev) \cap Quiet
               \subseteq Top.reach \cap Arm.guard.holds
    BY <1>1, <2>1, CaseDefaultExact
  <2> HIDE DEF Past, Top, Arm, PrevExact, NoneOf
  <2> QED
    BY <1>1, <2>1, <2>2, DescendKeepsExact
<1> QED
  BY <1>2, <1>3, <1>4, <1>5, <1>6

LEMMA InitExact == Init => ExactInv
<1> SUFFICES ASSUME Init PROVE ExactInv
  OBVIOUS
<1> DEFINE f == [kind |-> "body", body |-> program.top, next |-> 1,
                 base |-> NoCondition, reach |-> Points]
<1>1. FrameExact(f)
  BY NoConditionHolds DEF FrameExact
<1>2. stack = <<f>> /\ asgs = {}
  BY DEF Init
<1> HIDE DEF f
<1>3. Elements(stack) = {f}
  BY <1>2 DEF Elements
<1> QED
  BY <1>1, <1>2, <1>3 DEF ExactInv

LEMMA NextExact == TypeInv /\ CoverInv /\ ExactInv /\ [Next]_vars => ExactInv'
<1> SUFFICES ASSUME TypeInv, CoverInv, ExactInv, [Next]_vars PROVE ExactInv'
  OBVIOUS
<1>1. ASSUME InBody
      PROVE  /\ Top.kind = "body" /\ Advance(Top).base = Top.base
             /\ Advance(Top).reach = Top.reach /\ Advance(Top).kind = "body"
             /\ AllRegular => Top.base.holds \cap Quiet \subseteq Top.reach
  BY <1>1, HereShape DEF ExactInv, FrameExact, BodyFrames
<1>2. ASSUME InBody PROVE AllRegular => FrameExact(Advance(Top))
  BY <1>1, <1>2 DEF FrameExact
<1>3. CASE Collect
  <2>1. InBody /\ program' = program /\ asgs' = asgs \cup {Collected}
    BY <1>3 DEF Collect, Collected
  <2>2. AllRegular => Collected.cond.holds \cap Quiet \subseteq Collected.reach
    BY <1>1, <2>1 DEF Collected
  <2> HIDE DEF Advance, Collected, FrameExact
  <2> QED
    BY <1>2, <1>3, <2>1, <2>2, CollectTypeInv, KeepsExact
<1>4. CASE EnterChain
  <2>1. InBody /\ program' = program /\ asgs' = asgs
    BY <1>4 DEF EnterChain
  <2>2. AllRegular => FrameExact(Entered)
    <3>1. Stmt(Here) \in Chains
      BY <1>4, <2>1, HereShape, ProgramShape DEF TypeInv, TypeOK, EnterChain
    <3>2. \A j \in DOMAIN Stmt(Here).arms : ~(j < 1)
      BY <3>1, LenProperties DEF Chains
    <3>3. /\ Entered.kind = "chain" /\ Entered.name = Here /\ Entered.next = 1
          /\ Entered.base = Top.base /\ Entered.prev = {} /\ Entered.reach = Top.reach
      BY DEF Entered
    <3>4. ArmsOf(Entered) = Stmt(Here).arms
      BY <3>3 DEF ArmsOf
    <3> HIDE DEF Entered, Top, Here, ArmsOf
    <3>5. AllRegular => ReachExact(Entered)
      BY <1>1, <2>1, <3>3 DEF ReachExact
    <3>6. PrevExact(Entered)
      BY <3>2, <3>3, <3>4 DEF PrevExact
    <3> QED
      BY <3>3, <3>5, <3>6 DEF FrameExact
  <2> HIDE DEF Advance, Entered, FrameExact
  <2> QED
    BY <1>2, <1>4, <2>1, <2>2, EnterTypeInv, KeepsExact
<1>5. CASE Leave
  <2>1. program' = program /\ asgs' = asgs
    BY <1>5 DEF Leave
  <2> QED
    BY <1>5, <2>1, LeaveTypeInv, KeepsExact
<1>6. CASE IfArm \/ ElseIfArm \/ ElseArm \/ CaseLabel \/ CaseDefault
  BY <1>6, ArmsExact
<1>7. CASE OnlyBits /\ UNCHANGED <<program, stack>>
  BY <1>7, KeepsExact DEF OnlyBits
<1> QED
  BY <1>3, <1>4, <1>5, <1>6, <1>7, OtherSteps DEF Next

\* ConditionIsReach holds of every run, for any set of modules: outside of
\* reset, and where chains are regular, an assignment's condition is true at
\* exactly the points at which the source executes it.
THEOREM ConditionsExact == Spec => []ConditionIsReach
<1>1. CoverInv /\ ExactInv => ConditionIsReach
  BY DEF CoverInv, ExactInv, ConditionCoversReach, ConditionIsReach
<1> QED
  BY <1>1, InitTypeInv, NextTypeInv, InitCovers, NextCovers, InitExact, NextExact,
     PTL DEF Spec
-----------------------------------------------------------------------------
(* The walk is an execution.  What the source executes at a point is the     *)
(* least set that is closed under ClosedAt, so no induction over the nesting *)
(* of statements is needed.                                                  *)

NamesIn(s) == {s[k] : k \in DOMAIN s}

\* the statements that the chain n, once executed, adds at p
Choice(p, n) ==
    {m \in Names : \E i \in DOMAIN Stmt(n).arms :
        Chosen(Stmt(n).arms, i, p) /\ m \in NamesIn(Stmt(n).arms[i].body)}

LEMMA BodiesAreNames ==
    ASSUME program \in Programs, NEW n \in Names, Stmt(n).kind # "assign",
           NEW i \in DOMAIN Stmt(n).arms
    PROVE  Stmt(n).arms[i] \in Arms /\ NamesIn(Stmt(n).arms[i].body) \subseteq Names
<1>1. Stmt(n) \in Chains
  BY ProgramShape
<1>2. Stmt(n).arms \in Seq(Arms)
  BY <1>1 DEF Chains
<1>3. Stmt(n).arms[i] \in Arms
  BY <1>2, ElementOfSeq, LenProperties
<1>4. Stmt(n).arms[i].body \in Seq(Names)
  BY <1>3 DEF Arms
<1> QED
  BY <1>3, <1>4, ElementOfSeq, LenProperties DEF NamesIn

\* Closed sets, in terms of Choice.
LEMMA ClosedByChoice ==
    ASSUME program \in Programs, NEW p, NEW U \in SUBSET Names
    PROVE  ClosedAt(p, U) <=>
             \A n \in U : Stmt(n).kind # "assign" => Choice(p, n) \subseteq U
<1>1. ASSUME ClosedAt(p, U), NEW n \in U, Stmt(n).kind # "assign"
      PROVE  Choice(p, n) \subseteq U
  BY <1>1 DEF ClosedAt, Choice, NamesIn
<1>2. ASSUME \A n \in U : Stmt(n).kind # "assign" => Choice(p, n) \subseteq U
      PROVE  ClosedAt(p, U)
  <2>1. ASSUME NEW n \in U, Stmt(n).kind # "assign",
               NEW i \in DOMAIN Stmt(n).arms, Chosen(Stmt(n).arms, i, p),
               NEW k \in DOMAIN Stmt(n).arms[i].body
        PROVE  Stmt(n).arms[i].body[k] \in U
    <3>1. Stmt(n).arms[i].body[k] \in NamesIn(Stmt(n).arms[i].body)
      BY DEF NamesIn
    <3>2. Stmt(n).arms[i].body[k] \in Names
      BY <2>1, <3>1, BodiesAreNames
    <3>3. Stmt(n).arms[i].body[k] \in Choice(p, n)
      BY <2>1, <3>1, <3>2 DEF Choice
    <3> QED
      BY <1>2, <2>1, <3>3
  <2> QED
    BY <2>1 DEF ClosedAt
<1> QED
  BY <1>1, <1>2

LEMMA ExecutedGrows ==
    ASSUME NEW p, NEW N, NEW M, N \subseteq M
    PROVE  ExecutedWith(p, N) \subseteq ExecutedWith(p, M)
BY DEF ExecutedWith

LEMMA ExecutedIsClosed ==
    ASSUME program \in Programs, NEW p, NEW N \in SUBSET Names
    PROVE  /\ ExecutedWith(p, N) \subseteq Names
           /\ N \subseteq ExecutedWith(p, N)
           /\ \A n \in ExecutedWith(p, N) :
                Stmt(n).kind # "assign" => Choice(p, n) \subseteq ExecutedWith(p, N)
<1>1. ExecutedWith(p, N) \subseteq Names /\ N \subseteq ExecutedWith(p, N)
  BY DEF ExecutedWith
<1>2. ASSUME NEW n \in ExecutedWith(p, N), Stmt(n).kind # "assign", NEW m \in Choice(p, n)
      PROVE  m \in ExecutedWith(p, N)
  <2>1. m \in Names
    BY DEF Choice
  <2>2. ASSUME NEW U \in SUBSET Names, N \subseteq U, ClosedAt(p, U)
        PROVE  m \in U
    <3>1. n \in U
      BY <1>2, <2>2 DEF ExecutedWith
    <3> QED
      BY <1>2, <2>2, <3>1, ClosedByChoice
  <2> QED
    BY <2>1, <2>2 DEF ExecutedWith
<1> QED
  BY <1>1, <1>2

\* An assignment adds nothing but itself, a chain what it chooses.
LEMMA ExecutedWithOne ==
    ASSUME program \in Programs, NEW p, NEW N \in SUBSET Names, NEW n \in Names,
           NEW M \in SUBSET Names, N \subseteq M \cup {n},
           Stmt(n).kind # "assign" => Choice(p, n) \subseteq M
    PROVE  ExecutedWith(p, N) \subseteq {n} \cup ExecutedWith(p, M)
<1>1. ASSUME NEW m \in ExecutedWith(p, N), m # n, NEW U \in SUBSET Names,
             M \subseteq U, ClosedAt(p, U)
      PROVE  m \in U
  <2>1. U \cup {n} \in SUBSET Names /\ N \subseteq U \cup {n}
    BY <1>1
  <2>2. ClosedAt(p, U \cup {n})
    <3>1. \A k \in U : Stmt(k).kind # "assign" => Choice(p, k) \subseteq U
      BY <1>1, ClosedByChoice
    <3>2. \A k \in U \cup {n} : Stmt(k).kind # "assign" => Choice(p, k) \subseteq U \cup {n}
      BY <1>1, <3>1
    <3> QED
      BY <2>1, <3>2, ClosedByChoice
  <2>3. m \in U \cup {n}
    BY <2>1, <2>2 DEF ExecutedWith
  <2> QED
    BY <1>1, <2>3
<1>2. \A m \in ExecutedWith(p, N) : m \in Names
  BY DEF ExecutedWith
<1> QED
  BY <1>1, <1>2 DEF ExecutedWith

-----------------------------------------------------------------------------
(* What is left of the walk.                                                 *)

\* what the frame f will still get to at p, as far as the source executes it
FrameRest(f, p) ==
    {n \in Names :
       /\ p \in f.reach
       /\ f.kind = "body"  => \E k \in DOMAIN f.body : k >= f.next /\ n = f.body[k]
       /\ f.kind = "chain" => n \in Choice(p, f.name)}

Rest(p) == UNION {FrameRest(f, p) : f \in Elements(stack)}

\* the assignments the walk got to
CollectedAt(p) == {a.of : a \in {b \in asgs : p \in b.reach}}

\* No statement was passed over.
CompleteInv ==
    phase = "collect" /\ AllRegular =>
      \A p \in Quiet :
        AssignmentsIn(Executed(p)) \subseteq CollectedAt(p) \cup ExecutedWith(p, Rest(p))

\* All that is walked through is executed.
FrameExecuted(f) ==
    \A p \in f.reach :
      /\ f.kind = "body"  => NamesIn(f.body) \subseteq Executed(p)
      /\ f.kind = "chain" => f.name \in Executed(p)

SoundInv ==
    phase = "collect" =>
      /\ \A f \in Elements(stack) : FrameExecuted(f)
      /\ \A a \in asgs : \A p \in a.reach : a.of \in Executed(p)

\* Where the first arm of a chain is skipped nothing is noted in prev.
PrevFirst(f) ==
    f.kind = "chain" /\ Stmt(f.name).kind = "if" /\ f.prev # {} => ~Timed(f, 1)

PrevInv == \A f \in Elements(stack) : PrevFirst(f)

\* The source is what it was.
LEMMA SameSource ==
    ASSUME program' = program
    PROVE  /\ \A n : Stmt(n)' = Stmt(n)
           /\ AllRegular' <=> AllRegular
           /\ \A p, N : ExecutedWith(p, N)' = ExecutedWith(p, N)
           /\ \A p : Executed(p)' = Executed(p)
           /\ \A N : AssignmentsIn(N)' = AssignmentsIn(N)
           /\ \A p, n : Choice(p, n)' = Choice(p, n)
           /\ \A p, f : FrameRest(f, p)' = FrameRest(f, p)
           /\ \A f : FrameExecuted(f)' <=> FrameExecuted(f)
           /\ \A f : PrevFirst(f)' <=> PrevFirst(f)
<1>1. \A n : Stmt(n)' = Stmt(n)
  BY DEF Stmt
<1>2. AllRegular' <=> AllRegular
  <2>1. ASSUME NEW n PROVE Regular(Stmt(n).arms)' <=> Regular(Stmt(n).arms)
    <3> HIDE DEF Stmt
    <3> QED
      BY <1>1 DEF Regular
  <2> QED
    BY <1>1, <2>1 DEF AllRegular
<1>3. \A p, U : ClosedAt(p, U)' <=> ClosedAt(p, U)
  <2>1. ASSUME NEW n, NEW i, NEW p
        PROVE  Chosen(Stmt(n).arms, i, p)' <=> Chosen(Stmt(n).arms, i, p)
    <3> HIDE DEF Stmt
    <3> QED
      BY <1>1 DEF Chosen
  <2> HIDE DEF Chosen
  <2> QED
    BY <1>1, <2>1 DEF ClosedAt
<1>4. \A p, N : ExecutedWith(p, N)' = ExecutedWith(p, N)
  BY <1>3 DEF ExecutedWith
<1>5. \A p : Executed(p)' = Executed(p)
  BY <1>4 DEF Executed
<1>6. \A N : AssignmentsIn(N)' = AssignmentsIn(N)
  BY <1>1 DEF AssignmentsIn
<1>7. \A p, n : Choice(p, n)' = Choice(p, n)
  BY <1>1 DEF Choice, Chosen, NamesIn
<1>8. \A p, f : FrameRest(f, p)' = FrameRest(f, p)
  BY <1>7 DEF FrameRest
<1>9. \A f : FrameExecuted(f)' <=> FrameExecuted(f)
  BY <1>5 DEF FrameExecuted, NamesIn
<1>10. \A f : PrevFirst(f)' <=> PrevFirst(f)
  BY <1>1 DEF PrevFirst, Timed, ArmsOf
<1> QED
  BY <1>1, <1>2, <1>4, <1>5, <1>6, <1>7, <1>8, <1>9, <1>10

\* Nothing of the stack is lost but its top.
LEMMA PoppedAll ==
    ASSUME NEW S, NEW s \in Seq(S), s # << >>
    PROVE  Elements(s) \subseteq {Head(s)} \cup Elements(Tail(s))
<1>1. /\ Head(s) = s[1]
      /\ Tail(s) \in Seq(S) /\ Len(Tail(s)) = Len(s) - 1
      /\ \A i \in 1..Len(Tail(s)) : Tail(s)[i] = s[i+1]
  BY HeadTailProperties
<1>2. Len(s) \in Nat /\ DOMAIN s = 1..Len(s) /\ DOMAIN Tail(s) = 1..Len(Tail(s))
  BY <1>1, LenProperties
<1>3. ASSUME NEW i \in DOMAIN s, i # 1
      PROVE  s[i] \in Elements(Tail(s))
  <2>1. i - 1 \in 1..Len(Tail(s)) /\ s[i] = Tail(s)[i - 1]
    BY <1>1, <1>2, <1>3
  <2> QED
    BY <1>2, <2>1 DEF Elements
<1> QED
  BY <1>1, <1>3 DEF Elements

LEMMA PushedAll ==
    ASSUME NEW S, NEW s \in Seq(S), NEW t \in Seq(S)
    PROVE  Elements(t) \cup Elements(s) \subseteq Elements(t \o s)
<1>1. /\ t \o s \in Seq(S) /\ Len(t \o s) = Len(t) + Len(s)
      /\ \A i \in 1..Len(t) + Len(s) :
            (t \o s)[i] = IF i <= Len(t) THEN t[i] ELSE s[i - Len(t)]
  BY ConcatProperties
<1>2. /\ Len(s) \in Nat /\ DOMAIN s = 1..Len(s)
      /\ Len(t) \in Nat /\ DOMAIN t = 1..Len(t)
      /\ DOMAIN (t \o s) = 1..Len(t \o s)
  BY <1>1, LenProperties
<1>3. ASSUME NEW i \in DOMAIN t
      PROVE  t[i] \in Elements(t \o s)
  <2>1. i \in DOMAIN (t \o s) /\ (t \o s)[i] = t[i]
    BY <1>1, <1>2
  <2> QED
    BY <2>1 DEF Elements
<1>4. ASSUME NEW i \in DOMAIN s
      PROVE  s[i] \in Elements(t \o s)
  <2> DEFINE j == i + Len(t)
  <2>1. j \in 1..Len(t) + Len(s) /\ ~(j <= Len(t)) /\ j - Len(t) = i
    BY <1>2
  <2> HIDE DEF j
  <2>2. j \in DOMAIN (t \o s) /\ (t \o s)[j] = s[i]
    BY <1>1, <1>2, <2>1
  <2> QED
    BY <2>2 DEF Elements
<1> QED
  BY <1>3, <1>4 DEF Elements

\* the top replaced by one frame, or by two
LEMMA Replaced ==
    ASSUME TypeInv, stack # << >>
    PROVE  /\ Elements(stack) \subseteq {Top} \cup Elements(Tail(stack))
           /\ \A e \in Frames :
                {e} \cup Elements(Tail(stack)) \subseteq Elements(<<e>> \o Tail(stack))
           /\ \A e, f \in Frames :
                {e, f} \cup Elements(Tail(stack)) \subseteq Elements(<<e, f>> \o Tail(stack))
<1>1. stack \in Seq(Frames) /\ Tail(stack) \in Seq(Frames)
  BY TopShape DEF TypeInv, TypeOK
<1>2. Elements(stack) \subseteq {Top} \cup Elements(Tail(stack))
  BY <1>1, PoppedAll DEF Top
<1>3. ASSUME NEW e \in Frames
      PROVE  {e} \cup Elements(Tail(stack)) \subseteq Elements(<<e>> \o Tail(stack))
  <2>1. <<e>> \in Seq(Frames) /\ Elements(<<e>>) = {e}
    BY DEF Elements
  <2> QED
    BY <1>1, <2>1, PushedAll
<1>4. ASSUME NEW e \in Frames, NEW f \in Frames
      PROVE  {e, f} \cup Elements(Tail(stack)) \subseteq Elements(<<e, f>> \o Tail(stack))
  <2>1. <<e, f>> \in Seq(Frames) /\ Elements(<<e, f>>) = {e, f}
    BY DEF Elements
  <2> QED
    BY <1>1, <2>1, PushedAll
<1> QED
  BY <1>2, <1>3, <1>4
-----------------------------------------------------------------------------
\* Steps that are complete at p: what was left is left, but for a statement n
\* that is collected or makes way for what it chooses.
CompleteAt(p) == AssignmentsIn(Executed(p)) \subseteq CollectedAt(p) \cup ExecutedWith(p, Rest(p))

LEMMA RestAreNames == \A p : Rest(p) \subseteq Names
  BY DEF Rest, FrameRest

LEMMA LeavesComplete ==
    ASSUME program' = program, NEW p, CompleteAt(p),
           CollectedAt(p) \subseteq CollectedAt(p)', Rest(p) \subseteq Rest(p)'
    PROVE  CompleteAt(p)'
<1>1. ExecutedWith(p, Rest(p)) \subseteq ExecutedWith(p, Rest(p)')
  BY ExecutedGrows
<1> QED
  BY <1>1, SameSource DEF CompleteAt

LEMMA TakesComplete ==
    ASSUME program \in Programs, program' = program, NEW p, CompleteAt(p),
           CollectedAt(p) \subseteq CollectedAt(p)',
           NEW n \in Names, Rest(p) \subseteq Rest(p)' \cup {n},
           Rest(p)' \subseteq Names,
           Stmt(n).kind = "assign"  => n \in CollectedAt(p)',
           Stmt(n).kind # "assign" => Choice(p, n) \subseteq Rest(p)'
    PROVE  CompleteAt(p)'
<1>1. Rest(p) \subseteq Names
  BY RestAreNames
<1>2. ExecutedWith(p, Rest(p)) \subseteq {n} \cup ExecutedWith(p, Rest(p)')
  BY <1>1, ExecutedWithOne
<1>3. ASSUME NEW m \in AssignmentsIn(Executed(p))
      PROVE  m \in CollectedAt(p)' \cup ExecutedWith(p, Rest(p)')
  <2>1. Stmt(m).kind = "assign"
    BY <1>3 DEF AssignmentsIn
  <2>2. m \in CollectedAt(p)' \/ m = n \/ m \in ExecutedWith(p, Rest(p)')
    BY <1>2, <1>3 DEF CompleteAt
  <2> QED
    BY <2>1, <2>2
<1> QED
  BY <1>3, SameSource DEF CompleteAt

\* What is left is told by the frames.
LEMMA RestOfTop ==
    ASSUME TypeInv, program' = program, stack # << >>, NEW p,
           NEW F \in SUBSET Elements(stack'), Elements(Tail(stack)) \subseteq Elements(stack'),
           NEW N, FrameRest(Top, p) \subseteq N \cup UNION {FrameRest(f, p) : f \in F}
    PROVE  Rest(p) \subseteq Rest(p)' \cup N
<1>1. Elements(stack) \subseteq {Top} \cup Elements(Tail(stack))
  BY Replaced
<1>2. Rest(p)' = UNION {FrameRest(f, p) : f \in Elements(stack')}
  BY SameSource DEF Rest
<1> HIDE DEF Top, Elements
<1>3. ASSUME NEW f \in Elements(stack), NEW n \in FrameRest(f, p)
      PROVE  n \in Rest(p)' \cup N
  <2>1. CASE f = Top
    BY <1>2, <1>3, <2>1
  <2>2. CASE f \in Elements(Tail(stack))
    BY <1>2, <1>3, <2>2
  <2> QED
    BY <1>1, <2>1, <2>2
<1> QED
  BY <1>3 DEF Rest

LEMMA RestWithOne ==
    ASSUME TypeInv, program' = program, stack # << >>, NEW p,
           Elements(Tail(stack)) \subseteq Elements(stack'),
           NEW e \in Elements(stack'), NEW N, FrameRest(Top, p) \subseteq N \cup FrameRest(e, p)
    PROVE  Rest(p) \subseteq Rest(p)' \cup N
<1>1. FrameRest(Top, p) \subseteq N \cup UNION {FrameRest(f, p) : f \in {e}}
  OBVIOUS
<1>2. {e} \in SUBSET Elements(stack')
  OBVIOUS
<1> HIDE DEF Top, Elements
<1> QED
  BY <1>1, <1>2, RestOfTop

LEMMA CollectIsComplete ==
    ASSUME TypeInv, Collect, NEW p, CompleteAt(p)
    PROVE  CompleteAt(p)'
<1>1. /\ InBody /\ Stmt(Here).kind = "assign" /\ program' = program
      /\ asgs' = asgs \cup {Collected} /\ stack' = <<Advance(Top)>> \o Tail(stack)
  BY DEF Collect, Collected
<1>2. /\ Top \in BodyFrames /\ Here \in Names /\ Advance(Top) \in BodyFrames
      /\ Advance(Top).reach = Top.reach /\ stack # << >> /\ program \in Programs
  BY <1>1, HereShape DEF InBody, TypeInv, TypeOK
<1>3. {Advance(Top)} \cup Elements(Tail(stack)) \subseteq Elements(stack')
  BY <1>1, <1>2, Replaced DEF Frames
<1>4. /\ Top.kind = "body" /\ Advance(Top).kind = "body"
      /\ Advance(Top).body = Top.body /\ Advance(Top).next = Top.next + 1
      /\ Top.next \in Nat /\ DOMAIN Top.body = 1..Len(Top.body) /\ Len(Top.body) \in Nat
      /\ Here = Top.body[Top.next]
  BY <1>2, LenProperties DEF BodyFrames, Advance, Here
<1>5. CollectedAt(p) \subseteq CollectedAt(p)'
  BY <1>1 DEF CollectedAt
<1>6. Collected.of = Here /\ Collected.reach = Top.reach
  BY DEF Collected
<1> HIDE DEF Top, Advance, Here, Elements, Collected
<1>7. FrameRest(Top, p) \subseteq {Here} \cup FrameRest(Advance(Top), p)
  <2>1. ASSUME NEW k \in DOMAIN Top.body, k >= Top.next
        PROVE  k = Top.next \/ k >= Top.next + 1
    BY <1>4, <2>1
  <2> QED
    BY <1>2, <1>4, <2>1 DEF FrameRest
<1>8. CASE p \in Top.reach
  <2>1. Rest(p) \subseteq Rest(p)' \cup {Here}
    BY <1>1, <1>2, <1>3, <1>7, RestWithOne
  <2>2. Here \in CollectedAt(p)'
    BY <1>1, <1>6, <1>8 DEF CollectedAt
  <2>3. Rest(p)' \subseteq Names
    BY DEF Rest, FrameRest
  <2> QED
    BY <1>1, <1>2, <1>5, <2>1, <2>2, <2>3, TakesComplete
<1>9. CASE p \notin Top.reach
  <2>1. FrameRest(Top, p) = {}
    BY <1>9 DEF FrameRest
  <2>2. Rest(p) \subseteq Rest(p)' \cup {}
    BY <1>1, <1>2, <1>3, <2>1, RestWithOne
  <2> QED
    BY <1>1, <1>5, <2>2, LeavesComplete
<1> QED
  BY <1>8, <1>9

LEMMA EnterIsComplete ==
    ASSUME TypeInv, EnterChain, NEW p, CompleteAt(p)
    PROVE  CompleteAt(p)'
<1>1. /\ InBody /\ Stmt(Here).kind # "assign" /\ program' = program
      /\ asgs' = asgs /\ stack' = <<Entered, Advance(Top)>> \o Tail(stack)
  BY DEF EnterChain, Entered
<1>2. /\ Top \in BodyFrames /\ Here \in Names /\ Advance(Top) \in BodyFrames
      /\ Advance(Top).reach = Top.reach /\ stack # << >> /\ program \in Programs
  BY <1>1, HereShape DEF InBody, TypeInv, TypeOK
<1>3. Entered \in Frames
  BY <1>1, HereShape DEF Frames, ChainFrames, BodyFrames, Entered
<1>4. {Entered, Advance(Top)} \cup Elements(Tail(stack)) \subseteq Elements(stack')
  BY <1>1, <1>2, <1>3, Replaced DEF Frames
<1>5. /\ Top.kind = "body" /\ Advance(Top).kind = "body"
      /\ Advance(Top).body = Top.body /\ Advance(Top).next = Top.next + 1
      /\ Top.next \in Nat /\ DOMAIN Top.body = 1..Len(Top.body) /\ Len(Top.body) \in Nat
      /\ Here = Top.body[Top.next]
  BY <1>2, LenProperties DEF BodyFrames, Advance, Here
<1>6. CollectedAt(p) \subseteq CollectedAt(p)'
  BY <1>1 DEF CollectedAt
<1>7. Entered.kind = "chain" /\ Entered.name = Here /\ Entered.reach = Top.reach
  BY DEF Entered
<1> HIDE DEF Top, Advance, Here, Elements, Entered
<1>8. FrameRest(Top, p) \subseteq {Here} \cup FrameRest(Advance(Top), p)
  <2>1. ASSUME NEW k \in DOMAIN Top.body, k >= Top.next
        PROVE  k = Top.next \/ k >= Top.next + 1
    BY <1>5, <2>1
  <2> QED
    BY <1>2, <1>5, <2>1 DEF FrameRest
<1>9. CASE p \in Top.reach
  <2>1. Rest(p) \subseteq Rest(p)' \cup {Here}
    BY <1>1, <1>2, <1>4, <1>8, RestWithOne
  <2>2. Choice(p, Here) \subseteq FrameRest(Entered, p)
    BY <1>7, <1>9 DEF FrameRest, Choice
  <2>3. FrameRest(Entered, p) \subseteq Rest(p)'
    BY <1>1, <1>4, SameSource DEF Rest
  <2>4. Rest(p)' \subseteq Names
    BY DEF Rest, FrameRest
  <2> QED
    BY <1>1, <1>2, <1>6, <2>1, <2>2, <2>3, <2>4, TakesComplete
<1>10. CASE p \notin Top.reach
  <2>1. FrameRest(Top, p) = {}
    BY <1>10 DEF FrameRest
  <2>2. Rest(p) \subseteq Rest(p)' \cup {}
    BY <1>1, <1>2, <1>4, <2>1, RestWithOne
  <2> QED
    BY <1>1, <1>6, <2>2, LeavesComplete
<1> QED
  BY <1>9, <1>10

LEMMA LeaveIsComplete ==
    ASSUME TypeInv, CoverInv, Leave, NEW p, CompleteAt(p)
    PROVE  CompleteAt(p)'
<1>1. /\ stack # << >> /\ program' = program /\ asgs' = asgs
      /\ stack' = Tail(stack) /\ Top.next \notin DOMAIN Items(Top)
  BY DEF Leave
<1>2. CollectedAt(p) \subseteq CollectedAt(p)'
  BY <1>1 DEF CollectedAt
<1>3. FrameRest(Top, p) = {}
  <2>1. Top \in Elements(stack) /\ (Top \in BodyFrames \/ Top \in ChainFrames)
    BY <1>1, TopShape DEF Frames
  <2>2. CASE Top \in BodyFrames
    <3>1. /\ Top.kind = "body" /\ Top.next \in Nat \ {0} /\ Top.next \notin DOMAIN Top.body
          /\ DOMAIN Top.body = 1..Len(Top.body) /\ Len(Top.body) \in Nat
      BY <1>1, <2>2, LenProperties DEF BodyFrames, Items
    <3> HIDE DEF Top
    <3>2. \A k \in DOMAIN Top.body : ~(k >= Top.next)
      BY <3>1
    <3> QED
      BY <3>1, <3>2 DEF FrameRest
  <2>3. CASE Top \in ChainFrames
    <3>1. /\ Top.kind = "chain" /\ Top.next \in Nat \ {0}
          /\ Top.next \notin DOMAIN Stmt(Top.name).arms /\ Stmt(Top.name) \in Chains
      BY <1>1, <2>3, TopShape DEF ChainFrames, Items
    <3>2. /\ DOMAIN Stmt(Top.name).arms = 1..Len(Stmt(Top.name).arms)
          /\ Len(Stmt(Top.name).arms) \in Nat
      BY <3>1, LenProperties DEF Chains
    <3>3. FrameCovers(Top)
      BY <2>1 DEF CoverInv
    <3> HIDE DEF Top, Stmt
    <3>4. \A i \in DOMAIN Stmt(Top.name).arms : i < Top.next
      BY <3>1, <3>2
    <3>5. p \in Top.reach => \A i \in DOMAIN Stmt(Top.name).arms : ~Chosen(Stmt(Top.name).arms, i, p)
      BY <3>1, <3>3, <3>4 DEF FrameCovers, Chosen
    <3> QED
      BY <3>1, <3>5 DEF FrameRest, Choice
  <2> QED
    BY <2>1, <2>2, <2>3
<1>4. Rest(p) \subseteq Rest(p)' \cup {}
  BY <1>1, <1>3, RestOfTop
<1> QED
  BY <1>1, <1>2, <1>4, LeavesComplete

\* The arm at the top, and what its chain chooses.
LEMMA ArmChoice ==
    ASSUME TypeInv, CoverInv, NEW kind, AtArm(kind), NEW p \in Top.reach
    PROVE  /\ p \in Arm.guard.holds =>
                Choice(p, Top.name) = NamesIn(Arm.body) \cap Names
           /\ NamesIn(Arm.body) \subseteq Names
<1>1. /\ Top \in ChainFrames /\ Top \in Elements(stack) /\ Stmt(Top.name) \in Chains
      /\ Top.next \in DOMAIN Stmt(Top.name).arms
  BY ArmShape
<1>2. FrameCovers(Top) /\ Top.kind = "chain" /\ Top.next \in Nat /\ Top.name \in Names
  BY <1>1 DEF CoverInv, ChainFrames
<1>3. /\ DOMAIN Stmt(Top.name).arms = 1..Len(Stmt(Top.name).arms)
      /\ Len(Stmt(Top.name).arms) \in Nat
  BY <1>1, LenProperties DEF Chains
<1>4. Arm = Stmt(Top.name).arms[Top.next]
  BY DEF Arm
<1>5. NamesIn(Arm.body) \subseteq Names
  <2>1. Stmt(Top.name).kind # "assign" /\ program \in Programs
    BY <1>1 DEF Chains, TypeInv, TypeOK
  <2> QED
    BY <1>1, <1>2, <1>4, <2>1, BodiesAreNames
<1> HIDE DEF Top, Stmt, Arm
<1>6. ASSUME NEW i \in DOMAIN Stmt(Top.name).arms
      PROVE  i < Top.next \/ i = Top.next \/ Top.next < i
  BY <1>2, <1>3
<1>7. \A j \in DOMAIN Stmt(Top.name).arms :
         j < Top.next => p \notin Stmt(Top.name).arms[j].guard.holds
  BY <1>2 DEF FrameCovers
<1>8. ASSUME p \in Arm.guard.holds
      PROVE  Choice(p, Top.name) = NamesIn(Arm.body) \cap Names
  <2>1. Chosen(Stmt(Top.name).arms, Top.next, p)
    BY <1>4, <1>7, <1>8 DEF Chosen
  <2>2. \A i \in DOMAIN Stmt(Top.name).arms :
           Chosen(Stmt(Top.name).arms, i, p) => i = Top.next
    BY <1>1, <1>4, <1>6, <1>7, <1>8 DEF Chosen
  <2> QED
    BY <1>1, <1>4, <2>1, <2>2 DEF Choice
<1> QED
  BY <1>5, <1>8

LEMMA DescendIsComplete ==
    ASSUME TypeInv, CoverInv, NEW kind, AtArm(kind), NEW c \in Conditions,
           NEW prev \in SUBSET Guards, Descend(c, prev), NEW p, CompleteAt(p)
    PROVE  CompleteAt(p)'
<1>1. /\ program' = program /\ asgs' = asgs
      /\ stack' = <<DescendTo(c), Past(prev)>> \o Tail(stack) /\ stack # << >>
  BY DEF Descend, DescendTo, AtArm
<1>2. Top \in ChainFrames /\ Arm \in Arms
  BY ArmShape
<1>3. /\ Past(prev) \in Frames /\ DescendTo(c) \in Frames
      /\ Past(prev).kind = "chain" /\ Past(prev).name = Top.name
      /\ Past(prev).reach = Top.reach \ Arm.guard.holds
  BY <1>2, PastShape, DescendShape DEF Frames
<1>4. {DescendTo(c), Past(prev)} \cup Elements(Tail(stack)) \subseteq Elements(stack')
  BY <1>1, <1>3, Replaced
<1>5. CollectedAt(p) \subseteq CollectedAt(p)'
  BY <1>1 DEF CollectedAt
<1>6. /\ DescendTo(c).kind = "body" /\ DescendTo(c).body = Arm.body
      /\ DescendTo(c).next = 1 /\ DescendTo(c).reach = Top.reach \cap Arm.guard.holds
  BY DEF DescendTo
<1>7. Top.kind = "chain"
  BY <1>2 DEF ChainFrames
<1>8. DOMAIN Arm.body = 1..Len(Arm.body) /\ Len(Arm.body) \in Nat
  BY <1>2, LenProperties DEF Arms
<1>9. p \in Top.reach /\ p \in Arm.guard.holds =>
         Choice(p, Top.name) = NamesIn(Arm.body) \cap Names
  BY ArmChoice
<1> HIDE DEF Top, Arm, Past, DescendTo, Elements
<1>10. FrameRest(Top, p) \subseteq FrameRest(DescendTo(c), p) \cup FrameRest(Past(prev), p)
  <2>1. CASE p \in Top.reach /\ p \in Arm.guard.holds
    <3>1. \A k \in DOMAIN Arm.body : k >= 1
      BY <1>8
    <3>2. NamesIn(Arm.body) \cap Names \subseteq FrameRest(DescendTo(c), p)
      BY <1>6, <2>1, <3>1 DEF FrameRest, NamesIn
    <3> QED
      BY <1>7, <1>9, <2>1, <3>2 DEF FrameRest
  <2>2. CASE p \in Top.reach /\ p \notin Arm.guard.holds
    BY <1>3, <1>7, <2>2 DEF FrameRest
  <2>3. CASE p \notin Top.reach
    BY <2>3 DEF FrameRest
  <2> QED
    BY <2>1, <2>2, <2>3
<1>11. Rest(p) \subseteq Rest(p)' \cup {}
  <2> DEFINE F == {DescendTo(c), Past(prev)}
  <2>1. /\ F \in SUBSET Elements(stack') /\ Elements(Tail(stack)) \subseteq Elements(stack')
        /\ FrameRest(Top, p) \subseteq {} \cup UNION {FrameRest(f, p) : f \in F}
    BY <1>4, <1>10
  <2> HIDE DEF F
  <2> QED
    BY <1>1, <2>1, RestOfTop
<1> QED
  BY <1>1, <1>5, <1>11, LeavesComplete

\* An arm that is skipped must not hold.
LEMMA SkipIsComplete ==
    ASSUME TypeInv, NEW kind, AtArm(kind),
           NEW prev \in SUBSET Guards, SkipArm(prev), NEW p, CompleteAt(p),
           p \notin Arm.guard.holds
    PROVE  CompleteAt(p)'
<1>1. /\ program' = program /\ asgs' = asgs
      /\ stack' = <<Past(prev)>> \o Tail(stack) /\ stack # << >>
  BY DEF SkipArm, AtArm
<1>2. Top \in ChainFrames /\ Arm \in Arms
  BY ArmShape
<1>3. /\ Past(prev) \in Frames
      /\ Past(prev).kind = "chain" /\ Past(prev).name = Top.name
      /\ Past(prev).reach = Top.reach \ Arm.guard.holds
  BY <1>2, PastShape DEF Frames
<1>4. {Past(prev)} \cup Elements(Tail(stack)) \subseteq Elements(stack')
  BY <1>1, <1>3, Replaced
<1>5. CollectedAt(p) \subseteq CollectedAt(p)'
  BY <1>1 DEF CollectedAt
<1>6. Top.kind = "chain"
  BY <1>2 DEF ChainFrames
<1> HIDE DEF Top, Arm, Past, Elements
<1>7. FrameRest(Top, p) \subseteq {} \cup FrameRest(Past(prev), p)
  BY <1>3, <1>6 DEF FrameRest
<1>8. Rest(p) \subseteq Rest(p)' \cup {}
  BY <1>1, <1>4, <1>7, RestWithOne
<1> QED
  BY <1>1, <1>5, <1>8, LeavesComplete

\* In a regular chain only arms that reference a reset are skipped: such an
\* arm does not hold outside of reset.
LEMMA SkippedDoNotHold ==
    ASSUME TypeInv, CoverInv, PrevInv, AllRegular, NEW kind \in {"if", "else if"}, AtArm(kind),
           \/ Arm.guard.timed
           \/ kind = "else if" /\ \E g \in Top.prev : g.timed
    PROVE  Arm.guard.holds \cap Quiet = {}
<1>1. /\ Stmt(Top.name).kind \in {"if", "case"}
      /\ Stmt(Top.name).kind = "if" => IsIfChain(ArmsOf(Top))
      /\ Stmt(Top.name).kind = "case" => IsCaseChain(ArmsOf(Top))
      /\ Regular(ArmsOf(Top))
      /\ Top.next \in DOMAIN ArmsOf(Top)
      /\ Arm = ArmsOf(Top)[Top.next] /\ Arm.kind = kind
  BY ChainShape
<1>2. Stmt(Top.name).kind = "if" /\ IsIfChain(ArmsOf(Top))
  BY <1>1 DEF IsCaseChain
<1>3. CASE Arm.guard.timed
  <2> HIDE DEF Top, Arm, ArmsOf
  <2> QED
    BY <1>1, <1>2, <1>3 DEF IsIfChain
<1>4. ASSUME kind = "else if", NEW g \in Top.prev, g.timed, ~Arm.guard.timed
      PROVE  FALSE
  <2>1. Top \in Elements(stack) /\ Top.kind = "chain"
    BY ArmShape DEF ChainFrames
  <2>2. ~Timed(Top, 1)
    BY <1>2, <1>4, <2>1 DEF PrevInv, PrevFirst
  <2>3. FrameCovers(Top)
    BY <2>1 DEF CoverInv
  <2>4. PICK j \in DOMAIN ArmsOf(Top) : j < Top.next /\ g = ArmsOf(Top)[j].guard
    BY <1>4, <2>1, <2>3 DEF FrameCovers, ArmsOf
  <2>5. /\ 1 \in DOMAIN ArmsOf(Top) /\ 1 < Top.next
        /\ \A i \in DOMAIN ArmsOf(Top) : i < Top.next => ArmsOf(Top)[i].kind # "else"
    BY <1>4, IfChainBefore
  <2>6. ArmsOf(Top)[j].kind \in {"if", "else if"}
    BY <1>2, <2>4, <2>5 DEF IsIfChain
  <2> HIDE DEF Top, Arm, ArmsOf
  <2>7. \/ \A i, k \in DOMAIN ArmsOf(Top) :
              ~ArmsOf(Top)[i].guard.timed /\ ~ArmsOf(Top)[k].guard.timed => i = k
        \/ \A i \in DOMAIN ArmsOf(Top) : i > j => ArmsOf(Top)[i].kind # "else if"
    BY <1>1, <1>4, <2>4, <2>6 DEF Regular
  <2>8. 1 \in Nat
    OBVIOUS
  <2>9. 1 # Top.next
    BY <2>5, <2>8, Irreflexive, Zenon
  <2> QED
    BY <1>1, <1>4, <2>2, <2>4, <2>5, <2>7, <2>9 DEF Timed
<1> QED
  BY <1>3, <1>4
-----------------------------------------------------------------------------
\* What prev tells about the first arm of a chain.
LEMMA KeepsPrev ==
    ASSUME PrevInv, program' = program,
           \A f \in Elements(stack') \ Elements(stack) : PrevFirst(f)
    PROVE  PrevInv'
<1>1. \A f \in Elements(stack') : PrevFirst(f)
  BY DEF PrevInv
<1> QED
  BY <1>1, SameSource DEF PrevInv

LEMMA PastPrev ==
    ASSUME TypeInv, PrevInv, NEW kind, AtArm(kind), NEW prev \in SUBSET Guards,
           \/ prev = Top.prev
           \/ kind = "label"
           \/ kind = "if" /\ ~Arm.guard.timed
           \/ kind = "else if" /\ Top.prev # {}
    PROVE  PrevFirst(Past(prev))
<1>1. /\ Top \in ChainFrames /\ Top \in Elements(stack) /\ Stmt(Top.name) \in Chains
      /\ Top.next \in DOMAIN ArmsOf(Top) /\ Arm = ArmsOf(Top)[Top.next] /\ Arm.kind = kind
      /\ Arm \in Arms
  BY ArmShape DEF Arm, ArmsOf
<1>2. Top.kind = "chain" /\ Top.name \in Names
  BY <1>1 DEF ChainFrames
<1>3. /\ Past(prev).kind = "chain" /\ Past(prev).name = Top.name
      /\ Past(prev).prev = prev
  BY <1>1, PastShape
<1>4. PrevFirst(Top)
  BY <1>1 DEF PrevInv
<1>5. Stmt(Top.name).kind = "if" => IsIfChain(ArmsOf(Top))
  BY <1>2, ProgramShape DEF TypeInv, TypeOK, ArmsOf
<1>6. Timed(Past(prev), 1) <=> Timed(Top, 1)
  BY <1>3 DEF Timed, ArmsOf
<1> HIDE DEF Past, Top, Arm, ArmsOf, Timed
<1>7. ASSUME Stmt(Top.name).kind = "if", prev # {}
      PROVE  ~Timed(Top, 1)
  <2>1. kind # "label"
    BY <1>1, <1>5, <1>7 DEF IsIfChain
  <2>2. CASE kind = "if" /\ ~Arm.guard.timed
    <3>1. Top.next = 1
      BY <1>1, <1>5, <1>7, <2>2 DEF IsIfChain
    <3> QED
      BY <1>1, <2>2, <3>1 DEF Timed
  <2>3. CASE prev = Top.prev \/ Top.prev # {}
    BY <1>2, <1>4, <1>7, <2>3 DEF PrevFirst
  <2> QED
    BY <2>1, <2>2, <2>3
<1> QED
  BY <1>3, <1>6, <1>7 DEF PrevFirst

LEMMA SkipPrev ==
    ASSUME TypeInv, PrevInv, NEW kind, AtArm(kind), NEW prev \in SUBSET Guards,
           SkipArm(prev), PrevFirst(Past(prev))
    PROVE  PrevInv'
<1>1. Elements(stack') \subseteq {Past(prev)} \cup Elements(stack)
  BY SkipShape
<1>2. program' = program
  BY DEF SkipArm
<1> HIDE DEF Past
<1> QED
  BY <1>1, <1>2, KeepsPrev

LEMMA DescendPrev ==
    ASSUME TypeInv, PrevInv, NEW kind, AtArm(kind), NEW prev \in SUBSET Guards,
           NEW c \in Conditions, Descend(c, prev), PrevFirst(Past(prev))
    PROVE  PrevInv'
<1>1. Elements(stack') \subseteq {DescendTo(c), Past(prev)} \cup Elements(stack)
  BY DescendShape
<1>2. program' = program
  BY DEF Descend
<1>3. PrevFirst(DescendTo(c))
  BY DEF PrevFirst, DescendTo
<1> HIDE DEF Past, DescendTo
<1> QED
  BY <1>1, <1>2, <1>3, KeepsPrev

-----------------------------------------------------------------------------
(* The walk stays within what is executed.                                   *)

LEMMA KeepsSound ==
    ASSUME SoundInv, phase = "collect", program' = program,
           \A f \in Elements(stack') \ Elements(stack) : FrameExecuted(f),
           \A a \in asgs' \ asgs : \A p \in a.reach : a.of \in Executed(p)
    PROVE  SoundInv'
<1>1. \A f \in Elements(stack') : FrameExecuted(f)
  BY DEF SoundInv
<1>2. \A a \in asgs' : \A p \in a.reach : a.of \in Executed(p)
  BY DEF SoundInv
<1> QED
  BY <1>1, <1>2, SameSource DEF SoundInv

LEMMA PastSound ==
    ASSUME TypeInv, SoundInv, NEW kind, AtArm(kind), NEW prev \in SUBSET Guards
    PROVE  FrameExecuted(Past(prev))
<1>1. Top \in ChainFrames /\ Top \in Elements(stack) /\ Arm \in Arms /\ phase = "collect"
  BY ArmShape DEF AtArm
<1>2. FrameExecuted(Top) /\ Top.kind = "chain"
  BY <1>1 DEF SoundInv, ChainFrames
<1>3. /\ Past(prev).kind = "chain" /\ Past(prev).name = Top.name
      /\ Past(prev).reach = Top.reach \ Arm.guard.holds
  BY <1>1, PastShape
<1> HIDE DEF Top, Arm, Past
<1> QED
  BY <1>2, <1>3 DEF FrameExecuted

LEMMA TopIsNames ==
    TypeInv => {program.top[k] : k \in DOMAIN program.top} \in SUBSET Names
<1> SUFFICES ASSUME TypeInv
             PROVE  {program.top[k] : k \in DOMAIN program.top} \in SUBSET Names
  OBVIOUS
<1>1. program.top \in Seq(Names)
  BY ProgramShape DEF TypeInv, TypeOK
<1> QED
  BY <1>1, ElementOfSeq, LenProperties

LEMMA DescendSound ==
    ASSUME TypeInv, CoverInv, SoundInv, NEW kind, AtArm(kind), NEW c
    PROVE  FrameExecuted(DescendTo(c))
<1>1. Top \in ChainFrames /\ Top \in Elements(stack) /\ Arm \in Arms /\ phase = "collect"
      /\ Stmt(Top.name).kind # "assign" /\ program \in Programs
  BY ArmShape DEF AtArm, Chains, TypeInv, TypeOK
<1>2. FrameExecuted(Top) /\ Top.kind = "chain"
  BY <1>1 DEF SoundInv, ChainFrames
<1>3. /\ DescendTo(c).kind = "body" /\ DescendTo(c).body = Arm.body
      /\ DescendTo(c).reach = Top.reach \cap Arm.guard.holds
  BY DEF DescendTo
<1>4. ASSUME NEW p \in Top.reach \cap Arm.guard.holds
      PROVE  NamesIn(Arm.body) \subseteq Executed(p)
  <2>1. Choice(p, Top.name) = NamesIn(Arm.body) \cap Names /\ NamesIn(Arm.body) \subseteq Names
    BY <1>4, ArmChoice
  <2>2. Top.name \in Executed(p)
    BY <1>2, <1>4 DEF FrameExecuted
  <2> DEFINE N == {program.top[k] : k \in DOMAIN program.top}
  <2>3. N \in SUBSET Names /\ Executed(p) = ExecutedWith(p, N)
    BY TopIsNames DEF Executed
  <2> HIDE DEF N, Top, Arm, Stmt
  <2>4. Choice(p, Top.name) \subseteq Executed(p)
    BY <1>1, <2>2, <2>3, ExecutedIsClosed
  <2> QED
    BY <2>1, <2>4
<1> HIDE DEF Top, Arm, DescendTo
<1> QED
  BY <1>3, <1>4 DEF FrameExecuted

LEMMA SkipSound ==
    ASSUME TypeInv, SoundInv, NEW kind, AtArm(kind), NEW prev \in SUBSET Guards, SkipArm(prev)
    PROVE  SoundInv'
<1>1. Elements(stack') \subseteq {Past(prev)} \cup Elements(stack)
  BY SkipShape
<1>2. program' = program /\ asgs' = asgs /\ phase = "collect"
  BY DEF SkipArm, AtArm
<1> QED
  BY <1>1, <1>2, PastSound, KeepsSound

LEMMA DescendKeepsSound ==
    ASSUME TypeInv, CoverInv, SoundInv, NEW kind, AtArm(kind), NEW prev \in SUBSET Guards,
           NEW c \in Conditions, Descend(c, prev)
    PROVE  SoundInv'
<1>1. Elements(stack') \subseteq {DescendTo(c), Past(prev)} \cup Elements(stack)
  BY DescendShape
<1>2. program' = program /\ asgs' = asgs /\ phase = "collect"
  BY DEF Descend, AtArm
<1> QED
  BY <1>1, <1>2, PastSound, DescendSound, KeepsSound

\* What an arm does: it is descended into, or skipped, and then it does not
\* hold outside of reset.
ArmTaken(kind, prev) ==
    /\ AtArm(kind)
    /\ PrevFirst(Past(prev))
    /\ \/ \E c \in Conditions : Descend(c, prev)
       \/ SkipArm(prev) /\ (AllRegular => Arm.guard.holds \cap Quiet = {})

LEMMA ArmTakes ==
    ASSUME TypeInv, CoverInv, PrevInv,
           \/ IfArm \/ ElseIfArm \/ ElseArm \/ CaseLabel \/ CaseDefault
    PROVE  \E kind : \E prev \in SUBSET Guards : ArmTaken(kind, prev)
<1>1. ASSUME NEW kind, AtArm(kind)
      PROVE  /\ Top.prev \in SUBSET Guards
             /\ Top.prev \cup {Arm.guard} \in SUBSET Guards
             /\ Expression(Arm.guard.holds) \in Conditions
             /\ Expression(NoneOf(Top.prev)) \in Conditions
             /\ Expression(NoneOf(Top.prev) \cap Arm.guard.holds) \in Conditions
  BY <1>1, ReachEscapes, ExpressionHolds
<1>2. ASSUME NEW kind, AtArm(kind)
      PROVE  PrevFirst(Past(Top.prev))
  BY <1>1, <1>2, PastPrev
<1>3. CASE IfArm
  <2>1. AtArm("if")
    BY <1>3 DEF IfArm
  <2>2. CASE Arm.guard.timed
    <3>1. SkipArm(Top.prev)
      BY <1>3, <2>2 DEF IfArm
    <3>2. AllRegular => Arm.guard.holds \cap Quiet = {}
      BY <2>1, <2>2, SkippedDoNotHold
    <3>3. ArmTaken("if", Top.prev)
      BY <1>2, <2>1, <3>1, <3>2 DEF ArmTaken
    <3> QED
      BY <1>1, <2>1, <3>3
  <2>3. CASE ~Arm.guard.timed
    <3> DEFINE prev == Top.prev \cup {Arm.guard}
    <3>1. Descend(Expression(Arm.guard.holds), prev)
      BY <1>3, <2>3 DEF IfArm
    <3>2. prev \in SUBSET Guards
      BY <1>1, <2>1
    <3> HIDE DEF prev
    <3>3. PrevFirst(Past(prev))
      BY <2>1, <2>3, <3>2, PastPrev
    <3>4. ArmTaken("if", prev)
      BY <1>1, <2>1, <3>1, <3>3 DEF ArmTaken
    <3> QED
      BY <3>2, <3>4
  <2> QED
    BY <2>2, <2>3
<1>4. CASE ElseIfArm
  <2>1. AtArm("else if")
    BY <1>4 DEF ElseIfArm
  <2>2. CASE Top.prev = {} /\ Arm.guard.timed
    <3>1. SkipArm(Top.prev)
      BY <1>4, <2>2 DEF ElseIfArm
    <3>2. AllRegular => Arm.guard.holds \cap Quiet = {}
      BY <2>1, <2>2, SkippedDoNotHold
    <3>3. ArmTaken("else if", Top.prev)
      BY <1>2, <2>1, <3>1, <3>2 DEF ArmTaken
    <3> QED
      BY <1>1, <2>1, <3>3
  <2>3. CASE Top.prev = {} /\ ~Arm.guard.timed
    <3>1. Descend(Expression(Arm.guard.holds), Top.prev)
      BY <1>4, <2>3 DEF ElseIfArm
    <3>2. ArmTaken("else if", Top.prev)
      BY <1>1, <1>2, <2>1, <3>1 DEF ArmTaken
    <3> QED
      BY <1>1, <2>1, <3>2
  <2>4. CASE Top.prev # {}
    <3> DEFINE prev == Top.prev \cup {Arm.guard}
    <3>1. prev \in SUBSET Guards
      BY <1>1, <2>1
    <3>2. PrevFirst(Past(prev))
      <4> HIDE DEF prev
      <4> QED
        BY <2>1, <2>4, <3>1, PastPrev
    <3>3. CASE \E g \in prev : g.timed
      <4>1. SkipArm(prev)
        BY <1>4, <2>4, <3>3 DEF ElseIfArm
      <4>2. Arm.guard.timed \/ \E g \in Top.prev : g.timed
        BY <3>3
      <4>3. AllRegular => Arm.guard.holds \cap Quiet = {}
        BY <2>1, <4>2, SkippedDoNotHold
      <4> HIDE DEF prev
      <4>4. ArmTaken("else if", prev)
        BY <2>1, <3>2, <4>1, <4>3 DEF ArmTaken
      <4> QED
        BY <3>1, <4>4
    <3>4. CASE ~\E g \in prev : g.timed
      <4>1. Descend(Expression(NoneOf(Top.prev) \cap Arm.guard.holds), prev)
        BY <1>4, <2>4, <3>4 DEF ElseIfArm
      <4> HIDE DEF prev
      <4>2. ArmTaken("else if", prev)
        BY <1>1, <2>1, <3>2, <4>1 DEF ArmTaken
      <4> QED
        BY <3>1, <4>2
    <3> QED
      BY <3>3, <3>4
  <2> QED
    BY <2>2, <2>3, <2>4
<1>5. CASE ElseArm
  <2>1. AtArm("else") /\ \E c \in Conditions : Descend(c, Top.prev)
    BY <1>1, <1>5, NoConditionHolds DEF ElseArm
  <2>2. ArmTaken("else", Top.prev)
    BY <1>2, <2>1 DEF ArmTaken
  <2> QED
    BY <1>1, <2>1, <2>2
<1>6. CASE CaseLabel
  <2> DEFINE prev == Top.prev \cup {Arm.guard}
  <2>1. AtArm("label") /\ Descend(Expression(Arm.guard.holds), prev)
    BY <1>6 DEF CaseLabel
  <2>2. prev \in SUBSET Guards
    BY <1>1, <2>1
  <2> HIDE DEF prev
  <2>3. PrevFirst(Past(prev))
    BY <2>1, <2>2, PastPrev
  <2>4. ArmTaken("label", prev)
    BY <1>1, <2>1, <2>3 DEF ArmTaken
  <2> QED
    BY <2>2, <2>4
<1>7. CASE CaseDefault
  <2>1. AtArm("default") /\ Descend(Expression(NoneOf(Top.prev)), Top.prev)
    BY <1>7 DEF CaseDefault
  <2>2. ArmTaken("default", Top.prev)
    BY <1>1, <1>2, <2>1 DEF ArmTaken
  <2> QED
    BY <1>1, <2>1, <2>2
<1> QED
  BY <1>3, <1>4, <1>5, <1>6, <1>7

LEMMA ArmsWalk ==
    ASSUME TypeInv, CoverInv, PrevInv,
           \/ IfArm \/ ElseIfArm \/ ElseArm \/ CaseLabel \/ CaseDefault
    PROVE  /\ PrevInv'
           /\ SoundInv => SoundInv'
           /\ AllRegular => \A p \in Quiet : CompleteAt(p) => CompleteAt(p)'
           /\ phase = "collect" /\ program' = program
<1>1. PICK kind, prev : prev \in SUBSET Guards /\ ArmTaken(kind, prev)
  BY ArmTakes
<1>2. AtArm(kind) /\ PrevFirst(Past(prev)) /\ phase = "collect"
  BY <1>1 DEF ArmTaken, AtArm
<1>3. CASE \E c \in Conditions : Descend(c, prev)
  <2>1. PICK c \in Conditions : Descend(c, prev)
    BY <1>3
  <2>2. program' = program
    BY <2>1 DEF Descend
  <2> HIDE DEF Past
  <2>3. PrevInv'
    BY <1>1, <1>2, <2>1, DescendPrev
  <2>4. SoundInv => SoundInv'
    BY <1>1, <1>2, <2>1, DescendKeepsSound
  <2>5. \A p \in Quiet : CompleteAt(p) => CompleteAt(p)'
    BY <1>1, <1>2, <2>1, DescendIsComplete
  <2> QED
    BY <1>2, <2>2, <2>3, <2>4, <2>5
<1>4. CASE SkipArm(prev) /\ (AllRegular => Arm.guard.holds \cap Quiet = {})
  <2>1. program' = program
    BY <1>4 DEF SkipArm
  <2> HIDE DEF Past, Arm
  <2>2. PrevInv'
    BY <1>1, <1>2, <1>4, SkipPrev
  <2>3. SoundInv => SoundInv'
    BY <1>1, <1>2, <1>4, SkipSound
  <2>4. AllRegular => \A p \in Quiet : CompleteAt(p) => CompleteAt(p)'
    BY <1>1, <1>2, <1>4, SkipIsComplete
  <2> QED
    BY <1>2, <2>1, <2>2, <2>3, <2>4
<1> QED
  BY <1>1, <1>3, <1>4 DEF ArmTaken
-----------------------------------------------------------------------------
\* The statements of a body.
LEMMA BodyExecuted ==
    ASSUME TypeInv, SoundInv, InBody
    PROVE  /\ FrameExecuted(Advance(Top)) /\ PrevFirst(Advance(Top))
           /\ \A p \in Top.reach : Here \in Executed(p)
<1>1. /\ Top \in BodyFrames /\ Top \in Elements(stack) /\ Advance(Top) \in BodyFrames
      /\ Advance(Top).reach = Top.reach /\ phase = "collect"
      /\ Top.next \in DOMAIN Top.body
  BY HereShape DEF InBody
<1>2. /\ Top.kind = "body" /\ Advance(Top).kind = "body" /\ Advance(Top).body = Top.body
  BY <1>1 DEF BodyFrames, Advance
<1>3. FrameExecuted(Top)
  BY <1>1 DEF SoundInv
<1>4. Here \in NamesIn(Top.body)
  BY <1>1 DEF Here, NamesIn
<1> HIDE DEF Top, Advance, Here
<1> QED
  BY <1>1, <1>2, <1>3, <1>4 DEF FrameExecuted, PrevFirst

LEMMA StatementsWalk ==
    ASSUME TypeInv, CoverInv, Collect \/ EnterChain \/ Leave
    PROVE  /\ PrevInv /\ SoundInv => PrevInv' /\ SoundInv'
           /\ \A p : CompleteAt(p) => CompleteAt(p)'
           /\ phase = "collect" /\ program' = program
<1>1. \A p : CompleteAt(p) => CompleteAt(p)'
  BY CollectIsComplete, EnterIsComplete, LeaveIsComplete
<1>2. phase = "collect" /\ program' = program
  BY DEF Collect, EnterChain, Leave, InBody
<1>3. ASSUME PrevInv, SoundInv, Collect
      PROVE  PrevInv' /\ SoundInv'
  <2>1. InBody /\ asgs' = asgs \cup {Collected}
    BY <1>3 DEF Collect, Collected
  <2>2. Collected.of = Here /\ Collected.reach = Top.reach
    BY DEF Collected
  <2>3. Elements(stack') \subseteq {Advance(Top)} \cup Elements(stack)
    BY <1>3, CollectTypeInv
  <2>4. /\ FrameExecuted(Advance(Top)) /\ PrevFirst(Advance(Top))
        /\ \A p \in Top.reach : Here \in Executed(p)
    BY <1>3, <2>1, BodyExecuted
  <2> HIDE DEF Advance, Top, Here, Collected
  <2>5. \A a \in asgs' \ asgs : \A p \in a.reach : a.of \in Executed(p)
    BY <2>1, <2>2, <2>4
  <2> QED
    BY <1>2, <1>3, <2>3, <2>4, <2>5, KeepsPrev, KeepsSound
<1>4. ASSUME PrevInv, SoundInv, EnterChain
      PROVE  PrevInv' /\ SoundInv'
  <2>1. InBody /\ asgs' = asgs
    BY <1>4 DEF EnterChain
  <2>2. /\ Entered.kind = "chain" /\ Entered.name = Here
        /\ Entered.prev = {} /\ Entered.reach = Top.reach
    BY DEF Entered
  <2>3. Elements(stack') \subseteq {Entered, Advance(Top)} \cup Elements(stack)
    BY <1>4, EnterTypeInv
  <2>4. /\ FrameExecuted(Advance(Top)) /\ PrevFirst(Advance(Top))
        /\ \A p \in Top.reach : Here \in Executed(p)
    BY <1>4, <2>1, BodyExecuted
  <2> HIDE DEF Advance, Top, Here, Entered
  <2>5. FrameExecuted(Entered) /\ PrevFirst(Entered)
    BY <2>2, <2>4 DEF FrameExecuted, PrevFirst
  <2> QED
    BY <1>2, <1>4, <2>1, <2>3, <2>4, <2>5, KeepsPrev, KeepsSound
<1>5. ASSUME PrevInv, SoundInv, Leave
      PROVE  PrevInv' /\ SoundInv'
  <2>1. asgs' = asgs /\ Elements(stack') \subseteq Elements(stack)
    BY <1>5, LeaveTypeInv DEF Leave
  <2> QED
    BY <1>2, <1>5, <2>1, KeepsPrev, KeepsSound
<1> QED
  BY <1>1, <1>2, <1>3, <1>4, <1>5

\* After the walk it is not resumed.
LEMMA WalkEnds ==
    ASSUME \/ DefaultComesFirst \/ BeginSlices \/ BeginNegate \/ Done
           \/ \E v \in Vars : JoinOne(v) \/ JoinTwo(v) \/ OtherSlices(v)
           \/ \E v \in Vars : Negate(v) \/ TwoUnconditional(v)
    PROVE  phase' # "collect"
<1>1. CASE DefaultComesFirst
  BY <1>1 DEF DefaultComesFirst, Fail
<1>2. CASE BeginSlices
  BY <1>2 DEF BeginSlices
<1>3. CASE BeginNegate
  BY <1>3 DEF BeginNegate
<1>4. CASE Done
  BY <1>4 DEF Done
<1>5. CASE \E v \in Vars : JoinOne(v) \/ JoinTwo(v) \/ OtherSlices(v)
  BY <1>5 DEF JoinOne, JoinTwo, OtherSlices, Replace, Fail
<1>6. CASE \E v \in Vars : Negate(v) \/ TwoUnconditional(v)
  BY <1>6 DEF Negate, TwoUnconditional, Fail
<1> QED
  BY <1>1, <1>2, <1>3, <1>4, <1>5, <1>6

WalkInv == CompleteInv /\ SoundInv /\ PrevInv

LEMMA InitWalk == Init => WalkInv
<1> SUFFICES ASSUME Init PROVE WalkInv
  OBVIOUS
<1> DEFINE f == [kind |-> "body", body |-> program.top, next |-> 1,
                 base |-> NoCondition, reach |-> Points]
           N == {program.top[k] : k \in DOMAIN program.top}
<1>1. /\ f.kind = "body" /\ f.body = program.top /\ f.next = 1 /\ f.reach = Points
      /\ NamesIn(f.body) = N
  BY DEF NamesIn
<1>2. stack = <<f>> /\ asgs = {} /\ program \in Programs
  BY DEF Init
<1>3. N \in SUBSET Names
  BY InitTypeInv, TopIsNames
<1>4. program.top \in Seq(Names)
  BY <1>2, ProgramShape
<1>5. \A k \in DOMAIN program.top : k >= 1
  BY <1>4, LenProperties
<1> HIDE DEF f
<1>6. Elements(stack) = {f}
  BY <1>2 DEF Elements
<1>7. PrevInv
  BY <1>1, <1>6 DEF PrevInv, PrevFirst
<1>8. ASSUME NEW p PROVE Executed(p) = ExecutedWith(p, N)
  BY DEF Executed
<1>9. SoundInv
  <2>1. ASSUME NEW p PROVE NamesIn(f.body) \subseteq Executed(p)
    <3> HIDE DEF N
    <3> QED
      BY <1>1, <1>2, <1>3, <1>8, ExecutedIsClosed
  <2>2. FrameExecuted(f)
    BY <1>1, <2>1 DEF FrameExecuted
  <2> QED
    BY <1>2, <1>6, <2>2 DEF SoundInv
<1>10. ASSUME NEW p \in Quiet PROVE CompleteAt(p)
  <2>1. Rest(p) = FrameRest(f, p)
    BY <1>6 DEF Rest
  <2>2. N \subseteq FrameRest(f, p)
    <3>1. p \in Points
      BY QuietAssumption
    <3> QED
      BY <1>1, <1>3, <1>5, <3>1 DEF FrameRest
  <2> HIDE DEF N
  <2>3. ExecutedWith(p, N) \subseteq ExecutedWith(p, Rest(p))
    BY <2>1, <2>2, ExecutedGrows
  <2> QED
    BY <1>8, <2>3 DEF CompleteAt, AssignmentsIn
<1> QED
  BY <1>7, <1>9, <1>10 DEF WalkInv, CompleteInv, CompleteAt

LEMMA NextWalk == TypeInv /\ CoverInv /\ WalkInv /\ [Next]_vars => WalkInv'
<1> SUFFICES ASSUME TypeInv, CoverInv, WalkInv, [Next]_vars PROVE WalkInv'
  OBVIOUS
<1>1. CompleteInv /\ SoundInv /\ PrevInv
  BY DEF WalkInv
<1>2. ASSUME phase = "collect", program' = program,
             AllRegular => \A p \in Quiet : CompleteAt(p) => CompleteAt(p)'
      PROVE  CompleteInv'
  <2>1. AllRegular' <=> AllRegular
    BY <1>2, SameSource
  <2>2. AllRegular => \A p \in Quiet : CompleteAt(p)'
    BY <1>1, <1>2 DEF CompleteInv, CompleteAt
  <2> HIDE DEF AllRegular
  <2> QED
    BY <2>1, <2>2 DEF CompleteInv, CompleteAt
<1>3. CASE Collect \/ EnterChain \/ Leave
  BY <1>1, <1>2, <1>3, StatementsWalk DEF WalkInv
<1>4. CASE IfArm \/ ElseIfArm \/ ElseArm \/ CaseLabel \/ CaseDefault
  BY <1>1, <1>2, <1>4, ArmsWalk DEF WalkInv
<1>5. ASSUME phase' # "collect", UNCHANGED <<program, stack>>
      PROVE  WalkInv'
  <2>1. PrevInv'
    BY <1>1, <1>5, KeepsPrev
  <2> QED
    BY <1>5, <2>1 DEF WalkInv, CompleteInv, SoundInv
<1>6. CASE UNCHANGED vars
  <2>1. UNCHANGED <<program, stack>>
    BY <1>6 DEF vars
  <2>2. PrevInv'
    BY <1>1, <2>1, KeepsPrev
  <2>3. SoundInv'
    BY <1>1, <1>6, <2>1, KeepsSound DEF vars, SoundInv
  <2>4. \A p : CompleteAt(p) => CompleteAt(p)'
    BY <1>6, SameSource DEF vars, CompleteAt, CollectedAt, Rest
  <2> QED
    BY <1>1, <1>2, <1>6, <2>1, <2>2, <2>3, <2>4 DEF vars, WalkInv, CompleteInv
<1> QED
  BY <1>3, <1>4, <1>5, <1>6, WalkEnds, OtherSteps DEF Next

\* Where nothing is left, what was collected is what is executed.
LEMMA WalkIsExecution ==
    ASSUME TypeInv, WalkInv, ConditionIsReach
    PROVE  CollectsExecution
<1> SUFFICES ASSUME phase = "collect", stack = << >>, AllRegular, NEW p \in Quiet
             PROVE  {a.of : a \in {b \in asgs : p \in b.cond.holds}} = AssignmentsIn(Executed(p))
  BY DEF CollectsExecution
<1>1. \A a \in asgs : p \in a.cond.holds <=> p \in a.reach
  BY DEF ConditionIsReach
<1>2. {a.of : a \in {b \in asgs : p \in b.cond.holds}} = CollectedAt(p)
  BY <1>1 DEF CollectedAt
<1>3. CollectedAt(p) \subseteq AssignmentsIn(Executed(p))
  <2>1. \A a \in asgs : Stmt(a.of).kind = "assign"
    BY DEF TypeInv, ChainsAreNamed
  <2> QED
    BY <2>1 DEF CollectedAt, WalkInv, SoundInv, AssignmentsIn
<1>4. AssignmentsIn(Executed(p)) \subseteq CollectedAt(p)
  <2>1. Rest(p) = {}
    BY DEF Rest, Elements
  <2>2. ExecutedWith(p, {}) = {}
    BY DEF ExecutedWith, ClosedAt
  <2>3. AssignmentsIn(Executed(p)) \subseteq CollectedAt(p) \cup ExecutedWith(p, Rest(p))
    BY DEF WalkInv, CompleteInv
  <2> QED
    BY <2>1, <2>2, <2>3
<1> QED
  BY <1>2, <1>3, <1>4

\* CollectsExecution holds of every run, for any set of modules: outside of
\* reset, and where chains are regular, from_tree and get_assignments collect
\* the assignments that the source executes, no more and no fewer.
THEOREM WalkCollectsExecution == Spec => []CollectsExecution
<1>1. CoverInv /\ ExactInv => ConditionIsReach
  BY DEF CoverInv, ExactInv, ConditionCoversReach, ConditionIsReach
<1>2. TypeInv /\ CoverInv /\ ExactInv /\ WalkInv => CollectsExecution
  BY <1>1, WalkIsExecution
<1> QED
  BY <1>2, InitTypeInv, NextTypeInv, InitCovers, NextCovers, InitExact, NextExact,
     InitWalk, NextWalk, PTL DEF Spec
-----------------------------------------------------------------------------
(* The graph follows the source.                                             *)

EdgeOf(a) == Edge(a, Of(VarOf(a)))

\* The edges added so far are those of the variables dealt with.
GraphInv ==
    /\ phase \in {"collect", "slices"} => graph = {}
    /\ phase \in {"negate", "done"} =>
         graph = {EdgeOf(a) : a \in {b \in asgs : ~Stmt(b.of).x /\ VarOf(b) \notin todo}}
    /\ phase = "done" => todo = {}

LEMMA AssignedVar == TypeInv => \A a \in asgs : VarOf(a) \in Vars
<1> SUFFICES ASSUME TypeInv, NEW a \in asgs PROVE VarOf(a) \in Vars
  OBVIOUS
<1>1. a.of \in Names /\ Stmt(a.of).kind = "assign"
  BY DEF TypeInv, TypeOK, ChainsAreNamed, Assignments
<1>2. Stmt(a.of) \in Assigns
  BY <1>1, ProgramShape DEF TypeInv, TypeOK
<1> QED
  BY <1>2 DEF Assigns, VarOf

LEMMA NextGraph == TypeInv /\ GraphInv /\ [Next]_vars => GraphInv'
<1> SUFFICES ASSUME TypeInv, GraphInv, [Next]_vars PROVE GraphInv'
  OBVIOUS
<1>1. CASE phase' \in {"collect", "slices"} /\ phase \in {"collect", "slices"} /\ graph' = graph
  BY <1>1 DEF GraphInv
<1>2. CASE phase' = "failed"
  BY <1>2 DEF GraphInv
<1>3. CASE BeginNegate
  <2>1. graph' = {} /\ todo' = Vars /\ phase' = "negate"
    BY <1>3 DEF BeginNegate, GraphInv
  <2>2. \A a \in asgs' : VarOf(a)' \in Vars
    <3>1. OnlyBits /\ program' = program
      BY <1>3, BeginNegateTypeInv
    <3> QED
      BY <3>1, AssignedVar DEF OnlyBits, VarOf, Stmt
  <2> QED
    BY <2>1, <2>2 DEF GraphInv
<1>4. ASSUME NEW v \in Vars, Negate(v) PROVE GraphInv'
  <2>1. /\ graph' = graph \cup {Edge(a, Of(v)) : a \in {b \in Of(v) : ~Stmt(b.of).x}}
        /\ todo' = todo \ {v} /\ v \in todo /\ phase = "negate" /\ phase' = "negate"
        /\ UNCHANGED <<program, asgs>>
    BY <1>4 DEF Negate
  <2>2. \A a : /\ EdgeOf(a)' = EdgeOf(a) /\ VarOf(a)' = VarOf(a)
               /\ Stmt(a.of)' = Stmt(a.of)
    BY <2>1 DEF EdgeOf, Edge, EdgeCondition, Of, VarOf, Stmt, OthersFail
  <2> HIDE DEF EdgeOf, Stmt
  <2>3. {Edge(a, Of(v)) : a \in {b \in Of(v) : ~Stmt(b.of).x}}
          = {EdgeOf(a) : a \in {b \in asgs : ~Stmt(b.of).x /\ VarOf(b) = v}}
    BY DEF Of, EdgeOf
  <2>4. graph = {EdgeOf(a) : a \in {b \in asgs : ~Stmt(b.of).x /\ VarOf(b) \notin todo}}
    BY <2>1 DEF GraphInv
  <2>5. graph' = {EdgeOf(a) : a \in {b \in asgs : ~Stmt(b.of).x /\ VarOf(b) \notin todo'}}
    BY <2>1, <2>3, <2>4
  <2> QED
    BY <2>1, <2>2, <2>5 DEF GraphInv
<1>5. CASE Done
  <2>1. \A a : /\ EdgeOf(a)' = EdgeOf(a) /\ VarOf(a)' = VarOf(a)
               /\ Stmt(a.of)' = Stmt(a.of)
    BY <1>5 DEF Done, EdgeOf, Edge, EdgeCondition, Of, VarOf, Stmt, OthersFail
  <2> QED
    BY <1>5, <2>1 DEF Done, GraphInv
<1>6. CASE UNCHANGED vars
  <2>1. \A a : /\ EdgeOf(a)' = EdgeOf(a) /\ VarOf(a)' = VarOf(a)
               /\ Stmt(a.of)' = Stmt(a.of)
    BY <1>6 DEF vars, EdgeOf, Edge, EdgeCondition, Of, VarOf, Stmt, OthersFail
  <2> QED
    BY <1>6, <2>1 DEF vars, GraphInv
<1>7. CASE Collect \/ EnterChain \/ Leave \/ BeginSlices
  BY <1>1, <1>7 DEF Collect, EnterChain, Leave, BeginSlices, InBody
<1>8. CASE IfArm \/ ElseIfArm \/ ElseArm \/ CaseLabel \/ CaseDefault
  BY <1>1, <1>8 DEF IfArm, ElseIfArm, ElseArm, CaseLabel, CaseDefault, AtArm,
                    SkipArm, Descend
<1>9. CASE DefaultComesFirst
  BY <1>2, <1>9 DEF DefaultComesFirst, Fail
<1>10. ASSUME NEW v \in Vars, JoinOne(v) \/ JoinTwo(v) \/ OtherSlices(v) PROVE GraphInv'
  BY <1>1, <1>2, <1>10 DEF JoinOne, JoinTwo, OtherSlices, Replace, Fail
<1>11. ASSUME NEW v \in Vars, TwoUnconditional(v) PROVE GraphInv'
  BY <1>2, <1>11 DEF TwoUnconditional, Fail
<1> QED
  BY <1>3, <1>4, <1>5, <1>6, <1>7, <1>8, <1>9, <1>10, <1>11 DEF Next

\* Where conditions are exact, an edge holds where its assignment prevails.
LEMMA EdgeHolds ==
    ASSUME TypeInv, ConditionIsReach, AllRegular, NEW a \in asgs, NEW p \in Quiet
    PROVE  p \in EdgeOf(a).holds <=> Prevails(a, p)
<1> DEFINE A == Of(VarOf(a))
<1>1. p \in Points /\ A \subseteq asgs /\ a \in A
  BY QuietAssumption DEF Of
<1>2. \A b \in asgs : p \in b.cond.holds <=> p \in b.reach
  BY DEF ConditionIsReach
<1>3. a.cond.none => a.cond.holds = Points
  BY DEF TypeInv, TypeOK, Assignments, Conditions
<1>4. EdgeOf(a).holds = EdgeCondition(a, A)
  BY DEF EdgeOf, Edge
<1>5. CASE ~a.cond.none
  BY <1>1, <1>2, <1>4, <1>5 DEF EdgeCondition, Prevails
<1>6. CASE a.cond.none
  <2>1. p \in EdgeCondition(a, A) <=> \A b \in A \ {a} : p \notin b.cond.holds
    BY <1>1, <1>6 DEF EdgeCondition, OthersFail
  <2> QED
    BY <1>1, <1>2, <1>3, <1>4, <1>6, <2>1 DEF Prevails
<1> QED
  BY <1>5, <1>6

\* EdgesFollowReach holds of every run, for any set of modules: outside of
\* reset, and where chains are regular, the graph assigns at a point what the
\* source executes there.
THEOREM GraphFollowsTheSource == Spec => []EdgesFollowReach
<1>1. Init => GraphInv
  BY DEF Init, GraphInv
<1>2. TypeInv /\ ConditionIsReach /\ GraphInv => EdgesFollowReach
  <2> SUFFICES ASSUME TypeInv, ConditionIsReach, GraphInv, phase = "done", AllRegular,
                      NEW p \in Quiet
               PROVE  {<<e.of, e.bits>> : e \in {f \in graph : p \in f.holds}}
                        = {<<a.of, a.bits>> :
                             a \in {b \in asgs : ~Stmt(b.of).x /\ Prevails(b, p)}}
    BY DEF EdgesFollowReach
  <2>1. graph = {EdgeOf(a) : a \in {b \in asgs : ~Stmt(b.of).x}}
    BY DEF GraphInv
  <2>2. \A a \in asgs : EdgeOf(a).of = a.of /\ EdgeOf(a).bits = a.bits
    BY DEF EdgeOf, Edge
  <2>3. \A a \in asgs : p \in EdgeOf(a).holds <=> Prevails(a, p)
    BY EdgeHolds
  <2> HIDE DEF EdgeOf, Prevails, Stmt
  <2> QED
    BY <2>1, <2>2, <2>3
<1> QED
  BY <1>1, <1>2, InitTypeInv, NextTypeInv, NextGraph, ConditionsExact, PTL DEF Spec
-----------------------------------------------------------------------------
(* Slices are put together in place.                                         *)

\* what is to be shown of the assignment b that takes the place of a
InPlace(a, b, S, w) ==
    /\ b.of = a.of /\ b.cond = a.cond /\ b.slice = NoSlice
    /\ Len(b.bits) = w
    /\ \A s \in S, i \in 1..w : InSlice(s, i) => b.bits[i] = s.bits[i - Lsb(s)]

SlicedAssignments == {a \in Assignments : a.slice # NoSlice}

\* The bounds and bits of a sliced assignment.
LEMMA SliceShape ==
    ASSUME NEW a \in SlicedAssignments
    PROVE  /\ Lsb(a) \in Nat /\ Msb(a) \in Nat /\ Lsb(a) <= Msb(a)
           /\ a.bits \in Seq(Names \X Nat)
BY DEF SlicedAssignments, Assignments, Slices, Lsb, Msb

\* q is made of x, y and z, and y lies at l to m of its w positions.
Parts(q, x, y, z, l, m, w) ==
    /\ Len(q) = w
    /\ \A i \in 1..w : i <= l => q[i] = x[i]
    /\ \A i \in 1..w : l < i /\ i <= m + 1 => q[i] = y[i - l]
    /\ \A i \in 1..w : m + 1 < i => q[i] = z[i - (m + 1)]

\* Concatenation by positions.
LEMMA ConcatParts ==
    ASSUME NEW S, NEW x \in Seq(S), NEW y \in Seq(S), NEW z \in Seq(S),
           NEW l \in Nat, NEW m \in Nat, NEW w \in Nat, l <= m,
           Len(x) = l, Len(y) = m - l + 1, Len(z) = w - 1 - m
    PROVE  Parts(x \o y \o z, x, y, z, l, m, w)
<1> DEFINE p == x \o y
           q == p \o z
<1>1. /\ p \in Seq(S) /\ Len(p) = m + 1
      /\ \A i \in 1..m + 1 : p[i] = IF i <= l THEN x[i] ELSE y[i - l]
  <2>1. /\ p \in Seq(S) /\ Len(p) = Len(x) + Len(y)
        /\ \A i \in 1..Len(x) + Len(y) :
             p[i] = IF i <= Len(x) THEN x[i] ELSE y[i - Len(x)]
    BY ConcatProperties
  <2>2. Len(x) + Len(y) = m + 1
    OBVIOUS
  <2> HIDE DEF p
  <2> QED
    BY <2>1, <2>2
<1> HIDE DEF p
<1>2. /\ Len(q) = w
      /\ \A i \in 1..w : q[i] = IF i <= m + 1 THEN p[i] ELSE z[i - (m + 1)]
  <2>1. /\ Len(q) = Len(p) + Len(z)
        /\ \A i \in 1..Len(p) + Len(z) :
             q[i] = IF i <= Len(p) THEN p[i] ELSE z[i - Len(p)]
    BY <1>1, ConcatProperties
  <2>2. Len(p) + Len(z) = w
    BY <1>1
  <2> HIDE DEF q
  <2> QED
    BY <1>1, <2>1, <2>2
<1> HIDE DEF q
<1>3. ASSUME NEW i \in 1..w, i <= l PROVE q[i] = x[i]
  <2>1. i \in 1..m + 1
    BY <1>3
  <2> QED
    BY <1>1, <1>2, <1>3, <2>1
<1>4. ASSUME NEW i \in 1..w, l < i, i <= m + 1 PROVE q[i] = y[i - l]
  <2>1. i \in 1..m + 1 /\ ~(i <= l)
    BY <1>4
  <2> QED
    BY <1>1, <1>2, <1>4, <2>1
<1>5. ASSUME NEW i \in 1..w, m + 1 < i PROVE q[i] = z[i - (m + 1)]
  <2>1. ~(i <= m + 1)
    BY <1>5
  <2> QED
    BY <1>2, <2>1
<1> QED
  BY <1>2, <1>3, <1>4, <1>5 DEF Parts, p, q

\* The arithmetic of three intervals: 0..ml, la..ma and lh..w-1 make up 0..w-1.
LEMMA Between ==
    ASSUME NEW w \in Nat, NEW la \in Nat, NEW ma \in Nat, NEW ml \in Nat, NEW lh \in Nat,
           la <= ma, ma < w, lh < w, ml < w,
           \A i \in 1..w : \/ i <= ml + 1
                           \/ lh < i
                           \/ la < i /\ i <= ma + 1,
           \A i \in 1..w : ~(i <= ml + 1 /\ la < i /\ i <= ma + 1),
           \A i \in 1..w : ~(lh < i /\ la < i /\ i <= ma + 1)
    PROVE  la = ml + 1 /\ lh = ma + 1
<1>1. ml < la
  <2>1. la + 1 \in 1..w
   OBVIOUS
  <2> QED
   BY <2>1
<1>2. ma < lh
  <2>1. ma + 1 \in 1..w
   OBVIOUS
  <2> QED
   BY <2>1
<1>3. la = ml + 1
  <2>1. ml + 2 \in 1..w
   BY <1>1
  <2> QED
   BY <2>1, <1>1, <1>2
<1>4. lh = ma + 1
  <2>1. lh \in 1..w
   BY <1>2
  <2> QED
   BY <2>1, <1>1, <1>2
<1> QED
  BY <1>3, <1>4

\* What Joined changes of an assignment.
LEMMA JoinedBits ==
    ASSUME NEW a \in Assignments, NEW low, NEW high
    PROVE  /\ Joined(a, low, high).bits = low \o a.bits \o high
           /\ Joined(a, low, high).of = a.of /\ Joined(a, low, high).cond = a.cond
           /\ Joined(a, low, high).slice = NoSlice
BY DEF Joined, Assignments

\* The same of an assignment made of low, the bits of a and high.
LEMMA JoinedInPlace ==
    ASSUME NEW a \in SlicedAssignments,
           NEW low \in Seq(Names \X Nat), NEW high \in Seq(Names \X Nat)
    PROVE  \A w \in Nat :
             /\ Len(low) = Lsb(a) /\ Len(a.bits) = Msb(a) - Lsb(a) + 1
             /\ Len(high) = w - 1 - Msb(a)
             => LET b == Joined(a, low, high) IN
                /\ b.of = a.of /\ b.cond = a.cond /\ b.slice = NoSlice
                /\ Parts(b.bits, low, a.bits, high, Lsb(a), Msb(a), w)
<1>1. /\ Lsb(a) \in Nat /\ Msb(a) \in Nat /\ Lsb(a) <= Msb(a)
      /\ a.bits \in Seq(Names \X Nat)
  BY SliceShape
<1>2. \A w \in Nat :
        /\ Len(low) = Lsb(a) /\ Len(a.bits) = Msb(a) - Lsb(a) + 1
        /\ Len(high) = w - 1 - Msb(a)
        => Parts(low \o a.bits \o high, low, a.bits, high, Lsb(a), Msb(a), w)
  <2> DEFINE l == Lsb(a)
             m == Msb(a)
             bits == a.bits
  <2>1. l \in Nat /\ m \in Nat /\ l <= m /\ bits \in Seq(Names \X Nat)
    BY <1>1
  <2> HIDE DEF l, m, bits, Parts
  <2>2. ASSUME NEW w \in Nat, Len(low) = l, Len(bits) = m - l + 1, Len(high) = w - 1 - m
        PROVE  Parts(low \o bits \o high, low, bits, high, l, m, w)
    <3> DEFINE q == low \o bits \o high
    <3> QED
      BY <2>1, <2>2, ConcatParts
  <2> QED
    BY <2>2 DEF l, m, bits
<1>3. a \in Assignments
  BY DEF SlicedAssignments
<1> HIDE DEF Joined, Parts
<1> DEFINE b == Joined(a, low, high)
           q == low \o a.bits \o high
<1>4. /\ b.of = a.of /\ b.cond = a.cond /\ b.slice = NoSlice
      /\ b.bits = q
  BY <1>3, JoinedBits
<1> HIDE DEF b
<1>5. \A w \in Nat :
        /\ Len(low) = Lsb(a) /\ Len(a.bits) = Msb(a) - Lsb(a) + 1
        /\ Len(high) = w - 1 - Msb(a)
        => Parts(q, low, a.bits, high, Lsb(a), Msb(a), w)
  BY <1>2
<1> HIDE DEF q
<1> QED
  BY <1>4, <1>5 DEF b

\* Two tiles: the assertion of one_unconditional puts one next to the other.
LEMMA TwoInPlace ==
    ASSUME NEW w \in Nat, NEW u \in SlicedAssignments, NEW a \in SlicedAssignments,
           Tiles({u, a}, w), Covers(u, a, w)
    PROVE  InPlace(a, JoinWith(u, a, w), {u, a}, w)
<1>1. /\ Lsb(a) \in Nat /\ Msb(a) \in Nat /\ Lsb(a) <= Msb(a)
      /\ Lsb(u) \in Nat /\ Msb(u) \in Nat /\ Lsb(u) <= Msb(u)
  BY SliceShape
<1>2. /\ Msb(a) < w /\ Len(a.bits) = Msb(a) - Lsb(a) + 1
      /\ Msb(u) < w /\ Len(u.bits) = Msb(u) - Lsb(u) + 1
  BY DEF Tiles
<1> DEFINE none == << >>
<1>3. none \in Seq(Names \X Nat) /\ Len(none) = 0 /\ u.bits \in Seq(Names \X Nat)
  BY EmptySeq, SliceShape
<1>4. Msb(a) - Lsb(a) # w
  BY <1>1, <1>2
<1> DEFINE b == JoinWith(u, a, w)
<1> HIDE DEF Joined, Lsb, Msb, Parts, none
<1>5. CASE Lsb(a) = 0
  <2>1. Msb(a) + 1 = Lsb(u) /\ Msb(u) = w - 1
    BY <1>1, <1>2, <1>4, <1>5 DEF Covers
  <2>2. b = Joined(a, none, u.bits)
    BY <1>4, <1>5 DEF JoinWith, none
  <2>3. Len(u.bits) = w - 1 - Msb(a)
    BY <1>1, <1>2, <2>1
  <2> HIDE DEF b
  <2>4. Len(none) = Lsb(a)
    BY <1>3, <1>5
  <2>5. \A n \in Nat :
          /\ Len(none) = Lsb(a) /\ Len(a.bits) = Msb(a) - Lsb(a) + 1
          /\ Len(u.bits) = n - 1 - Msb(a)
          => LET c == Joined(a, none, u.bits) IN
             /\ c.of = a.of /\ c.cond = a.cond /\ c.slice = NoSlice
             /\ Parts(c.bits, none, a.bits, u.bits, Lsb(a), Msb(a), n)
    BY <1>3, JoinedInPlace
  <2>6. /\ b.of = a.of /\ b.cond = a.cond /\ b.slice = NoSlice
        /\ Parts(b.bits, none, a.bits, u.bits, Lsb(a), Msb(a), w)
    BY <1>2, <2>2, <2>3, <2>4, <2>5
  <2>7. /\ Len(b.bits) = w
        /\ \A i \in 1..w : InSlice(a, i) => b.bits[i] = a.bits[i - Lsb(a)]
        /\ \A i \in 1..w : Msb(a) + 1 < i => b.bits[i] = u.bits[i - (Msb(a) + 1)]
    BY <2>6 DEF Parts, InSlice
  <2>8. \A i \in 1..w : InSlice(u, i) => b.bits[i] = u.bits[i - Lsb(u)]
    BY <2>1, <2>7 DEF InSlice
  <2> QED
    BY <2>7, <2>8, <2>6 DEF InPlace, b
<1>6. CASE Lsb(a) # 0
  <2>1. Msb(a) = w - 1 /\ Lsb(a) = Msb(u) + 1 /\ Lsb(u) = 0
    BY <1>1, <1>2, <1>4, <1>6 DEF Covers
  <2>2. b = Joined(a, u.bits, none)
    BY <1>4, <1>6 DEF JoinWith, none
  <2>3. Len(u.bits) = Lsb(a) /\ 0 = w - 1 - Msb(a)
    BY <1>1, <1>2, <2>1
  <2> HIDE DEF b
  <2>4. Len(none) = w - 1 - Msb(a)
    BY <1>3, <2>3
  <2>5. \A n \in Nat :
          /\ Len(u.bits) = Lsb(a) /\ Len(a.bits) = Msb(a) - Lsb(a) + 1
          /\ Len(none) = n - 1 - Msb(a)
          => LET c == Joined(a, u.bits, none) IN
             /\ c.of = a.of /\ c.cond = a.cond /\ c.slice = NoSlice
             /\ Parts(c.bits, u.bits, a.bits, none, Lsb(a), Msb(a), n)
    BY <1>3, JoinedInPlace
  <2>6. /\ b.of = a.of /\ b.cond = a.cond /\ b.slice = NoSlice
        /\ Parts(b.bits, u.bits, a.bits, none, Lsb(a), Msb(a), w)
    BY <1>2, <2>2, <2>3, <2>4, <2>5
  <2>7. /\ Len(b.bits) = w
        /\ \A i \in 1..w : InSlice(a, i) => b.bits[i] = a.bits[i - Lsb(a)]
        /\ \A i \in 1..w : i <= Lsb(a) => b.bits[i] = u.bits[i]
    BY <2>6 DEF Parts, InSlice
  <2>8. \A i \in 1..w : InSlice(u, i) => b.bits[i] = u.bits[i - Lsb(u)]
    BY <2>1, <2>7 DEF InSlice
  <2> QED
    BY <2>7, <2>8, <2>6 DEF InPlace, b
<1> QED
  BY <1>5, <1>6

\* Tiles that begin with low and end with high leave a between them.
LEMMA ThreeInPlace ==
    ASSUME NEW w \in Nat \ {0}, NEW low \in SlicedAssignments,
           NEW high \in SlicedAssignments, NEW a \in SlicedAssignments,
           a # low, a # high,
           Tiles({low, high, a}, w), Lsb(low) = 0, Msb(high) = w - 1
    PROVE  InPlace(a, Joined(a, low.bits, high.bits), {low, high, a}, w)
<1>1. /\ Lsb(a) \in Nat /\ Msb(a) \in Nat /\ Lsb(a) <= Msb(a)
      /\ Msb(low) \in Nat /\ Lsb(high) \in Nat /\ Lsb(high) <= Msb(high)
  BY SliceShape
<1>2. /\ Msb(a) < w /\ Len(a.bits) = Msb(a) - Lsb(a) + 1
      /\ Msb(low) < w /\ Len(low.bits) = Msb(low) - Lsb(low) + 1
      /\ Len(high.bits) = Msb(high) - Lsb(high) + 1
  BY DEF Tiles
<1>3. low.bits \in Seq(Names \X Nat) /\ high.bits \in Seq(Names \X Nat)
  BY SliceShape
<1>4. /\ \A i \in 1..w : InSlice(low, i) \/ InSlice(high, i) \/ InSlice(a, i)
      /\ \A i \in 1..w : ~(InSlice(low, i) /\ InSlice(a, i))
      /\ \A i \in 1..w : ~(InSlice(high, i) /\ InSlice(a, i))
  BY DEF Tiles
<1>5. Lsb(a) = Msb(low) + 1 /\ Lsb(high) = Msb(a) + 1
  <2> DEFINE la == Lsb(a)
             ma == Msb(a)
             ml == Msb(low)
             lh == Lsb(high)
  <2>1. /\ la \in Nat /\ ma \in Nat /\ la <= ma /\ ml \in Nat /\ lh \in Nat
        /\ ma < w /\ ml < w /\ lh <= w - 1
    BY <1>1, <1>2
  <2>2. \A i \in 1..w : /\ InSlice(low, i) <=> 0 < i /\ i <= ml + 1
                        /\ InSlice(high, i) <=> lh < i /\ i <= (w - 1) + 1
                        /\ InSlice(a, i) <=> la < i /\ i <= ma + 1
    BY DEF InSlice
  <2> HIDE DEF la, ma, ml, lh
  <2>3. \A i \in 1..w : i <= ml + 1 \/ lh < i \/ (la < i /\ i <= ma + 1)
    BY <1>4, <2>2
  <2>4. \A i \in 1..w : ~(i <= ml + 1 /\ la < i /\ i <= ma + 1)
    BY <1>4, <2>2
  <2>5. \A i \in 1..w : ~(lh < i /\ la < i /\ i <= ma + 1)
    BY <1>4, <2>2
  <2>6. lh < w
    BY <2>1
  <2>7. la = ml + 1 /\ lh = ma + 1
    BY <2>1, <2>3, <2>4, <2>5, <2>6, Between
  <2> QED
    BY <2>7 DEF la, ma, ml, lh
<1> DEFINE b == Joined(a, low.bits, high.bits)
<1> HIDE DEF Joined, Lsb, Msb, Parts
<1>6. Len(low.bits) = Lsb(a) /\ Len(high.bits) = w - 1 - Msb(a)
  BY <1>1, <1>2, <1>5
<1>7. /\ b.of = a.of /\ b.cond = a.cond /\ b.slice = NoSlice
      /\ Parts(b.bits, low.bits, a.bits, high.bits, Lsb(a), Msb(a), w)
  BY <1>2, <1>3, <1>6, JoinedInPlace
<1> HIDE DEF b
<1>8. /\ Len(b.bits) = w
      /\ \A i \in 1..w : i <= Lsb(a) => b.bits[i] = low.bits[i]
      /\ \A i \in 1..w : InSlice(a, i) => b.bits[i] = a.bits[i - Lsb(a)]
      /\ \A i \in 1..w : Msb(a) + 1 < i => b.bits[i] = high.bits[i - (Msb(a) + 1)]
  BY <1>7 DEF Parts, InSlice
<1>9. \A i \in 1..w : InSlice(low, i) => b.bits[i] = low.bits[i - Lsb(low)]
  BY <1>5, <1>8 DEF InSlice
<1>10. \A i \in 1..w : InSlice(high, i) => b.bits[i] = high.bits[i - Lsb(high)]
  BY <1>5, <1>8 DEF InSlice
<1> QED
  BY <1>8, <1>9, <1>10, <1>7 DEF InPlace, b

\* Every assignment to a slice has the shape of one.
LEMMA SlicedShape ==
    ASSUME TypeInv
    PROVE  \A v \in Vars : Sliced(v) \subseteq SlicedAssignments
BY DEF TypeInv, TypeOK, Sliced, SlicedAssignments

\* SlicesInPlace holds of every run, for any set of modules.
THEOREM SlicesJoinInPlace == Spec => SlicesInPlace
<1> DEFINE Step ==
      \A v \in Vars : \A a \in Sliced(v) \ Unconditional(Sliced(v)) :
        LET S == Unconditional(Sliced(v)) \cup {a} IN
        phase = "slices" /\ v \in todo /\ v \notin todo' /\ Tiles(S, Width[v]) =>
          \E b \in asgs' :
            /\ b.of = a.of /\ b.cond = a.cond /\ b.slice = NoSlice
            /\ Len(b.bits) = Width[v]
            /\ \A s \in S, i \in 1..Width[v] :
                 InSlice(s, i) => b.bits[i] = s.bits[i - Lsb(s)]
<1>1. ASSUME TypeInv, Next PROVE Step
  <2> SUFFICES ASSUME NEW v \in Vars, NEW a \in Sliced(v) \ Unconditional(Sliced(v)),
                      phase = "slices", v \in todo, v \notin todo',
                      Tiles(Unconditional(Sliced(v)) \cup {a}, Width[v])
               PROVE  \E b \in asgs' :
                        InPlace(a, b, Unconditional(Sliced(v)) \cup {a}, Width[v])
    BY DEF InPlace
  <2>1. Width[v] \in Nat \ {0}
    BY WidthAssumption
  <2>2. Sliced(v) \subseteq SlicedAssignments
    BY <1>1, SlicedShape
  <2>3. JoinOne(v) \/ JoinTwo(v)
    <3>1. ASSUME NEW x \in Vars, JoinOne(x) \/ JoinTwo(x) \/ OtherSlices(x)
          PROVE  JoinOne(v) \/ JoinTwo(v)
      <4>1. todo' = todo \ {x} \/ todo' = todo
        BY <3>1 DEF JoinOne, JoinTwo, OtherSlices, Replace, Fail
      <4>2. x = v /\ todo' # todo
        BY <4>1
      <4>3. ~OtherSlices(x)
        BY <4>2 DEF OtherSlices, Fail
      <4> QED
        BY <3>1, <4>2, <4>3
    <3>2. ~BeginNegate
      BY DEF BeginNegate
    <3>3. ~(Collect \/ EnterChain \/ Leave \/ BeginSlices \/ DefaultComesFirst \/ Done)
      BY DEF Collect, EnterChain, Leave, BeginSlices, InBody, DefaultComesFirst, AtArm, Done
    <3>4. ~(IfArm \/ ElseIfArm \/ ElseArm \/ CaseLabel \/ CaseDefault)
      BY DEF IfArm, ElseIfArm, ElseArm, CaseLabel, CaseDefault, AtArm
    <3>5. \A x \in Vars : ~(Negate(x) \/ TwoUnconditional(x))
      BY DEF Negate, TwoUnconditional
    <3> QED
      BY <1>1, <3>1, <3>2, <3>3, <3>4, <3>5 DEF Next
  <2>4. CASE JoinOne(v)
    <3>1. PICK u \in Sliced(v) :
            /\ Unconditional(Sliced(v)) = {u}
            /\ IF \A c \in Sliced(v) \ {u} : Covers(u, c, Width[v])
                 THEN Replace(v, {JoinWith(u, c, Width[v]) : c \in Sliced(v) \ {u}})
                 ELSE Fail
      BY <2>4 DEF JoinOne
    <3>2. ~Fail
      BY DEF Fail
    <3>3. Covers(u, a, Width[v])
      BY <3>1, <3>2
    <3>4. Unconditional(Sliced(v)) \cup {a} = {u, a}
      BY <3>1
    <3> HIDE DEF JoinWith
    <3>5. JoinWith(u, a, Width[v]) \in asgs'
      BY <3>1, <3>2 DEF Replace
    <3>6. InPlace(a, JoinWith(u, a, Width[v]), {u, a}, Width[v])
      BY <2>1, <2>2, <3>3, <3>4, TwoInPlace
    <3> QED
      BY <3>4, <3>5, <3>6
  <2>5. CASE JoinTwo(v)
    <3>1. PICK low \in Sliced(v), high \in Sliced(v) :
            /\ low # high
            /\ Unconditional(Sliced(v)) = {low, high}
            /\ IF Lsb(low) = 0 /\ Msb(high) = Width[v] - 1
                 THEN Replace(v, {Joined(c, low.bits, high.bits) :
                                    c \in Sliced(v) \ {low, high}})
                 ELSE Fail
      BY <2>5 DEF JoinTwo
    <3>2. ~Fail
      BY DEF Fail
    <3>3. Lsb(low) = 0 /\ Msb(high) = Width[v] - 1
      BY <3>1, <3>2
    <3>4. Unconditional(Sliced(v)) \cup {a} = {low, high, a} /\ a # low /\ a # high
      BY <3>1
    <3> HIDE DEF Joined
    <3>5. Joined(a, low.bits, high.bits) \in asgs'
      BY <3>1, <3>2, <3>4 DEF Replace
    <3>6. InPlace(a, Joined(a, low.bits, high.bits), {low, high, a}, Width[v])
      BY <2>1, <2>2, <3>1, <3>3, <3>4, ThreeInPlace
    <3> QED
      BY <3>4, <3>5, <3>6
  <2> QED
    BY <2>3, <2>4, <2>5
<1>2. TypeInv /\ [Next]_vars => [Step]_vars
  BY <1>1
<1> QED
  BY <1>2, InitTypeInv, NextTypeInv, PTL DEF Spec, SlicesInPlace
=============================================================================
