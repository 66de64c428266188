-------------------------- MODULE CreateFsmProofs --------------------------
(***************************************************************************)
(* Proofs about create_fsm for every program: the FSM it returns is the    *)
(* one its consumers assume.  The argument is in the keys: while           *)
(* transitions are added, the keys into a state are below its in-degree,   *)
(* so a new key is fresh, and redirecting to a state with no way in keeps  *)
(* them apart.  The start state is the one the scores elect: they count    *)
(* what has been added, and the election waits for all of it.              *)
(***************************************************************************)
EXTENDS CreateFsm, FiniteSetTheorems, TLAPS

Adding == pc \in {"add", "elect"}
Elected == pc \in {"convert", "check", "returned"}

KeysBelowInDegree ==
  Adding =>
    /\ IsFiniteSet(Transitions)
    /\ \A e \in Transitions : e[3] < InDegree(Transitions, e[2])

StopUntouched ==
  Adding => Transitions \subseteq States \X States \X Nat

StartAndStop ==
  Elected =>
    /\ start \in States
    /\ Preds(Transitions, start) = {}
    /\ Succs(Transitions, Stop) = {}

Reachable == pc = "returned" => UnreachableStates(Transitions) = {}

\* Every pair of fsm_edges is still to do or has its transition.
AskedOrAdded ==
  Adding =>
    /\ \A x \in todo : x[1] \in program.asg[x[2]].in
    /\ \A s \in StateNode, a \in Asg : s \in program.asg[a].in =>
         \/ <<s, a>> \in todo
         \/ \E e \in Transitions :
              e[1] = s /\ e[2] = program.asg[a].to /\ asgOf[e] = a
    /\ \A e \in Transitions :
         /\ e[1] \in program.asg[asgOf[e]].in
         /\ e[2] = program.asg[asgOf[e]].to
    /\ pc = "elect" => todo = {}

RequestedKept == Elected => Realised = Requested(start)

IInv ==
  /\ TypeOK
  /\ KeysBelowInDegree
  /\ StopUntouched
  /\ KeysUnique(Transitions)
  /\ StartAndStop
  /\ Reachable
  /\ AskedOrAdded
  /\ RequestedKept

----------------------------------------------------------------------------
(* Edges and their keys.                                                   *)

LEMMA InDegreeNat ==
  ASSUME NEW E, IsFiniteSet(E), NEW t
  PROVE  /\ IsFiniteSet({e \in E : e[2] = t})
         /\ InDegree(E, t) \in Nat
<1>1. {e \in E : e[2] = t} \subseteq E
  OBVIOUS
<1>2. IsFiniteSet({e \in E : e[2] = t})
  BY <1>1, FS_Subset
<1> QED
  BY <1>2, FS_CardinalityType DEF InDegree

\* A new edge adds one to the in-degree of its target only.
LEMMA InDegreeGrows ==
  ASSUME NEW E, IsFiniteSet(E), NEW d, d \notin E, NEW t
  PROVE  InDegree(E \cup {d}, t) =
           IF d[2] = t THEN InDegree(E, t) + 1 ELSE InDegree(E, t)
<1> DEFINE into == {e \in E : e[2] = t}
           after == {e \in E \cup {d} : e[2] = t}
<1>1. IsFiniteSet(into) /\ d \notin into
  BY InDegreeNat
<1>2. after = IF d[2] = t THEN into \cup {d} ELSE into
  OBVIOUS
<1>3. InDegree(E, t) = Cardinality(into) /\ InDegree(E \cup {d}, t) = Cardinality(after)
  BY DEF InDegree
<1> HIDE DEF into, after
<1>4. Cardinality(into \cup {d}) = Cardinality(into) + 1
  BY <1>1, FS_AddElement
<1> QED
  BY <1>2, <1>3, <1>4

(***************************************************************************)
(* When the keys into each state are below its in-degree, the next key is  *)
(* not in use and both facts hold of the larger graph.                     *)
(***************************************************************************)
LEMMA NewKeyIsFresh ==
  ASSUME NEW E, IsFiniteSet(E), E \subseteq StateNode \X StateNode \X Nat,
         KeysUnique(E),
         \A e \in E : e[3] < InDegree(E, e[2]),
         NEW s \in StateNode, NEW t \in StateNode,
         NEW d, d = <<s, t, NewKey(E, s, t)>>
  PROVE  /\ d \notin E
         /\ KeysUnique(E \cup {d})
         /\ \A e \in E \cup {d} : e[3] < InDegree(E \cup {d}, e[2])
<1>1. d[2] = t /\ d[3] = InDegree(E, t)
  BY DEF NewKey
<1>2. \A x : InDegree(E, x) \in Nat
  BY InDegreeNat
<1>3. \A e \in E : e[2] \in StateNode /\ e[3] \in Nat
  OBVIOUS
<1>4. \A e \in E : e[2] = t => e[3] < InDegree(E, t)
  OBVIOUS
<1>5. \A e \in E : ~(e[2] = d[2] /\ e[3] = d[3])
  BY <1>1, <1>2, <1>3, <1>4
<1>6. d \notin E
  BY <1>5
<1>7. KeysUnique(E \cup {d})
  BY <1>5 DEF KeysUnique
<1>8. \A x : InDegree(E \cup {d}, x) =
               IF t = x THEN InDegree(E, x) + 1 ELSE InDegree(E, x)
  BY <1>1, <1>6, InDegreeGrows
<1>9. ASSUME NEW e \in E \cup {d}
      PROVE  e[3] < InDegree(E \cup {d}, e[2])
  <2>1. CASE e = d
    BY <2>1, <1>1, <1>2, <1>8
  <2>2. CASE e \in E /\ e[2] = t
    BY <2>2, <1>2, <1>3, <1>4, <1>8
  <2>3. CASE e \in E /\ e[2] # t
    BY <2>3, <1>8
  <2> QED
    BY <2>1, <2>2, <2>3
<1> QED
  BY <1>6, <1>7, <1>9

\* The edges after the redirection: those that do not lead to s, and those
\* from other states to s, with Stop as their target.
LEMMA RedirectedDomain ==
  ASSUME NEW f, NEW s, NEW d
  PROVE  d \in DOMAIN Redirected(f, s) <=>
           \/ d \in DOMAIN f /\ d[2] # s
           \/ \E e \in DOMAIN f : e[2] = s /\ e[1] # s /\ d = <<e[1], Stop, e[3]>>
BY DEF Redirected

----------------------------------------------------------------------------
(* The steps.                                                              *)

LEMMA ProgramFields ==
  ASSUME TypeOK, NEW a \in Asg
  PROVE  /\ program.asg[a].to \in States
         /\ program.asg[a].in \subseteq States
         /\ States \subseteq StateNode
         /\ Stop \notin States
BY ProgramsAssumption DEF TypeOK, IsProgram, States

LEMMA RequestedMember ==
  ASSUME NEW s, NEW x
  PROVE  x \in Requested(s) <=>
           \E f \in StateNode, a \in Asg :
             /\ f \in program.asg[a].in
             /\ ~(f = s /\ program.asg[a].to = s)
             /\ x = <<f, IF program.asg[a].to = s THEN Stop ELSE program.asg[a].to, a>>
<1> DEFINE target(a) == IF program.asg[a].to = s THEN Stop ELSE program.asg[a].to
           wanted(f, a) == f \in program.asg[a].in /\ ~(f = s /\ program.asg[a].to = s)
<1>1. Requested(s) = {<<y[1], target(y[2]), y[2]>> :
                        y \in {z \in StateNode \X Asg : wanted(z[1], z[2])}}
  BY DEF Requested
<1> SUFFICES x \in Requested(s) <=>
               \E f \in StateNode, a \in Asg : wanted(f, a) /\ x = <<f, target(a), a>>
  OBVIOUS
<1> HIDE DEF wanted, target
<1>2. ASSUME NEW f \in StateNode, NEW a \in Asg, wanted(f, a), x = <<f, target(a), a>>
      PROVE  x \in Requested(s)
  <2>1. /\ <<f, a>> \in {z \in StateNode \X Asg : wanted(z[1], z[2])}
        /\ x = << <<f, a>>[1], target(<<f, a>>[2]), <<f, a>>[2] >>
    BY <1>2
  <2> QED
    BY <2>1, <1>1
<1> QED
  BY <1>1, <1>2

LEMMA InitIInv == Init => IInv
<1> SUFFICES ASSUME Init PROVE IInv
  OBVIOUS
<1>1. IsProgram(program) /\ Transitions = {} /\ pc = "add" /\ ~Elected
  BY ProgramsAssumption DEF Init, Transitions, Elected
<1>2. TypeOK
  <2>1. todo \subseteq States \X Asg
    BY <1>1 DEF Init, IsProgram, States
  <2>2. score \in [States -> Nat]
    BY DEF Init, States
  <2> QED
    BY <1>1, <2>1, <2>2 DEF TypeOK, Init, Transitions, AllStates
<1>3. KeysBelowInDegree /\ StopUntouched /\ KeysUnique(Transitions)
  BY <1>1, FS_EmptySet DEF KeysBelowInDegree, StopUntouched, KeysUnique
<1>4. AskedOrAdded
  BY <1>1 DEF AskedOrAdded, Init
<1> QED
  BY <1>1, <1>2, <1>3, <1>4 DEF IInv, StartAndStop, Reachable, RequestedKept

\* What a step of the adding phase leaves for the later ones.
LEMMA AddStep ==
  ASSUME IInv, NEW s \in StateNode, NEW a \in Asg, AddTransition(s, a)
  PROVE  IInv'
<1> DEFINE t == program.asg[a].to
           d == <<s, t, NewKey(Transitions, s, t)>>
<1>1. /\ TypeOK /\ pc = "add" /\ pc' = "add" /\ <<s, a>> \in todo
      /\ Adding /\ Adding' /\ ~Elected'
      /\ program' = program /\ States' = States /\ AllStates' = AllStates
      /\ todo' = todo \ {<<s, a>>}
  BY DEF IInv, AddTransition, Adding, Elected, States, AllStates
<1>2. s \in States /\ t \in States /\ t \in StateNode /\ Stop \notin States
  BY <1>1, ProgramFields DEF TypeOK
<1>3. Transitions \subseteq States \X States \X Nat
  BY <1>1 DEF IInv, StopUntouched
<1>4. Transitions \subseteq StateNode \X StateNode \X Nat
  BY <1>1, <1>3, ProgramFields
<1>5. asgOf' = WithEdge(asgOf, d, a)
  BY DEF AddTransition
<1>6. /\ Transitions' = Transitions \cup {d}
      /\ asgOf'[d] = a
      /\ \A e \in Transitions \ {d} : asgOf'[e] = asgOf[e]
  <2> HIDE DEF d
  <2>1. /\ DOMAIN WithEdge(asgOf, d, a) = DOMAIN asgOf \cup {d}
        /\ WithEdge(asgOf, d, a)[d] = a
        /\ \A e \in DOMAIN asgOf \ {d} : WithEdge(asgOf, d, a)[e] = asgOf[e]
    BY DEF WithEdge
  <2> QED
    BY <1>5, <2>1 DEF Transitions
<1>7. /\ d \notin Transitions
      /\ KeysUnique(Transitions')
      /\ \A e \in Transitions' : e[3] < InDegree(Transitions', e[2])
  BY <1>1, <1>2, <1>4, <1>6, NewKeyIsFresh DEF IInv, KeysBelowInDegree
<1>8. IsFiniteSet(Transitions')
  BY <1>1, <1>6, FS_AddElement DEF IInv, KeysBelowInDegree
<1>9. NewKey(Transitions, s, t) \in Nat
  BY <1>1, InDegreeNat DEF IInv, KeysBelowInDegree, NewKey
<1>10. TypeOK'
  <2>1. Transitions' \subseteq States \X AllStates \X Nat
    BY <1>2, <1>3, <1>6, <1>9 DEF AllStates
  <2>2. \A e \in Transitions' : asgOf'[e] \in Asg
    BY <1>1, <1>6 DEF TypeOK
  <2>3. score' \in [States -> Nat]
    BY <1>1, <1>2 DEF TypeOK, AddTransition
  <2>4. start' = start /\ kind' = kind /\ todo' \subseteq States \X Asg
    BY <1>1 DEF AddTransition, TypeOK
  <2> QED
    BY <1>1, <2>1, <2>2, <2>3, <2>4 DEF TypeOK
<1>11. StopUntouched'
  BY <1>1, <1>2, <1>3, <1>6, <1>9 DEF StopUntouched
<1>12. AskedOrAdded'
  <2>1. AskedOrAdded /\ s \in program.asg[a].in
    BY <1>1 DEF IInv, AskedOrAdded, AddTransition
  <2> QED
    BY <1>1, <1>6, <1>7, <2>1 DEF AskedOrAdded
<1> QED
  BY <1>1, <1>7, <1>8, <1>10, <1>11, <1>12
  DEF IInv, KeysBelowInDegree, StartAndStop, Reachable, RequestedKept, Adding, Elected

LEMMA AllAddedStep == IInv /\ AllAdded => IInv'
<1> SUFFICES ASSUME IInv, AllAdded PROVE IInv'
  OBVIOUS
<1>1. /\ UNCHANGED <<program, todo, asgOf, score, start, kind>>
      /\ pc' = "elect" /\ todo = {} /\ pc = "add"
  BY DEF AllAdded
<1>2. /\ Adding /\ Adding' /\ ~Elected' /\ Transitions' = Transitions
      /\ States' = States /\ AllStates' = AllStates
  BY <1>1 DEF Adding, Elected, Transitions, States, AllStates
<1> QED
  BY <1>1, <1>2 DEF IInv, TypeOK, KeysBelowInDegree, StopUntouched, StartAndStop,
                    Reachable, AskedOrAdded, RequestedKept

LEMMA NoElectionStep == IInv /\ NoElection => IInv'
<1> SUFFICES ASSUME IInv, NoElection PROVE IInv'
  OBVIOUS
<1>1. /\ UNCHANGED <<program, todo, asgOf, score, start, kind>>
      /\ pc' = "failed"
  BY DEF NoElection
<1>2. /\ ~Adding' /\ ~Elected' /\ Transitions' = Transitions
      /\ States' = States /\ AllStates' = AllStates
  BY <1>1 DEF Adding, Elected, Transitions, States, AllStates
<1> QED
  BY <1>1, <1>2 DEF IInv, TypeOK, KeysBelowInDegree, StopUntouched, StartAndStop,
                    Reachable, AskedOrAdded, RequestedKept

(***************************************************************************)
(* Electing s: what led to s from elsewhere leads to Stop, under its old   *)
(* key; nothing led to Stop before, so the keys into Stop are those that   *)
(* told the transitions into s apart.                                      *)
(***************************************************************************)
LEMMA ElectStep ==
  ASSUME IInv, NEW s \in States, Elect(s)
  PROVE  IInv'
<1>1. /\ TypeOK /\ pc = "elect" /\ pc' = "convert" /\ start' = s
      /\ Adding /\ ~Adding' /\ Elected' /\ todo = {}
      /\ UNCHANGED <<program, todo, score, kind>>
      /\ States' = States /\ AllStates' = AllStates
  BY DEF IInv, Elect, Adding, Elected, States, AllStates, AskedOrAdded
<1>2. /\ States \subseteq StateNode /\ Stop \notin States /\ s # Stop
  BY <1>1, ProgramsAssumption DEF TypeOK, IsProgram, States
<1>3. /\ Transitions \subseteq States \X States \X Nat
      /\ KeysUnique(Transitions)
      /\ AskedOrAdded
  BY <1>1 DEF IInv, StopUntouched
<1>4. /\ asgOf' = Redirected(asgOf, s)
      /\ \A d : d \in Transitions' <=>
           \/ d \in Transitions /\ d[2] # s
           \/ \E e \in Transitions : e[2] = s /\ e[1] # s /\ d = <<e[1], Stop, e[3]>>
  BY RedirectedDomain DEF Elect, Transitions
<1>5. ASSUME NEW e \in Transitions
      PROVE  /\ e = <<e[1], e[2], e[3]>>
             /\ e[1] \in States /\ e[2] \in States /\ e[3] \in Nat
             /\ e[1] # Stop /\ e[2] # Stop
  BY <1>2, <1>3
<1>6. Transitions' \subseteq States \X AllStates \X Nat
  BY <1>4, <1>5 DEF AllStates
<1>7. /\ \A d \in Transitions' : d[2] # s
      /\ \A d \in Transitions' : d[1] # Stop
  BY <1>2, <1>4, <1>5
<1>8. KeysUnique(Transitions')
  <2> SUFFICES ASSUME NEW d \in Transitions', NEW e \in Transitions',
                      d[2] = e[2], d[3] = e[3]
               PROVE  d = e
    BY DEF KeysUnique
  <2>1. CASE d[2] = Stop
    <3>1. PICK d0 \in Transitions : d0[2] = s /\ d0[1] # s /\ d = <<d0[1], Stop, d0[3]>>
      BY <2>1, <1>4, <1>5
    <3>2. PICK e0 \in Transitions : e0[2] = s /\ e0[1] # s /\ e = <<e0[1], Stop, e0[3]>>
      BY <2>1, <1>4, <1>5
    <3>3. d0 = e0
      BY <3>1, <3>2, <1>3 DEF KeysUnique
    <3> QED
      BY <3>1, <3>2, <3>3
  <2>2. CASE d[2] # Stop
    BY <2>2, <1>3, <1>4 DEF KeysUnique
  <2> QED
    BY <2>1, <2>2
<1>9. /\ \A d \in Transitions' : d[2] # Stop => asgOf'[d] = asgOf[d]
      /\ \A e \in Transitions : e[2] = s /\ e[1] # s =>
           asgOf'[<<e[1], Stop, e[3]>>] = asgOf[e]
  <2> DEFINE into == {e \in DOMAIN asgOf : e[2] = s}
             moved == {<<e[1], Stop, e[3]>> : e \in {d \in into : d[1] # s}}
  <2>1. asgOf' = [e \in (DOMAIN asgOf \ into) \cup moved |->
                    IF e \in moved THEN asgOf[<<e[1], s, e[3]>>] ELSE asgOf[e]]
    BY <1>4 DEF Redirected
  <2>2. ASSUME NEW d \in Transitions', d[2] # Stop
        PROVE  asgOf'[d] = asgOf[d]
    <3>1. d \notin moved /\ d \in DOMAIN asgOf \ into
      BY <2>2, <1>4 DEF Transitions
    <3> QED
      BY <2>1, <3>1
  <2>3. ASSUME NEW e \in Transitions, e[2] = s, e[1] # s
        PROVE  asgOf'[<<e[1], Stop, e[3]>>] = asgOf[e]
    <3>1. <<e[1], Stop, e[3]>> \in moved
      BY <2>3 DEF Transitions
    <3>2. <<e[1], s, e[3]>> = e
      BY <2>3, <1>5
    <3> QED
      BY <2>1, <3>1, <3>2
  <2> QED
    BY <2>2, <2>3
<1>10. \A d \in Transitions' : asgOf'[d] \in Asg
  BY <1>1, <1>4, <1>9, <1>5 DEF TypeOK
<1>11. TypeOK'
  BY <1>1, <1>6, <1>10 DEF TypeOK, AllStates
<1>12. StartAndStop'
  BY <1>1, <1>7 DEF StartAndStop, Preds, Succs
<1>13. ASSUME NEW e \in Transitions'
       PROVE  <<e[1], e[2], asgOf'[e]>> \in Requested(s)
  <2>1. CASE e \in Transitions /\ e[2] # s
    <3>1. asgOf'[e] = asgOf[e] /\ asgOf[e] \in Asg /\ e[1] \in StateNode
      BY <2>1, <1>1, <1>2, <1>5, <1>9 DEF TypeOK
    <3> QED
      BY <2>1, <3>1, <1>1, <1>3, RequestedMember DEF AskedOrAdded
  <2>2. CASE \E d \in Transitions : d[2] = s /\ d[1] # s /\ e = <<d[1], Stop, d[3]>>
    <3>1. PICK d \in Transitions : d[2] = s /\ d[1] # s /\ e = <<d[1], Stop, d[3]>>
      BY <2>2
    <3>2. asgOf'[e] = asgOf[d] /\ asgOf[d] \in Asg /\ d[1] \in StateNode
      BY <3>1, <1>1, <1>2, <1>5, <1>9 DEF TypeOK
    <3> QED
      BY <3>1, <3>2, <1>1, <1>3, RequestedMember DEF AskedOrAdded
  <2> QED
    BY <2>1, <2>2, <1>4
<1>14. ASSUME NEW x \in Requested(s)
       PROVE  \E e \in Transitions' : x = <<e[1], e[2], asgOf'[e]>>
  <2>1. PICK f \in StateNode, a \in Asg :
          /\ f \in program.asg[a].in
          /\ ~(f = s /\ program.asg[a].to = s)
          /\ x = <<f, IF program.asg[a].to = s THEN Stop ELSE program.asg[a].to, a>>
    BY RequestedMember
  <2>2. PICK e \in Transitions :
          e[1] = f /\ e[2] = program.asg[a].to /\ asgOf[e] = a
    BY <2>1, <1>1, <1>3 DEF AskedOrAdded
  <2>3. CASE e[2] = s
    <3> DEFINE d == <<e[1], Stop, e[3]>>
    <3>1. d \in Transitions' /\ asgOf'[d] = a
      BY <2>1, <2>2, <2>3, <1>4, <1>9
    <3> QED
      BY <2>1, <2>2, <2>3, <3>1
  <2>4. CASE e[2] # s
    BY <2>1, <2>2, <2>4, <1>4, <1>5, <1>9
  <2> QED
    BY <2>3, <2>4
<1>15. RequestedKept'
  <2>1. Requested(s)' = Requested(s)
    BY <1>1 DEF Requested
  <2>2. Realised' = Requested(s)
    BY <1>13, <1>14 DEF Realised
  <2> QED
    BY <1>1, <2>1, <2>2 DEF RequestedKept, Requested
<1> QED
  BY <1>1, <1>8, <1>11, <1>12, <1>15 DEF IInv, KeysBelowInDegree, StopUntouched,
     Reachable, AskedOrAdded

LEMMA ConvertStep == IInv /\ Convert => IInv'
<1> SUFFICES ASSUME IInv, Convert PROVE IInv'
  OBVIOUS
<1>1. /\ UNCHANGED <<program, todo, asgOf, score, start>>
      /\ pc = "convert" /\ pc' = "check"
      /\ \A e \in DOMAIN kind' : kind'[e] \in {"conditional", "unconditional"}
  BY DEF Convert
<1>2. /\ ~Adding' /\ Elected /\ Transitions' = Transitions
      /\ States' = States /\ AllStates' = AllStates
      /\ Realised' = Realised /\ Requested(start)' = Requested(start)
  BY <1>1 DEF Adding, Elected, Transitions, States, AllStates, Realised, Requested
<1> QED
  BY <1>1, <1>2 DEF IInv, TypeOK, KeysBelowInDegree, StopUntouched, StartAndStop,
                    Reachable, AskedOrAdded, RequestedKept

LEMMA CheckReachableStep == IInv /\ CheckReachable => IInv'
<1> SUFFICES ASSUME IInv, CheckReachable PROVE IInv'
  OBVIOUS
<1>1. /\ UNCHANGED <<program, todo, asgOf, score, start, kind>>
      /\ pc = "check" /\ pc' \in {"returned", "failed"}
      /\ pc' = "returned" => UnreachableStates(Transitions) = {}
  BY DEF CheckReachable
<1>2. /\ ~Adding' /\ Elected /\ Transitions' = Transitions
      /\ States' = States /\ AllStates' = AllStates
      /\ Realised' = Realised /\ Requested(start)' = Requested(start)
      /\ UnreachableStates(Transitions)' = UnreachableStates(Transitions)
  BY <1>1 DEF Adding, Elected, Transitions, States, AllStates, Realised, Requested,
              UnreachableStates
<1> QED
  BY <1>1, <1>2 DEF IInv, TypeOK, KeysBelowInDegree, StopUntouched, StartAndStop,
                    Reachable, AskedOrAdded, RequestedKept

LEMMA StepIInv == IInv /\ [Next]_vars => IInv'
<1> SUFFICES ASSUME IInv, [Next]_vars PROVE IInv'
  OBVIOUS
<1>1. CASE UNCHANGED vars
  <2>1. /\ UNCHANGED <<program, todo, asgOf, score, start, kind, pc>>
        /\ Transitions' = Transitions /\ States' = States /\ AllStates' = AllStates
        /\ Adding' = Adding /\ Elected' = Elected
    BY <1>1 DEF vars, Transitions, States, AllStates, Adding, Elected
  <2>2. /\ Realised' = Realised /\ Requested(start)' = Requested(start)
        /\ UnreachableStates(Transitions)' = UnreachableStates(Transitions)
    BY <2>1 DEF Realised, Requested, UnreachableStates
  <2> QED
    BY <2>1, <2>2 DEF IInv, TypeOK, KeysBelowInDegree, StopUntouched, StartAndStop,
       Reachable, AskedOrAdded, RequestedKept
<1> QED
  BY <1>1, AddStep, AllAddedStep, NoElectionStep, ElectStep, ConvertStep,
     CheckReachableStep DEF Next

LEMMA Invariant == Spec => []IInv
<1> QED
  BY InitIInv, StepIInv, PTL DEF Spec

----------------------------------------------------------------------------
(***************************************************************************)
(* The score of a state.  While transitions are added it counts those that *)
(* wait for a start input and are done; with none left to add, it counts   *)
(* all of them, whatever the order was.                                    *)
(***************************************************************************)
Done(s) == {a \in WaitingIn(s) : <<s, a>> \notin todo}

ScoreCountsDone ==
  Adding => \A s \in States : score[s] = Cardinality(Done(s))

StartWins ==
  Elected => \A t \in States \ {start} :
               Cardinality(WaitingIn(start)) > Cardinality(WaitingIn(t))

ScoreInv == ScoreCountsDone /\ StartWins

LEMMA DoneFinite ==
  ASSUME NEW s
  PROVE  IsFiniteSet(Done(s)) /\ Cardinality(Done(s)) \in Nat
<1>1. Done(s) \subseteq Asg
  BY DEF Done, WaitingIn
<1> QED
  BY <1>1, ProgramsAssumption, FS_Subset, FS_CardinalityType

LEMMA InitScore == Init => ScoreInv
<1> SUFFICES ASSUME Init PROVE ScoreInv
  OBVIOUS
<1>1. ASSUME NEW s \in States
      PROVE  score[s] = 0 /\ Done(s) = {}
  <2>1. s \in StateNode
    BY ProgramsAssumption DEF Init, IsProgram, States
  <2> QED
    BY <2>1 DEF Init, States, Done, WaitingIn
<1>2. ~Elected
  BY DEF Init, Elected
<1> QED
  BY <1>1, <1>2, FS_EmptySet DEF ScoreInv, ScoreCountsDone, StartWins

LEMMA AddScore ==
  ASSUME IInv, ScoreInv, NEW s \in StateNode, NEW a \in Asg, AddTransition(s, a)
  PROVE  ScoreInv'
<1>1. /\ Adding /\ ~Elected' /\ States' = States
      /\ program' = program /\ <<s, a>> \in todo /\ todo' = todo \ {<<s, a>>}
      /\ score' = IF program.asg[a].start THEN [score EXCEPT ![s] = @ + 1] ELSE score
      /\ s \in program.asg[a].in
      /\ score \in [States -> Nat]
  BY DEF IInv, TypeOK, AskedOrAdded, AddTransition, Adding, Elected, States
<1>2. s \in States
  BY <1>1, ProgramFields DEF IInv
<1>3. \A t : WaitingIn(t)' = WaitingIn(t)
  BY <1>1 DEF WaitingIn
<1>4. ASSUME NEW t \in States
      PROVE  score'[t] = Cardinality(Done(t)')
  <2>1. score[t] = Cardinality(Done(t)) /\ score[t] \in Nat
    BY <1>1 DEF ScoreInv, ScoreCountsDone
  <2>2. CASE t = s /\ program.asg[a].start
    <3>1. Done(t)' = Done(t) \cup {a} /\ a \notin Done(t)
      BY <2>2, <1>1, <1>3 DEF Done, WaitingIn
    <3>2. Cardinality(Done(t) \cup {a}) = Cardinality(Done(t)) + 1
      BY <3>1, DoneFinite, FS_AddElement
    <3>3. score'[t] = score[t] + 1
      BY <2>2, <1>1, <1>2
    <3> QED
      BY <2>1, <3>1, <3>2, <3>3
  <2>3. CASE ~(t = s /\ program.asg[a].start)
    <3>1. Done(t)' = Done(t)
      BY <2>3, <1>1, <1>3 DEF Done, WaitingIn
    <3>2. score'[t] = score[t]
      BY <2>3, <1>1
    <3> QED
      BY <2>1, <3>1, <3>2
  <2> QED
    BY <2>2, <2>3
<1> QED
  BY <1>1, <1>4 DEF ScoreInv, ScoreCountsDone, StartWins

\* Comparing scores is comparing what waits: nothing is left to add.
LEMMA ElectScore ==
  ASSUME IInv, ScoreInv, NEW s \in States, Elect(s)
  PROVE  ScoreInv'
<1>1. /\ Adding /\ ~Adding' /\ todo = {} /\ Wins(s)
      /\ start' = s /\ program' = program /\ States' = States
  BY DEF IInv, AskedOrAdded, Elect, Adding, States
<1>2. \A t \in States : score[t] = Cardinality(WaitingIn(t))
  <2>1. \A t : Done(t) = WaitingIn(t)
    BY <1>1 DEF Done
  <2> QED
    BY <1>1, <2>1 DEF ScoreInv, ScoreCountsDone
<1>3. \A t : WaitingIn(t)' = WaitingIn(t)
  BY <1>1 DEF WaitingIn
<1>4. \A t \in States \ {s} : Cardinality(WaitingIn(s)) > Cardinality(WaitingIn(t))
  BY <1>1, <1>2 DEF Wins
<1>5. WaitingIn(start)' = WaitingIn(s)
  BY <1>1 DEF WaitingIn
<1>6. StartWins'
  BY <1>1, <1>3, <1>4, <1>5 DEF StartWins
<1> QED
  BY <1>1, <1>6 DEF ScoreInv, ScoreCountsDone

LEMMA ScoreStep == IInv /\ ScoreInv /\ [Next]_vars => ScoreInv'
<1> SUFFICES ASSUME IInv, ScoreInv, [Next]_vars PROVE ScoreInv'
  OBVIOUS
<1>1. CASE \/ AllAdded \/ NoElection \/ Convert \/ CheckReachable \/ UNCHANGED vars
  <2>1. /\ UNCHANGED <<program, todo, score, start>>
        /\ Adding' => Adding
        /\ Elected' => Elected
    BY <1>1 DEF AllAdded, NoElection, Convert, CheckReachable, vars, Adding, Elected
  <2>2. /\ States' = States /\ WaitingIn(start)' = WaitingIn(start)
        /\ \A t : WaitingIn(t)' = WaitingIn(t) /\ Done(t)' = Done(t)
    BY <2>1 DEF States, WaitingIn, Done
  <2> QED
    BY <2>1, <2>2 DEF ScoreInv, ScoreCountsDone, StartWins
<1> QED
  BY <1>1, AddScore, ElectScore DEF Next

----------------------------------------------------------------------------
(***************************************************************************)
(* The types of create_fsm's variables: transitions join states, and lead  *)
(* to the stop state at most.                                              *)
(***************************************************************************)
THEOREM TypeCorrect == Spec => []TypeOK
<1>1. IInv => TypeOK
  BY DEF IInv
<1> QED
  BY <1>1, Invariant, PTL

(***************************************************************************)
(* Whatever the assignments to the state variable are, an FSM that         *)
(* create_fsm returns has nothing leading into its start state or out of   *)
(* its stop state, unique keys into each state, and every state reachable  *)
(* from the start: what CfgConstruction assumes of its inputs.             *)
(***************************************************************************)
THEOREM ReturnsWellFormed == Spec => []ResultWellFormed
<1>1. IInv => ResultWellFormed
  <2> SUFFICES ASSUME IInv, pc = "returned"
               PROVE  FsmWellFormed(Transitions, AllStates, start, Stop)
    BY DEF ResultWellFormed
  <2>1. /\ TypeOK /\ KeysUnique(Transitions) /\ start \in States
        /\ Preds(Transitions, start) = {} /\ Succs(Transitions, Stop) = {}
        /\ UnreachableStates(Transitions) = {}
    BY DEF IInv, StartAndStop, Elected, Reachable
  <2>2. start # Stop /\ start \in AllStates /\ Stop \in AllStates
    BY <2>1, ProgramsAssumption DEF TypeOK, IsProgram, States, AllStates
  <2>3. Transitions \subseteq AllStates \X AllStates \X Nat
    BY <2>1 DEF TypeOK, AllStates
  <2>4. ReachableFrom(Transitions, AllStates, start) = AllStates
    <3>1. ReachableFrom(Transitions, AllStates, start) \subseteq AllStates
      BY DEF ReachableFrom
    <3> QED
      BY <2>1, <3>1 DEF UnreachableStates
  <2> QED
    BY <2>1, <2>2, <2>3, <2>4 DEF FsmWellFormed
<1> QED
  BY <1>1, Invariant, PTL

(***************************************************************************)
(* No transition that an assignment asks for is overwritten, dropped or    *)
(* invented on the way to the FSM.                                         *)
(***************************************************************************)
THEOREM KeepsTransitions == Spec => []NoTransitionLost
<1>1. IInv => NoTransitionLost
  BY DEF IInv, RequestedKept, Elected, NoTransitionLost
<1> QED
  BY <1>1, Invariant, PTL

(***************************************************************************)
(* Whatever order the transitions were added in, the state elected is the  *)
(* one in which most assignments to the state variable wait for a start    *)
(* input, and no other state has as many.                                  *)
(***************************************************************************)
THEOREM StartIsWaitedFor == Spec => []StartWaitsMost
<1>1. ScoreInv => StartWaitsMost
  BY DEF ScoreInv, StartWins, Elected, StartWaitsMost
<1> QED
  BY <1>1, Invariant, InitScore, ScoreStep, PTL DEF Spec
=============================================================================
