-------------------------- MODULE LaunchPlanProofs --------------------------
(***************************************************************************)
(* Theorems about build_dependency_graph, for every finite set of          *)
(* resources and every set of edges, and about build_launch_plan, which    *)
(* calls it.                                                               *)
(*                                                                         *)
(* The invariant of the search: the gray resources are those on the path,  *)
(* which is a chain of dependencies; the black ones depend on black ones   *)
(* only, and every set of them has a member with no dependency in it.  The *)
(* invariant of Kahn's loop: a degree counts the dependencies that are not *)
(* in the order yet, and the queue holds those that may come next.         *)
(***************************************************************************)
EXTENDS LaunchPlan, FiniteSetTheorems, WellFoundedInduction, TLAPS

(* What was given: edges stay inside nodes once they have been looked at. *)
Given ==
    /\ \A n \in Resource \ nodes : deps[n] = {} /\ color[n] = "white"
    /\ stage \notin {"uncalled", "missing"} => \A n \in nodes : deps[n] \subseteq nodes
    /\ stage = "uncalled" => /\ path = <<>>
                             /\ \A n \in Resource : color[n] = "white"
    /\ stage \notin {"order", "built"} => order = <<>>

(* The call stack of the search. *)
OnPath ==
    /\ \A i \in 1..Len(path) : color[path[i]] = "gray" /\ path[i] \in nodes
    /\ \A n \in Resource : color[n] = "gray" => \E i \in 1..Len(path) : path[i] = n
    /\ \A i, j \in 1..Len(path) : path[i] = path[j] => i = j
    /\ \A i \in 1..(Len(path) - 1) : path[i + 1] \in deps[path[i]]

Black == {n \in Resource : color[n] = "black"}

(* What the search has done with. *)
BlackIsAcyclic ==
    /\ \A n \in Black : deps[n] \subseteq Black
    /\ \A S \in SUBSET Black : S # {} => \E r \in S : deps[r] \cap S = {}

Remaining(n) == deps[n] \ Elements(order)

(* Kahn's loop. *)
Kahn ==
    /\ Elements(order) \subseteq nodes
    /\ Len(order) = Cardinality(Elements(order))
    /\ \A i \in 1..Len(order) : deps[order[i]] \subseteq Before(i)
    /\ stage \in {"order", "built"} =>
         /\ \A n \in Resource : inDegree[n] = Cardinality(Remaining(n))
         /\ ready = {n \in nodes \ Elements(order) : Remaining(n) = {}}
    /\ stage = "built" => Elements(order) = nodes

GraphInv ==
    /\ GraphTypeOK
    /\ Given
    /\ OnPath
    /\ BlackIsAcyclic
    /\ AcceptedIsAcyclic
    /\ CycleIsReal
    /\ Kahn
    /\ OrderIsStable

------------------------------------------------------------------------------
(* Facts about the data *)

(* sorted() has a first element. *)
LEMMA LeastExists ==
    ASSUME NEW S \in SUBSET Nat, S # {}
    PROVE  Least(S) \in S
<1> DEFINE R == OpToRel(<, Nat)
<1>1. \E x \in S : \A y \in S : ~(<<y, x>> \in R)
  <2>1. IsWellFoundedOn(R, Nat)
    BY NatLessThanWellFounded
  <2> HIDE DEF R
  <2> QED
    BY <2>1, WFMin
<1>2. \A x, y \in Nat : <<y, x>> \notin R => x <= y
  BY DEF OpToRel
<1> HIDE DEF R
<1>3. PICK x \in S : \A y \in S : x <= y
  BY <1>1, <1>2
<1> QED
  BY <1>3 DEF Least

(* Only resources are sorted. *)
LEMMA LeastResource ==
    ASSUME NEW S \in SUBSET Resource, S # {}
    PROVE  Least(S) \in S
BY LeastExists, ResourceAssumption

(* A set of resources is finite. *)
LEMMA ResourcesFinite ==
    ASSUME NEW S \in SUBSET Resource
    PROVE  IsFiniteSet(S) /\ Cardinality(S) \in Nat
BY ResourceAssumption, FS_Subset, FS_CardinalityType

(* append. *)
LEMMA AppendFacts ==
    ASSUME NEW T, NEW s \in Seq(T), NEW e \in T
    PROVE  /\ Append(s, e) \in Seq(T)
           /\ Len(Append(s, e)) = Len(s) + 1
           /\ \A i \in 1..Len(s) : Append(s, e)[i] = s[i]
           /\ Append(s, e)[Len(s) + 1] = e
           /\ Elements(Append(s, e)) = Elements(s) \cup {e}
<1>1. /\ Append(s, e) \in Seq(T)
      /\ Len(Append(s, e)) = Len(s) + 1
      /\ \A i \in 1..Len(s) : Append(s, e)[i] = s[i]
      /\ Append(s, e)[Len(s) + 1] = e
  OBVIOUS
<1>2. 1..(Len(s) + 1) = (1..Len(s)) \cup {Len(s) + 1}
  OBVIOUS
<1> QED
  BY <1>1, <1>2 DEF Elements

(* A slice. *)
LEMMA SliceFacts ==
    ASSUME NEW T, NEW s \in Seq(T), NEW a \in 1..Len(s), NEW b \in (a - 1)..Len(s)
    PROVE  /\ SubSeq(s, a, b) \in Seq(T)
           /\ Len(SubSeq(s, a, b)) = b - a + 1
           /\ \A i \in 1..(b - a + 1) : SubSeq(s, a, b)[i] = s[a + i - 1]
OBVIOUS

------------------------------------------------------------------------------
(* The search *)

(* The types hold initially and are kept. *)
LEMMA GraphTypeInit == GraphInit => GraphInv
<1> SUFFICES ASSUME GraphInit PROVE GraphInv
  OBVIOUS
<1>1. GraphTypeOK /\ Given /\ OnPath
  BY DEF GraphInit, GraphTypeOK, Given, OnPath, Stage
<1>2. BlackIsAcyclic /\ AcceptedIsAcyclic /\ CycleIsReal /\ OrderIsStable
  BY DEF GraphInit, BlackIsAcyclic, Black, AcceptedIsAcyclic, CycleIsReal, OrderIsStable
<1>3. Elements(order) = {}
  BY DEF GraphInit, Elements
<1>4. Kahn
  BY <1>3, FS_EmptySet DEF GraphInit, Kahn
<1> QED
  BY <1>1, <1>2, <1>4 DEF GraphInv

(* The element that the search is at. *)
LEMMA CurrentFacts ==
    ASSUME GraphTypeOK, OnPath, path # <<>>
    PROVE  /\ Len(path) \in Nat /\ Len(path) >= 1
           /\ Current \in nodes /\ Current \in Resource
           /\ color[Current] = "gray"
<1>1. Len(path) \in Nat /\ Len(path) # 0
  BY DEF GraphTypeOK
<1> QED
  BY <1>1 DEF GraphTypeOK, OnPath, Current

LEMMA TypeStep ==
    ASSUME GraphInv, [GraphNext]_graphVars
    PROVE  GraphTypeOK'
<1> USE DEF GraphInv, GraphTypeOK, Stage
<1>1. CASE nodes' \in SUBSET Resource /\ deps' \in [Resource -> SUBSET Resource] /\ CheckEdges
  BY <1>1 DEF CheckEdges
<1>2. CASE EnterRoot
  <2>1. Least(Colored("white")) \in Resource
    BY <1>2, LeastResource DEF EnterRoot, Colored
  <2> QED
    BY <1>2, <2>1, AppendFacts DEF EnterRoot, Enter
<1>3. ASSUME NEW d \in Resource, EnterDependency(d)
      PROVE  GraphTypeOK'
  BY <1>3, AppendFacts DEF EnterDependency, Enter
<1>4. ASSUME NEW d \in Resource, FindCycle(d)
      PROVE  GraphTypeOK'
  <2>1. PICK i \in 1..Len(path) : cycle' = Append(SubSeq(path, i, Len(path)), d)
    BY <1>4 DEF FindCycle
  <2>2. SubSeq(path, i, Len(path)) \in Seq(Resource)
    BY SliceFacts
  <2>3. cycle' \in Seq(Resource)
    BY <2>1, <2>2, AppendFacts
  <2> QED
    BY <1>4, <2>3 DEF FindCycle
<1>5. CASE Leave
  <2>1. path' \in Seq(Resource)
    BY <1>5, CurrentFacts, SliceFacts DEF Leave
  <2> QED
    BY <1>5, <2>1, CurrentFacts DEF Leave
<1>6. CASE BeginOrder
  <2>1. \A n \in Resource : Cardinality(deps[n]) \in Int
    BY ResourcesFinite
  <2> QED
    BY <1>6, <2>1 DEF BeginOrder
<1>7. CASE TakeReady
  <2>1. Least(ready) \in Resource
    BY <1>7, LeastResource DEF TakeReady
  <2> QED
    BY <1>7, <2>1, AppendFacts DEF TakeReady, Dependents
<1>8. CASE EndOrder
  BY <1>8 DEF EndOrder
<1>9. CASE UNCHANGED graphVars
  BY <1>9 DEF graphVars
<1> QED
  BY <1>1, <1>2, <1>3, <1>4, <1>5, <1>6, <1>7, <1>8, <1>9 DEF GraphNext, GraphStep

(* Enter is entered for a white resource that was given. *)
LEMMA Entering ==
    ASSUME GraphInv
    PROVE  /\ EnterRoot => /\ Least(Colored("white")) \in Colored("white")
                           /\ path = <<>> /\ stage = "search"
                           /\ Enter(Least(Colored("white")))
           /\ \A d \in Resource : EnterDependency(d) =>
                /\ d \in Colored("white") /\ d \in deps[Current]
                /\ path # <<>> /\ stage = "search"
                /\ Enter(d)
<1>1. EnterRoot => Least(Colored("white")) \in Colored("white")
  BY LeastResource DEF GraphInv, GraphTypeOK, EnterRoot, Colored
<1>2. ASSUME NEW d \in Resource, EnterDependency(d)
      PROVE  d \in Colored("white")
  BY <1>2, CurrentFacts DEF EnterDependency, GraphInv, Given, Colored, Stage
<1> QED
  BY <1>1, <1>2 DEF EnterRoot, EnterDependency

(* Every step of the search but the entries leaves most of the state. *)
LEMMA GivenStep ==
    ASSUME GraphInv, [GraphNext]_graphVars
    PROVE  Given'
<1> USE DEF Given
<1>0. Given /\ GraphTypeOK
  BY DEF GraphInv
<1>1. CASE /\ nodes' \in SUBSET Resource /\ CheckEdges
           /\ \A n \in Resource \ nodes' : deps'[n] = {}
  BY <1>0, <1>1 DEF CheckEdges
<1>2. ASSUME NEW n \in Colored("white"), Enter(n), stage = "search"
      PROVE  Given'
  BY <1>0, <1>2 DEF Enter, Colored, GraphTypeOK
<1>3. ASSUME NEW d \in Resource, FindCycle(d)
      PROVE  Given'
  BY <1>0, <1>3 DEF FindCycle
<1>4. CASE Leave
  BY <1>0, <1>4, CurrentFacts DEF Leave, GraphInv, GraphTypeOK
<1>5. CASE BeginOrder
  BY <1>0, <1>5 DEF BeginOrder
<1>6. CASE TakeReady
  BY <1>0, <1>6 DEF TakeReady
<1>7. CASE EndOrder
  BY <1>0, <1>7 DEF EndOrder
<1>8. CASE UNCHANGED graphVars
  BY <1>0, <1>8 DEF graphVars
<1> QED
  BY <1>1, <1>2, <1>3, <1>4, <1>5, <1>6, <1>7, <1>8, Entering DEF GraphNext, GraphStep

(* Entering a white resource keeps the stack a chain. *)
LEMMA EnterOnPath ==
    ASSUME GraphInv, NEW n \in Colored("white"), Enter(n),
           path # <<>> => n \in deps[Current]
    PROVE  OnPath'
<1>0. OnPath /\ GraphTypeOK /\ n \in Resource /\ n \in nodes /\ color[n] = "white"
  BY DEF GraphInv, Colored, GraphTypeOK
<1>1. /\ path \in Seq(Resource) /\ Len(path) \in Nat
      /\ Len(path') = Len(path) + 1
      /\ \A i \in 1..Len(path) : path'[i] = path[i]
      /\ path'[Len(path) + 1] = n
  BY <1>0, AppendFacts DEF GraphTypeOK, Enter
<1>2. /\ color' = [color EXCEPT ![n] = "gray"]
      /\ nodes' = nodes /\ deps' = deps
  BY DEF Enter
<1>3. \A i \in 1..Len(path) : path[i] \in Resource /\ path[i] # n
  BY <1>0, <1>1 DEF OnPath
<1>4. \A i \in 1..Len(path') : i \in 1..Len(path) \/ i = Len(path) + 1
  BY <1>1
<1>9. color'[n] = "gray" /\ \A m \in Resource : m # n => color'[m] = color[m]
  BY <1>0, <1>2 DEF GraphTypeOK
<1>5. ASSUME NEW i \in 1..Len(path')
      PROVE  color'[path'[i]] = "gray" /\ path'[i] \in nodes'
  <2>1. CASE i = Len(path) + 1
    BY <1>0, <1>1, <1>2, <1>9, <2>1
  <2>2. CASE i \in 1..Len(path)
    <3>1. path'[i] = path[i] /\ path[i] \in Resource /\ path[i] # n
      BY <1>1, <1>3, <2>2
    <3>2. color[path[i]] = "gray" /\ path[i] \in nodes
      BY <1>0, <2>2 DEF OnPath
    <3> QED
      BY <1>2, <1>9, <3>1, <3>2
  <2> QED
    BY <1>4, <2>1, <2>2
<1>6. ASSUME NEW m \in Resource, color'[m] = "gray"
      PROVE  \E i \in 1..Len(path') : path'[i] = m
  <2>1. CASE m = n
    BY <1>1, <2>1
  <2>2. CASE m # n
    <3>1. PICK i \in 1..Len(path) : path[i] = m
      BY <1>0, <1>2, <1>6, <2>2 DEF OnPath, GraphTypeOK
    <3> QED
      BY <1>1, <3>1
  <2> QED
    BY <2>1, <2>2
<1>7. \A i, j \in 1..Len(path') : path'[i] = path'[j] => i = j
  BY <1>0, <1>1, <1>3, <1>4 DEF OnPath
<1>8. ASSUME NEW i \in 1..(Len(path') - 1)
      PROVE  path'[i + 1] \in deps'[path'[i]]
  <2>1. CASE i = Len(path)
    <3>1. path # <<>> /\ path'[i] = Current /\ path'[i + 1] = n
      BY <1>1, <1>8, <2>1 DEF Current
    <3> QED
      BY <1>2, <3>1
  <2>2. CASE i # Len(path)
    <3>1. i \in 1..(Len(path) - 1) /\ i \in 1..Len(path) /\ i + 1 \in 1..Len(path)
      BY <1>1, <1>8, <2>2
    <3>2. path'[i] = path[i] /\ path'[i + 1] = path[i + 1]
      BY <1>1, <3>1
    <3> QED
      BY <1>0, <1>2, <3>1, <3>2 DEF OnPath
  <2> QED
    BY <2>1, <2>2
<1> QED
  BY <1>5, <1>6, <1>7, <1>8 DEF OnPath

(* Leaving takes the top off the stack. *)
LEMMA LeaveOnPath ==
    ASSUME GraphInv, Leave
    PROVE  OnPath'
<1>0. OnPath /\ GraphTypeOK
  BY DEF GraphInv
<1>1. /\ Len(path) \in Nat /\ Len(path) >= 1
      /\ Current \in Resource
  BY <1>0, CurrentFacts DEF Leave
<1>2. /\ Len(path') = Len(path) - 1
      /\ \A i \in 1..(Len(path) - 1) : path'[i] = path[i]
  <2>1. path \in Seq(Resource) /\ path' = SubSeq(path, 1, Len(path) - 1)
    BY <1>0 DEF Leave, GraphTypeOK
  <2>2. 1 \in 1..Len(path) /\ Len(path) - 1 \in (1 - 1)..Len(path)
    BY <1>1
  <2>3. /\ Len(path') = (Len(path) - 1) - 1 + 1
        /\ \A i \in 1..((Len(path) - 1) - 1 + 1) : path'[i] = path[1 + i - 1]
    BY <2>1, <2>2, SliceFacts
  <2> QED
    BY <1>1, <2>3
<1>3. /\ color' = [color EXCEPT ![Current] = "black"]
      /\ nodes' = nodes /\ deps' = deps
  BY DEF Leave
<1>4. ASSUME NEW i \in 1..(Len(path) - 1)
      PROVE  path[i] \in Resource /\ path[i] # Current
  <2>1. i \in 1..Len(path) /\ Len(path) \in 1..Len(path) /\ i # Len(path)
    BY <1>1
  <2>2. path[i] \in Resource
    BY <1>0, <2>1 DEF GraphTypeOK
  <2> QED
    BY <1>0, <2>1, <2>2 DEF OnPath, Current
<1>9. \A m \in Resource : m # Current => color'[m] = color[m]
  BY <1>0, <1>3 DEF GraphTypeOK
<1>5. ASSUME NEW i \in 1..Len(path')
      PROVE  color'[path'[i]] = "gray" /\ path'[i] \in nodes'
  <2>1. i \in 1..(Len(path) - 1) /\ i \in 1..Len(path)
    BY <1>1, <1>2
  <2>2. path'[i] = path[i] /\ path[i] \in Resource /\ path[i] # Current
    BY <1>2, <1>4, <2>1
  <2>3. color[path[i]] = "gray" /\ path[i] \in nodes
    BY <1>0, <2>1 DEF OnPath
  <2> QED
    BY <1>3, <1>9, <2>2, <2>3
<1>6. ASSUME NEW m \in Resource, color'[m] = "gray"
      PROVE  \E i \in 1..Len(path') : path'[i] = m
  <2>1. m # Current /\ color[m] = "gray"
    BY <1>0, <1>1, <1>3, <1>6 DEF GraphTypeOK
  <2>2. PICK i \in 1..Len(path) : path[i] = m
    BY <1>0, <2>1 DEF OnPath
  <2>3. i # Len(path)
    BY <2>1, <2>2 DEF Current
  <2> QED
    BY <1>1, <1>2, <2>2, <2>3
<1>7. \A i, j \in 1..Len(path') : path'[i] = path'[j] => i = j
  BY <1>0, <1>1, <1>2 DEF OnPath
<1>8. \A i \in 1..(Len(path') - 1) : path'[i + 1] \in deps'[path'[i]]
  BY <1>0, <1>1, <1>2, <1>3 DEF OnPath
<1> QED
  BY <1>5, <1>6, <1>7, <1>8 DEF OnPath

(* The stack through every step. *)
LEMMA OnPathStep ==
    ASSUME GraphInv, [GraphNext]_graphVars
    PROVE  OnPath'
<1>0. OnPath /\ GraphTypeOK /\ Given
  BY DEF GraphInv
<1>1. CASE /\ nodes' \in SUBSET Resource /\ CheckEdges
  <2>1. path = <<>> /\ path' = path /\ color' = color /\ \A n \in Resource : color[n] = "white"
    BY <1>0, <1>1 DEF CheckEdges, Given
  <2> QED
    BY <2>1 DEF OnPath
<1>2. CASE EnterRoot
  BY <1>2, Entering, EnterOnPath
<1>3. ASSUME NEW d \in Resource, EnterDependency(d)
      PROVE  OnPath'
  BY <1>3, Entering, EnterOnPath
<1>4. CASE Leave
  BY <1>4, LeaveOnPath
<1>5. CASE UNCHANGED <<nodes, deps, color, path>>
  BY <1>0, <1>5 DEF OnPath
<1> QED
  BY <1>1, <1>2, <1>3, <1>4, <1>5
  DEF GraphNext, GraphStep, FindCycle, BeginOrder, TakeReady, EndOrder, graphVars

(* What is done with stays acyclic when one more is done with. *)
LEMMA LeaveBlack ==
    ASSUME GraphInv, Leave
    PROVE  BlackIsAcyclic'
<1>0. GraphTypeOK /\ BlackIsAcyclic
  BY DEF GraphInv
<1>1. Current \in Resource /\ color[Current] = "gray"
  BY CurrentFacts DEF Leave, GraphInv
<1>2. Black' = Black \cup {Current} /\ Current \notin Black
  BY <1>0, <1>1 DEF Leave, Black, GraphTypeOK
<1>3. deps' = deps /\ deps[Current] \subseteq Black
  BY <1>0, <1>1 DEF Leave, Black, GraphTypeOK
<1>4. \A n \in Black' : deps'[n] \subseteq Black'
  BY <1>0, <1>2, <1>3 DEF BlackIsAcyclic
<1>5. ASSUME NEW S \in SUBSET (Black'), S # {}
      PROVE  \E r \in S : deps'[r] \cap S = {}
  <2>1. CASE S \ {Current} = {}
    <3>1. S = {Current}
      BY <1>5, <2>1
    <3> QED
      BY <1>2, <1>3, <3>1
  <2>2. CASE S \ {Current} # {}
    <3>1. S \ {Current} \in SUBSET Black
      BY <1>2, <1>5
    <3>2. PICK r \in S \ {Current} : deps[r] \cap (S \ {Current}) = {}
      BY <1>0, <2>2, <3>1 DEF BlackIsAcyclic
    <3>3. deps[r] \subseteq Black
      BY <1>0, <3>1, <3>2 DEF BlackIsAcyclic
    <3> QED
      BY <1>2, <1>3, <3>2, <3>3
  <2> QED
    BY <2>1, <2>2
<1> QED
  BY <1>4, <1>5 DEF BlackIsAcyclic

(* The finished part through every step. *)
LEMMA BlackStep ==
    ASSUME GraphInv, [GraphNext]_graphVars
    PROVE  BlackIsAcyclic'
<1>0. GraphTypeOK /\ BlackIsAcyclic /\ Given
  BY DEF GraphInv
<1>1. CASE CheckEdges
  <2>1. Black' = {}
    BY <1>0, <1>1 DEF CheckEdges, Given, Black
  <2> QED
    BY <2>1 DEF BlackIsAcyclic
<1>2. ASSUME NEW n \in Colored("white"), Enter(n)
      PROVE  BlackIsAcyclic'
  <2>1. Black' = Black /\ deps' = deps
    BY <1>0, <1>2 DEF Enter, Black, Colored, GraphTypeOK
  <2> QED
    BY <1>0, <2>1 DEF BlackIsAcyclic
<1>3. CASE Leave
  BY <1>3, LeaveBlack
<1>4. CASE UNCHANGED <<deps, color>>
  BY <1>0, <1>4 DEF BlackIsAcyclic, Black
<1> QED
  BY <1>1, <1>2, <1>3, <1>4, Entering
  DEF GraphNext, GraphStep, FindCycle, BeginOrder, TakeReady, EndOrder, graphVars

(* When no resource is white and none is on the path, all are black: the   *)
(* graph that goes on to be ordered is acyclic.                            *)
LEMMA AcceptedStep ==
    ASSUME GraphInv, [GraphNext]_graphVars
    PROVE  AcceptedIsAcyclic'
<1>0. GraphTypeOK /\ BlackIsAcyclic /\ Given /\ OnPath /\ AcceptedIsAcyclic
  BY DEF GraphInv
<1>1. CASE BeginOrder
  <2>1. deps' = deps /\ path = <<>> /\ Colored("white") = {}
    BY <1>1 DEF BeginOrder
  <2>2. \A n \in nodes : n \in Resource /\ color[n] # "white" /\ color[n] # "gray"
    BY <1>0, <2>1 DEF Colored, OnPath, GraphTypeOK
  <2>3. nodes \subseteq Black
    BY <1>0, <2>2 DEF Black, GraphTypeOK
  <2>4. ASSUME NEW S \in SUBSET Resource, S # {}
        PROVE  \E r \in S : deps[r] \cap S = {}
    <3>1. CASE S \subseteq nodes
      BY <1>0, <2>3, <2>4, <3>1 DEF BlackIsAcyclic
    <3>2. CASE ~(S \subseteq nodes)
      BY <1>0, <3>2 DEF Given
    <3> QED
      BY <3>1, <3>2
  <2> QED
    BY <2>1, <2>4 DEF AcceptedIsAcyclic, Acyclic
<1>2. CASE stage' \notin {"order", "built"}
  BY <1>2 DEF AcceptedIsAcyclic
<1>3. CASE deps' = deps /\ stage \in {"order", "built"}
  BY <1>0, <1>3 DEF AcceptedIsAcyclic, Acyclic
<1> QED
  BY <1>1, <1>2, <1>3
  DEF GraphNext, GraphStep, CheckEdges, EnterRoot, EnterDependency, Enter, FindCycle, Leave,
      TakeReady, EndOrder, graphVars

(* The slice of the path that the error names is a cycle. *)
LEMMA CycleStep ==
    ASSUME GraphInv, [GraphNext]_graphVars
    PROVE  CycleIsReal'
<1>0. GraphTypeOK /\ OnPath /\ CycleIsReal
  BY DEF GraphInv
<1>1. ASSUME NEW d \in Resource, FindCycle(d)
      PROVE  CycleIsReal'
  <2>1. PICK i \in 1..Len(path) : path[i] = d /\ cycle' = Append(SubSeq(path, i, Len(path)), d)
    BY <1>1 DEF FindCycle
  <2> DEFINE s == SubSeq(path, i, Len(path))
             k == Len(path) - i + 1
  <2>2. Len(path) \in Nat /\ i \in Nat /\ k \in Nat /\ k >= 1 /\ path \in Seq(Resource)
    BY <1>0 DEF GraphTypeOK
  <2>3. /\ s \in Seq(Resource) /\ Len(s) = k
        /\ \A j \in 1..k : s[j] = path[i + j - 1]
    BY <2>2, SliceFacts
  <2>4. /\ Len(cycle') = k + 1
        /\ \A j \in 1..k : cycle'[j] = path[i + j - 1]
        /\ cycle'[k + 1] = d
    <3> HIDE DEF s
    <3> QED
      BY <2>1, <2>2, <2>3, AppendFacts DEF s
  <2> HIDE DEF s, k
  <2>5. deps' = deps /\ d \in deps[Current]
    BY <1>1 DEF FindCycle
  <2>6. k = Len(path) - i + 1
    BY DEF k
  <2>7. ASSUME NEW j \in 1..(Len(cycle') - 1)
        PROVE  cycle'[j + 1] \in deps'[cycle'[j]]
    <3>1. j \in 1..k /\ cycle'[j] = path[i + j - 1]
      BY <2>2, <2>4, <2>7
    <3>2. CASE j = k
      BY <2>2, <2>4, <2>5, <2>6, <3>1, <3>2 DEF Current
    <3>3. CASE j # k
      <4>1. j + 1 \in 1..k /\ cycle'[j + 1] = path[(i + j - 1) + 1]
        BY <2>2, <2>4, <3>1, <3>3
      <4>2. i + j - 1 \in 1..(Len(path) - 1)
        BY <2>2, <2>6, <3>1, <3>3
      <4> QED
        BY <1>0, <2>5, <3>1, <4>1, <4>2 DEF OnPath
    <3> QED
      BY <3>2, <3>3
  <2>8. Len(cycle') > 1 /\ cycle'[1] = cycle'[Len(cycle')]
    BY <2>1, <2>2, <2>4
  <2> QED
    BY <2>7, <2>8 DEF CycleIsReal
<1>2. CASE stage' # "cyclic"
  BY <1>2 DEF CycleIsReal
<1>3. CASE UNCHANGED <<stage, cycle, deps>>
  BY <1>0, <1>3 DEF CycleIsReal
<1> QED
  BY <1>1, <1>2, <1>3
  DEF GraphNext, GraphStep, CheckEdges, EnterRoot, EnterDependency, Enter, Leave,
      BeginOrder, TakeReady, EndOrder, graphVars

------------------------------------------------------------------------------
(* The order *)

(* All that comes before the end of the order is all of it. *)
LEMMA BeforeTheEnd ==
    ASSUME order \in Seq(Resource)
    PROVE  Before(Len(order) + 1) = Elements(order)
BY DEF Before, Elements

(* What one turn of the loop does to the order. *)
LEMMA Taking ==
    ASSUME GraphInv, TakeReady
    PROVE  /\ Least(ready) \in ready /\ Least(ready) \in nodes
           /\ Least(ready) \notin Elements(order)
           /\ deps[Least(ready)] \subseteq Elements(order)
           /\ Len(order) \in Nat
           /\ Len(order') = Len(order) + 1
           /\ order'[Len(order) + 1] = Least(ready)
           /\ \A i \in 1..Len(order) : order'[i] = order[i]
           /\ Elements(order') = Elements(order) \cup {Least(ready)}
           /\ \A i \in 1..(Len(order) + 1) : (Before(i))' = Before(i)
<1> DEFINE n == Least(ready)
<1>1. GraphTypeOK /\ Kahn /\ stage = "order"
  BY DEF GraphInv, TakeReady
<1>2. n \in ready
  BY <1>1, LeastResource DEF TakeReady, GraphTypeOK
<1>3. /\ n \in nodes /\ n \notin Elements(order)
      /\ deps[n] \subseteq Elements(order)
  BY <1>1, <1>2 DEF Kahn, Remaining
<1>4. order \in Seq(Resource) /\ n \in Resource /\ order' = Append(order, n)
  BY <1>1, <1>2 DEF TakeReady, GraphTypeOK
<1> HIDE DEF n
<1>5. /\ Len(order') = Len(order) + 1
      /\ order'[Len(order) + 1] = n
      /\ \A i \in 1..Len(order) : order'[i] = order[i]
      /\ Elements(order') = Elements(order) \cup {n}
      /\ Len(order) \in Nat
  BY <1>4, AppendFacts
<1>6. ASSUME NEW i \in 1..(Len(order) + 1)
      PROVE  (Before(i))' = Before(i)
  <2>1. \A j \in 1..(i - 1) : order'[j] = order[j]
    BY <1>5, <1>6
  <2> QED
    BY <2>1 DEF Before
<1> QED
  BY <1>2, <1>3, <1>5, <1>6 DEF n

(* The places of the order: each after its dependencies, none twice. *)
LEMMA TakePlaces ==
    ASSUME GraphInv, TakeReady
    PROVE  /\ Elements(order') \subseteq nodes'
           /\ Len(order') = Cardinality(Elements(order'))
           /\ \A i \in 1..Len(order') : deps'[order'[i]] \subseteq (Before(i))'
<1>1. GraphTypeOK /\ Kahn /\ nodes' = nodes /\ deps' = deps
  BY DEF GraphInv, TakeReady
<1>2. Elements(order') \subseteq nodes'
  BY <1>1, Taking DEF Kahn
<1>3. IsFiniteSet(Elements(order)) /\ Cardinality(Elements(order)) = Len(order)
  BY <1>1, ResourcesFinite DEF Kahn, GraphTypeOK
<1>4. Len(order') = Cardinality(Elements(order'))
  BY <1>3, Taking, FS_AddElement
<1>5. ASSUME NEW i \in 1..Len(order')
      PROVE  deps'[order'[i]] \subseteq (Before(i))'
  <2>1. CASE i = Len(order) + 1
    <3>1. (Before(i))' = Elements(order)
      BY <1>1, <2>1, Taking, BeforeTheEnd DEF GraphTypeOK
    <3> QED
      BY <1>1, <2>1, <3>1, Taking
  <2>2. CASE i \in 1..Len(order)
    <3>1. order'[i] = order[i] /\ (Before(i))' = Before(i)
      BY <2>2, Taking
    <3> QED
      BY <1>1, <2>2, <3>1 DEF Kahn
  <2> QED
    BY <2>1, <2>2, Taking
<1> QED
  BY <1>2, <1>4, <1>5

(* The degrees and the queue. *)
LEMMA TakeDegrees ==
    ASSUME GraphInv, TakeReady
    PROVE  /\ \A m \in Resource : inDegree'[m] = Cardinality((Remaining(m))')
           /\ ready' = {m \in nodes' \ Elements(order') : (Remaining(m))' = {}}
<1> DEFINE n == Least(ready)
<1>1. GraphTypeOK /\ Kahn /\ Given /\ stage = "order" /\ nodes' = nodes /\ deps' = deps
  BY DEF GraphInv, TakeReady
<1>2. /\ n \in ready /\ n \in nodes /\ n \notin Elements(order)
      /\ deps[n] \subseteq Elements(order)
      /\ Elements(order') = Elements(order) \cup {n}
  BY Taking
<1>3. /\ inDegree' = [m \in Resource |->
                         IF m \in Dependents(n) THEN inDegree[m] - 1 ELSE inDegree[m]]
      /\ ready' = (ready \ {n}) \cup {m \in Dependents(n) : inDegree[m] = 1}
  BY DEF TakeReady
<1> HIDE DEF n
<1>4. \A m \in Resource : (Remaining(m))' = Remaining(m) \ {n}
  BY <1>1, <1>2 DEF Remaining
<1>5. \A m \in Resource : /\ inDegree[m] = Cardinality(Remaining(m))
                          /\ IsFiniteSet(Remaining(m)) /\ Cardinality(Remaining(m)) \in Nat
  <2>1. \A m \in Resource : Remaining(m) \in SUBSET Resource
    BY <1>1 DEF Remaining, GraphTypeOK
  <2> QED
    BY <1>1, <2>1, ResourcesFinite DEF Kahn
<1>6. \A m \in Resource : m \in Dependents(n) <=> n \in Remaining(m)
  BY <1>1, <1>2 DEF Dependents, Remaining, Given
<1>7. \A m \in Resource : n \in Remaining(m) =>
        /\ Cardinality(Remaining(m) \ {n}) = Cardinality(Remaining(m)) - 1
        /\ IsFiniteSet(Remaining(m) \ {n})
  BY <1>5, FS_RemoveElement
<1>8. ASSUME NEW m \in Resource
      PROVE  inDegree'[m] = Cardinality((Remaining(m))')
  <2>1. CASE n \in Remaining(m)
    BY <1>3, <1>4, <1>5, <1>6, <1>7, <2>1
  <2>2. CASE n \notin Remaining(m)
    <3>1. Remaining(m) \ {n} = Remaining(m)
      BY <2>2
    <3>2. inDegree'[m] = inDegree[m]
      BY <1>3, <1>6, <2>2
    <3> QED
      BY <1>4, <1>5, <3>1, <3>2
  <2> QED
    BY <2>1, <2>2
<1>9. ASSUME NEW m \in Resource, n \in Remaining(m)
      PROVE  inDegree[m] = 1 <=> Remaining(m) \ {n} = {}
  <2> DEFINE T == Remaining(m) \ {n}
  <2>1. IsFiniteSet(T) /\ Cardinality(T) = inDegree[m] - 1 /\ inDegree[m] \in Nat
    BY <1>5, <1>7, <1>9
  <2> HIDE DEF T
  <2>2. Cardinality(T) = 0 <=> T = {}
    BY <2>1, FS_EmptySet
  <2>3. inDegree[m] = 1 <=> T = {}
    BY <2>1, <2>2
  <2> QED
    BY <2>3 DEF T
<1>10. \A m \in Elements(order) : n \notin Remaining(m)
  <2>1. ASSUME NEW i \in 1..Len(order)
        PROVE  n \notin deps[order[i]]
    <3>1. deps[order[i]] \subseteq Before(i)
      BY <1>1 DEF Kahn
    <3>2. Before(i) \subseteq Elements(order)
      BY <1>1 DEF Before, Elements, GraphTypeOK
    <3> QED
      BY <1>2, <3>1, <3>2
  <2> QED
    BY <2>1 DEF Elements, Remaining
<1>11. ready = {m \in nodes \ Elements(order) : Remaining(m) = {}}
  BY <1>1 DEF Kahn
<1>12. \A m \in Resource : m \in ready' <=> m \in nodes \ Elements(order') /\ (Remaining(m))' = {}
  <2> SUFFICES ASSUME NEW m \in Resource
               PROVE  m \in ready' <=> m \in nodes \ Elements(order') /\ Remaining(m) \ {n} = {}
    BY <1>4
  <2>1. CASE n \in Remaining(m)
    <3>1. m # n /\ m \notin Elements(order) /\ m \notin ready /\ m \in nodes
      BY <1>1, <1>2, <1>6, <1>10, <1>11, <2>1 DEF Remaining, Dependents
    <3> QED
      BY <1>2, <1>3, <1>6, <1>9, <2>1, <3>1
  <2>2. CASE n \notin Remaining(m)
    BY <1>2, <1>3, <1>6, <1>11, <2>2
  <2> QED
    BY <2>1, <2>2
<1>13. ready' \subseteq Resource /\ nodes \subseteq Resource
  BY <1>1, <1>3 DEF GraphTypeOK, Dependents
<1> QED
  BY <1>1, <1>8, <1>12, <1>13

(* At the end nobody is missing: those left would wait for each other. *)
LEMMA EndKahn ==
    ASSUME GraphInv, EndOrder
    PROVE  Elements(order) = nodes
<1>1. GraphTypeOK /\ Kahn /\ Given /\ stage = "order" /\ ready = {} /\ Acyclic(deps)
  BY DEF GraphInv, EndOrder, AcceptedIsAcyclic
<1> DEFINE R == nodes \ Elements(order)
<1>2. SUFFICES ASSUME R # {} PROVE FALSE
  BY <1>1 DEF Kahn
<1>3. PICK r \in R : deps[r] \cap R = {}
  BY <1>1, <1>2 DEF Acyclic, GraphTypeOK
<1>4. deps[r] \subseteq Elements(order)
  BY <1>1, <1>3 DEF Given
<1> QED
  BY <1>1, <1>3, <1>4 DEF Kahn, Remaining

(* Kahn's loop through every step. *)
LEMMA KahnStep ==
    ASSUME GraphInv, [GraphNext]_graphVars
    PROVE  Kahn'
<1>0. GraphTypeOK /\ Kahn /\ Given
  BY DEF GraphInv
<1>1. CASE BeginOrder
  <2>1. order = <<>> /\ order' = order /\ deps' = deps /\ nodes' = nodes /\ stage' = "order"
    BY <1>0, <1>1 DEF BeginOrder, Given
  <2>2. Elements(order) = {}
    BY <2>1 DEF Elements
  <2>3. \A n : (Remaining(n))' = deps[n]
    BY <2>1, <2>2 DEF Remaining
  <2>4. /\ \A n \in Resource : inDegree'[n] = Cardinality((Remaining(n))')
        /\ ready' = {n \in nodes \ Elements(order) : (Remaining(n))' = {}}
    BY <1>1, <2>2, <2>3 DEF BeginOrder
  <2>5. /\ Elements(order') \subseteq nodes'
        /\ Len(order') = Cardinality(Elements(order'))
        /\ \A i \in 1..Len(order') : deps'[order'[i]] \subseteq (Before(i))'
    BY <1>0, <2>1 DEF Kahn, Before
  <2> QED
    BY <2>1, <2>4, <2>5 DEF Kahn
<1>2. CASE TakeReady
  <2>1. stage' = "order"
    BY <1>2 DEF TakeReady
  <2> QED
    BY <1>2, <2>1, TakePlaces, TakeDegrees DEF Kahn
<1>3. CASE EndOrder
  <2>1. Elements(order) = nodes
    BY <1>3, EndKahn
  <2>2. stage = "order" /\ UNCHANGED <<nodes, deps, inDegree, ready, order>>
    BY <1>3 DEF EndOrder
  <2>3. /\ \A n : (Remaining(n))' = Remaining(n)
        /\ \A i : (Before(i))' = Before(i)
    BY <2>2 DEF Remaining, Before
  <2> QED
    BY <1>0, <2>1, <2>2, <2>3 DEF Kahn
<1>4. CASE CheckEdges
  <2>1. order = <<>> /\ order' = order /\ stage' \in {"search", "missing"}
    BY <1>0, <1>4 DEF CheckEdges, Given
  <2>2. Elements(order) = {} /\ Len(order) = 0
    BY <2>1 DEF Elements
  <2> QED
    BY <1>0, <2>1, <2>2 DEF Kahn
<1>5. CASE UNCHANGED <<nodes, deps, order>> /\ stage' \notin {"order", "built"}
  BY <1>0, <1>5 DEF Kahn, Before
<1>6. CASE UNCHANGED graphVars
  BY <1>0, <1>6 DEF Kahn, Remaining, Before, graphVars
<1> QED
  BY <1>1, <1>2, <1>3, <1>4, <1>5, <1>6
  DEF GraphNext, GraphStep, EnterRoot, EnterDependency, Enter, FindCycle, Leave

(* The least of those that may come next is taken. *)
LEMMA StableStep ==
    ASSUME GraphInv, [GraphNext]_graphVars
    PROVE  OrderIsStable'
<1>0. GraphTypeOK /\ Kahn /\ Given /\ OrderIsStable
  BY DEF GraphInv
<1>1. CASE TakeReady
  <2>0. stage = "order" /\ nodes' = nodes /\ deps' = deps
    BY <1>1 DEF TakeReady
  <2>1. ready = {m \in nodes \ Before(Len(order) + 1) : deps[m] \subseteq Before(Len(order) + 1)}
    BY <1>0, <2>0, BeforeTheEnd DEF Kahn, Remaining, GraphTypeOK
  <2>2. ASSUME NEW i \in 1..Len(order')
        PROVE  order'[i] = Least({m \in nodes' \ (Before(i))' : deps'[m] \subseteq (Before(i))'})
    <3>1. CASE i = Len(order) + 1
      <4>1. order'[i] = Least(ready) /\ (Before(i))' = Before(i)
        BY <1>1, <3>1, Taking
      <4>2. ready = {m \in nodes' \ (Before(i))' : deps'[m] \subseteq (Before(i))'}
        BY <2>0, <2>1, <3>1, <4>1
      <4> QED
        BY <4>1, <4>2
    <3>2. CASE i \in 1..Len(order)
      <4>1. order'[i] = order[i] /\ (Before(i))' = Before(i)
        BY <1>1, <3>2, Taking
      <4> QED
        BY <1>0, <2>0, <3>2, <4>1 DEF OrderIsStable
    <3> QED
      BY <1>1, <3>1, <3>2, Taking
  <2> QED
    BY <2>2 DEF OrderIsStable
<1>2. CASE BeginOrder
  <2>1. order' = <<>>
    BY <1>0, <1>2 DEF BeginOrder, Given
  <2> QED
    BY <2>1 DEF OrderIsStable
<1>3. CASE stage' \notin {"order", "built"}
  BY <1>3 DEF OrderIsStable
<1>4. CASE UNCHANGED <<nodes, deps, order>> /\ stage \in {"order", "built"}
  <2>1. \A i : (Before(i))' = Before(i)
    BY <1>4 DEF Before
  <2> QED
    BY <1>0, <1>4, <2>1 DEF OrderIsStable
<1> QED
  BY <1>1, <1>2, <1>3, <1>4
  DEF GraphNext, GraphStep, CheckEdges, EnterRoot, EnterDependency, Enter, FindCycle, Leave,
      EndOrder, graphVars

------------------------------------------------------------------------------
(* Theorems *)

(* Every reachable state satisfies the invariant. *)
LEMMA GraphInvariant == GraphSpec => []GraphInv
<1>1. GraphInv /\ [GraphNext]_graphVars => GraphInv'
  BY TypeStep, GivenStep, OnPathStep, BlackStep, AcceptedStep, CycleStep, KahnStep, StableStep
  DEF GraphInv
<1> QED
  BY <1>1, GraphTypeInit, PTL DEF GraphSpec

(* The locals of build_dependency_graph keep their types. *)
THEOREM GraphTypeCorrect == GraphSpec => []GraphTypeOK
BY GraphInvariant, PTL DEF GraphInv

(* _detect_cycle lets no cyclic graph through, and reports a real cycle. *)
THEOREM CyclesAreFound == GraphSpec => []SearchIsExact
BY GraphInvariant, PTL DEF GraphInv, SearchIsExact

(* The order that is returned is complete and topological, and the one in  *)
(* which the least resource always goes first.                             *)
THEOREM OrderIsRight == GraphSpec => []OrderIsCorrect
<1>1. GraphInv => OrderIsTopological
  BY DEF GraphInv, Kahn, OrderIsTopological
<1> QED
  BY <1>1, GraphInvariant, PTL DEF GraphInv, OrderIsCorrect

------------------------------------------------------------------------------
(* The plan *)

(* Where build_launch_plan is, and what it knows by then. *)
PlanProgress ==
    /\ request \in Request
    /\ pc = "graph" <=> stage # "uncalled"
    /\ pc \in {"resolve", "plan", "graph"} => selected = Selection
    /\ pc \in {"start", "resolve"} => planned = {}
    /\ \A r \in planned : Resolves(r)
    /\ pc = "graph" => /\ nodes = planned /\ planned = selected
                       /\ \A r \in nodes : deps[r] = request.needs[r]

PlanInv == PlanTypeOK /\ PlanProgress

(* A request has the fields of one. *)
LEMMA RequestType ==
    ASSUME request \in Request
    PROVE  /\ request.needs \in [Resource -> SUBSET Resource]
           /\ request.probe \in [Resource -> SUBSET Name]
           /\ Selection \in SUBSET Resource
BY RequestAssumption DEF Selection

(* The graph is built from a subset of the resources and their edges. *)
LEMMA BuildIsCall ==
    ASSUME PlanInv, BuildGraph
    PROVE  GraphNext
<1>1. /\ nodes' \in SUBSET Resource
      /\ deps' \in [Resource -> SUBSET Resource]
      /\ \A n \in Resource \ nodes' : deps'[n] = {}
  BY RequestType DEF PlanInv, PlanTypeOK, PlanProgress, BuildGraph, Call
<1> QED
  BY <1>1 DEF BuildGraph, Call, GraphNext

(* A step of the plan is a step of the graph builder or leaves it alone. *)
LEMMA PlanStepIsGraphStep ==
    ASSUME PlanInv, [PlanNext]_planVars
    PROVE  [GraphNext]_graphVars
<1>1. CASE BuildGraph
  BY <1>1, BuildIsCall
<1>2. CASE GraphTurn
  BY <1>2 DEF GraphTurn, GraphNext
<1>3. CASE UNCHANGED graphVars
  BY <1>3
<1> QED
  BY <1>1, <1>2, <1>3
  DEF PlanNext, planVars, Select, UnknownProfile, ResolveValues, Raise, PlanResource,
      UnresolvedReference, MalformedProbe

(* The types of the plan. *)
LEMMA PlanTypeStep ==
    ASSUME PlanInv, [PlanNext]_planVars, GraphTypeOK'
    PROVE  PlanTypeOK'
<1> USE DEF PlanTypeOK
<1>0. PlanTypeOK /\ request \in Request /\ (pc = "start" => planned = {})
  BY DEF PlanInv, PlanProgress
<1>1. CASE Select
  BY <1>0, <1>1, RequestType DEF Select
<1>2. CASE Raise
  BY <1>0, <1>2 DEF Raise
<1>3. ASSUME NEW o, NEW d, ResolveValues(o, d), pc' # "raised"
      PROVE  PlanTypeOK'
  BY <1>0, <1>3 DEF ResolveValues, Raise
<1>4. ASSUME NEW r \in Resource, NEW b, PlanResource(r, b)
      PROVE  PlanTypeOK'
  BY <1>0, <1>4, RequestType DEF PlanResource
<1>5. CASE BuildGraph
  BY <1>0, <1>5 DEF BuildGraph
<1>6. CASE UNCHANGED ownVars
  BY <1>0, <1>6 DEF ownVars
<1> QED
  BY <1>1, <1>2, <1>3, <1>4, <1>5, <1>6
  DEF PlanNext, planVars, UnknownProfile, ResolveValues, UnresolvedReference, MalformedProbe,
      GraphTurn

(* What the plan knows. *)
LEMMA PlanProgressStep ==
    ASSUME PlanInv, [PlanNext]_planVars
    PROVE  PlanProgress'
<1> USE DEF PlanProgress
<1>0. PlanTypeOK /\ PlanProgress
  BY DEF PlanInv
<1>1. CASE Select
  BY <1>0, <1>1 DEF Select, Selection, Resolves, graphVars
<1>2. CASE Raise /\ pc \in {"resolve", "plan"}
  BY <1>0, <1>2 DEF Raise, Selection, Resolves, graphVars
<1>3. ASSUME NEW o, NEW d, ResolveValues(o, d), pc' # "raised"
      PROVE  PlanProgress'
  BY <1>0, <1>3 DEF ResolveValues, Raise, Selection, Resolves, graphVars
<1>4. ASSUME NEW r \in Resource, NEW b, PlanResource(r, b)
      PROVE  PlanProgress'
  BY <1>0, <1>4 DEF PlanResource, Selection, Resolves, graphVars
<1>5. CASE BuildGraph
  <2>1. /\ pc' = "graph" /\ stage' # "uncalled"
        /\ UNCHANGED <<request, selected, values, planned, readiness, invalid>>
        /\ nodes' = planned /\ planned = selected
    BY <1>5 DEF BuildGraph, Call, CheckEdges
  <2>2. \A r \in nodes' : deps'[r] = request.needs[r]
    BY <1>0, <1>5, <2>1 DEF BuildGraph, Call, PlanTypeOK
  <2>3. Selection' = Selection /\ \A r : (Resolves(r))' = Resolves(r)
    BY <2>1 DEF Selection, Resolves
  <2> QED
    BY <1>0, <1>5, <2>1, <2>2, <2>3 DEF BuildGraph
<1>6. CASE GraphTurn
  <2>1. UNCHANGED <<request, pc, selected, values, planned>>
    BY <1>6 DEF GraphTurn, ownVars
  <2>2. UNCHANGED <<nodes, deps>> /\ stage # "uncalled" /\ stage' # "uncalled"
    BY <1>6
    DEF GraphTurn, GraphStep, EnterRoot, EnterDependency, Enter, FindCycle, Leave, BeginOrder,
        TakeReady, EndOrder
  <2>3. Selection' = Selection /\ \A r : (Resolves(r))' = Resolves(r)
    BY <2>1 DEF Selection, Resolves
  <2> QED
    BY <1>0, <2>1, <2>2, <2>3
<1>7. CASE UNCHANGED planVars
  BY <1>0, <1>7 DEF planVars, ownVars, graphVars, Selection, Resolves
<1> QED
  BY <1>1, <1>2, <1>3, <1>4, <1>5, <1>6, <1>7
  DEF PlanNext, UnknownProfile, ResolveValues, UnresolvedReference, MalformedProbe

(* Both invariants, throughout a plan. *)
LEMMA PlanInvariant == PlanSpec => [](PlanInv /\ GraphInv)
<1>1. PlanInit => GraphInv /\ PlanInv
  <2> SUFFICES ASSUME PlanInit PROVE GraphInv /\ PlanInv
    OBVIOUS
  <2>1. GraphInv
    BY GraphTypeInit DEF PlanInit
  <2> QED
    BY <2>1 DEF PlanInit, PlanInv, PlanTypeOK, PlanProgress, GraphInv, GraphInit
<1>2. PlanInv /\ GraphInv /\ [PlanNext]_planVars => PlanInv' /\ GraphInv'
  <2> SUFFICES ASSUME PlanInv, GraphInv, [PlanNext]_planVars
               PROVE  PlanInv' /\ GraphInv'
    OBVIOUS
  <2>1. GraphInv'
    BY PlanStepIsGraphStep, TypeStep, GivenStep, OnPathStep, BlackStep, AcceptedStep,
       CycleStep, KahnStep, StableStep
    DEF GraphInv
  <2>2. GraphTypeOK'
    BY <2>1 DEF GraphInv
  <2> QED
    BY <2>1, <2>2, PlanTypeStep, PlanProgressStep DEF PlanInv
<1> QED
  BY <1>1, <1>2, PTL DEF PlanSpec

(* The locals of build_launch_plan keep their types. *)
THEOREM PlanTypeCorrect == PlanSpec => []PlanTypeOK
BY PlanInvariant, PTL DEF PlanInv

(* build_launch_plan uses the graph builder as it may be used, so all that *)
(* is proved of that holds of the graph in a plan.                         *)
THEOREM PlanImplementsGraph == PlanSpec => ImplementsGraph
<1>1. PlanInit => GraphInit
  BY DEF PlanInit
<1>2. PlanInv /\ [PlanNext]_planVars => [GraphNext]_graphVars
  BY PlanStepIsGraphStep
<1> QED
  BY <1>1, <1>2, PlanInvariant, PTL DEF PlanSpec, ImplementsGraph

(* A plan holds what was asked for, closed under dependencies and with a   *)
(* value for everything it refers to.                                      *)
THEOREM PlansAreSound == PlanSpec => []PlanIsSound
<1>1. PlanInv /\ GraphInv => PlanIsSound
  <2> SUFFICES ASSUME PlanInv, GraphInv, Finished, NEW r \in Resource
               PROVE  /\ r \in planned <=> /\ r \in request.enabled \ request.skip
                                           /\ r \in request.only \/ request.only = {}
                      /\ r \in planned => /\ \A d \in request.needs[r] : d \in planned /\ d \in nodes
                                          /\ request.text[r] \subseteq values
    BY DEF PlanIsSound
  <2>1. planned = Selection /\ nodes = planned /\ \A n \in nodes : deps[n] = request.needs[n]
    BY DEF PlanInv, PlanProgress, Finished
  <2>2. \A n \in nodes : deps[n] \subseteq nodes
    BY DEF GraphInv, Given, Finished
  <2>3. \A n \in planned : request.text[n] \subseteq values
    BY DEF PlanInv, PlanProgress, Resolves
  <2> QED
    BY <2>1, <2>2, <2>3 DEF Selection
<1> QED
  BY <1>1, PlanInvariant, PTL

(* The graph of a plan is one the scheduler never stalls on. *)
THEOREM PlansAreAcyclic == PlanSpec => [](Finished => Acyclic(deps))
<1>1. GraphInv => (Finished => Acyclic(deps))
  BY DEF GraphInv, AcceptedIsAcyclic, Finished
<1> QED
  BY <1>1, PlanInvariant, PTL
=============================================================================
