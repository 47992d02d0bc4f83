--------------------------- MODULE DependencyGraph ---------------------------
(***************************************************************************)
(* domain/graph.py: build_dependency_graph.  The depth-first search of     *)
(* _detect_cycle and the queue of _topological_order, cut into their       *)
(* steps, so that what the one leaves behind can be compared with what the *)
(* other takes for granted: Kahn's loop says nothing of a cycle, it would  *)
(* just return an order with resources missing.                            *)
(*                                                                         *)
(* A resource's depends_on is a tuple in whatever order the author wrote;  *)
(* the search looks at the members of the set in any order.  Its call      *)
(* stack is path.                                                          *)
(***************************************************************************)
EXTENDS Integers, Sequences, FiniteSets

CONSTANT Resource   \* resource ids; < is the order of sorted()

ASSUME ResourceAssumption == Resource \in SUBSET Nat /\ IsFiniteSet(Resource)

VARIABLES
    stage,     \* how far build_dependency_graph has come
    nodes,     \* the ids of the resources it was given
    deps,      \* dependencies
    color,     \* of _detect_cycle
    path,      \* of _detect_cycle; also its call stack
    cycle,     \* what DependencyCycleError names
    inDegree,  \* of _topological_order
    ready,     \* of _topological_order; kept sorted there
    order      \* of _topological_order

graphVars == <<stage, nodes, deps, color, path, cycle, inDegree, ready, order>>

Stage == {"uncalled", "search", "order", "built", "missing", "cyclic"}

Elements(s) == {s[i] : i \in 1..Len(s)}

Least(S) == CHOOSE n \in S : \A m \in S : n <= m

Colored(c) == {n \in nodes : color[n] = c}

GraphInit ==
    /\ stage = "uncalled"
    /\ nodes = {}
    /\ deps = [n \in Resource |-> {}]
    /\ color = [n \in Resource |-> "white"]
    /\ path = <<>> /\ cycle = <<>>
    /\ inDegree = [n \in Resource |-> 0]
    /\ ready = {} /\ order = <<>>

\* Mutant: edges that lead out of the given resources go unnoticed.
CheckEdges_Skipped ==
    /\ stage = "uncalled"
    /\ stage' = "search"
    /\ UNCHANGED <<color, path, cycle, inDegree, ready, order>>

(* The first loop: every dependency must be among the given resources.     *)
CheckEdges ==
    /\ stage = "uncalled"
    /\ stage' = IF \A n \in nodes' : deps'[n] \subseteq nodes' THEN "search" ELSE "missing"
    /\ UNCHANGED <<color, path, cycle, inDegree, ready, order>>

Call(N, needs) ==
    /\ nodes' = N
    /\ deps' = [n \in Resource |-> IF n \in N THEN needs[n] ELSE {}]
    /\ CheckEdges

------------------------------------------------------------------------------
(* _detect_cycle *)

Current == path[Len(path)]

(* visit(n) begins. *)
Enter(n) ==
    /\ color' = [color EXCEPT ![n] = "gray"]
    /\ path' = Append(path, n)
    /\ UNCHANGED <<stage, nodes, deps, cycle, inDegree, ready, order>>

EnterRoot ==
    /\ stage = "search" /\ path = <<>> /\ Colored("white") # {}
    /\ Enter(Least(Colored("white")))

EnterDependency(d) ==
    /\ stage = "search" /\ path # <<>>
    /\ d \in deps[Current] /\ color[d] = "white"
    /\ Enter(d)

(* The dependency is still being visited: the error names the path from it *)
(* to the current resource, and it again.                                  *)
FindCycle(d) ==
    /\ stage = "search" /\ path # <<>>
    /\ d \in deps[Current] /\ color[d] = "gray"
    /\ stage' = "cyclic"
    /\ \E i \in 1..Len(path) :
         /\ path[i] = d
         /\ cycle' = Append(SubSeq(path, i, Len(path)), d)
    /\ UNCHANGED <<nodes, deps, color, path, inDegree, ready, order>>

\* Mutant: a visited resource is taken for a finished one.
Leave_Visited ==
    /\ stage = "search" /\ path # <<>>
    /\ \A d \in deps[Current] : color[d] # "white"
    /\ color' = [color EXCEPT ![Current] = "black"]
    /\ path' = SubSeq(path, 1, Len(path) - 1)
    /\ UNCHANGED <<stage, nodes, deps, cycle, inDegree, ready, order>>

(* visit returns: the loop has seen every dependency. *)
Leave ==
    /\ stage = "search" /\ path # <<>>
    /\ \A d \in deps[Current] : color[d] = "black"
    /\ color' = [color EXCEPT ![Current] = "black"]
    /\ path' = SubSeq(path, 1, Len(path) - 1)
    /\ UNCHANGED <<stage, nodes, deps, cycle, inDegree, ready, order>>

------------------------------------------------------------------------------
(* _topological_order *)

(* No white resource is left; the degrees are counted, the queue filled. *)
BeginOrder ==
    /\ stage = "search" /\ path = <<>> /\ Colored("white") = {}
    /\ stage' = "order"
    /\ inDegree' = [n \in Resource |-> Cardinality(deps[n])]
    /\ ready' = {n \in nodes : deps[n] = {}}
    /\ UNCHANGED <<nodes, deps, color, path, cycle, order>>

Dependents(n) == {m \in nodes : n \in deps[m]}

\* Mutant: a dependent is let in after the first of its dependencies.
TakeReady_First ==
    /\ stage = "order" /\ ready # {}
    /\ LET n == Least(ready)
       IN  /\ order' = Append(order, n)
           /\ inDegree' = inDegree
           /\ ready' = (ready \ {n}) \cup (Dependents(n) \ Elements(order))
    /\ UNCHANGED <<stage, nodes, deps, color, path, cycle>>

(* One turn of the loop: the least ready resource is taken. *)
TakeReady ==
    /\ stage = "order" /\ ready # {}
    /\ LET n == Least(ready)
       IN  /\ order' = Append(order, n)
           /\ inDegree' = [m \in Resource |->
                              IF m \in Dependents(n) THEN inDegree[m] - 1 ELSE inDegree[m]]
           /\ ready' = (ready \ {n}) \cup {m \in Dependents(n) : inDegree[m] = 1}
    /\ UNCHANGED <<stage, nodes, deps, color, path, cycle>>

EndOrder ==
    /\ stage = "order" /\ ready = {}
    /\ stage' = "built"
    /\ UNCHANGED <<nodes, deps, color, path, cycle, inDegree, ready, order>>

GraphStep ==
    \/ EnterRoot
    \/ \E d \in Resource : EnterDependency(d) \/ FindCycle(d)
    \/ Leave
    \/ BeginOrder
    \/ TakeReady
    \/ EndOrder

GraphNext ==
    \/ /\ nodes' \in SUBSET Resource
       /\ deps' \in [Resource -> SUBSET Resource]
       /\ \A n \in Resource \ nodes' : deps'[n] = {}
       /\ CheckEdges
    \/ GraphStep

GraphSpec == GraphInit /\ [][GraphNext]_graphVars

------------------------------------------------------------------------------
(* Properties *)

(* The types of the locals. *)
GraphTypeOK ==
    /\ stage \in Stage
    /\ nodes \in SUBSET Resource
    /\ deps \in [Resource -> SUBSET Resource]
    /\ color \in [Resource -> {"white", "gray", "black"}]
    /\ path \in Seq(Resource) /\ cycle \in Seq(Resource) /\ order \in Seq(Resource)
    /\ inDegree \in [Resource -> Int]
    /\ ready \in SUBSET Resource

(* Every nonempty set of resources has a member with no dependency in it:  *)
(* what Scheduler.tla asks of its graph before it promises not to stall.   *)
Acyclic(g) == \A S \in SUBSET Resource : S # {} => \E r \in S : g[r] \cap S = {}

(* A graph that passes the search has no cycle. *)
AcceptedIsAcyclic == stage \in {"order", "built"} => Acyclic(deps)

(* What the search reports is one: each resource in it depends on the      *)
(* next, and it ends where it began.                                       *)
CycleIsReal ==
    stage = "cyclic" =>
        /\ Len(cycle) > 1 /\ cycle[1] = cycle[Len(cycle)]
        /\ \A i \in 1..(Len(cycle) - 1) : cycle[i + 1] \in deps[cycle[i]]

(* _detect_cycle turns away exactly the graphs with a cycle, whatever      *)
(* order it meets the edges in: a graph it lets through is one a launch's  *)
(* scheduler can finish, and DependencyCycleError names a real cycle of    *)
(* the graph it refuses.                                                   *)
SearchIsExact == AcceptedIsAcyclic /\ CycleIsReal

(* What comes before place i in the order. *)
Before(i) == {order[j] : j \in 1..(i - 1)}

(* Every resource stands in the order once, after its dependencies. *)
OrderIsTopological ==
    stage = "built" =>
        /\ Elements(order) = nodes
        /\ Len(order) = Cardinality(nodes)
        /\ \A i \in 1..Len(order) : deps[order[i]] \subseteq Before(i)

(* At each place stands the least of those that may come next. *)
OrderIsStable ==
    stage \in {"order", "built"} =>
        \A i \in 1..Len(order) :
            order[i] = Least({n \in nodes \ Before(i) : deps[n] \subseteq Before(i)})

(* graph.order is the one order there is: the counting of in_degree loses  *)
(* nobody and lets nobody through early, and among those that may come     *)
(* next the least id goes first, so it does not depend on the order in     *)
(* which the manifest lists its resources or a set is walked.              *)
OrderIsCorrect == OrderIsTopological /\ OrderIsStable
==============================================================================
