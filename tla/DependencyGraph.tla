-------------------------- MODULE DependencyGraph --------------------------
(***************************************************************************)
(* The node graph of StatForge (src/stat_kernel/graph.cpp), as pure        *)
(* operators on a graph value.  A graph keeps the type of every node and   *)
(* the two adjacency maps of the code, which the code stores redundantly   *)
(* and updates by hand: _dependenciesMap (what a node reads) and           *)
(* _dependentsMap (who reads a node).  An absent entry of a map and an     *)
(* empty vector answer every query alike, so both are the empty set here.  *)
(* The order of a vector is abstracted: wherever an iteration order could  *)
(* be seen, the modules that use the graph allow every order.              *)
(*                                                                         *)
(* An operation that can fail returns [code, graph]: the error code the    *)
(* caller gets and the graph it leaves behind.                             *)
(***************************************************************************)
EXTENDS Functions, FiniteSets, Sequences

CONSTANT NodeId      \* the node names the callers use

ASSUME FiniteNodeIds == IsFiniteSet(NodeId)

\* enum class NodeType, and the type of a name that _nodes does not hold.
NodeType == {"Value", "Formula", "Collection"}
Absent == "Absent"

Graphs == [type: [NodeId -> NodeType \cup {Absent}],
           dependencies: [NodeId -> SUBSET NodeId],
           dependents: [NodeId -> SUBSET NodeId]]

Nodes(g) == {n \in NodeId : g.type[n] # Absent}

\* Graph::clear.
EmptyGraph == [type |-> [n \in NodeId |-> Absent],
               dependencies |-> [n \in NodeId |-> {}],
               dependents |-> [n \in NodeId |-> {}]]

-----------------------------------------------------------------------------
\* A set of nodes no edge leaves.
ClosedUnder(edges, S) == \A n \in S : edges[n] \subseteq S

\* The nodes a walk along `edges' can visit when it starts in `roots': the
\* least set that holds the roots and that no edge leaves.
Reach(edges, roots) ==
    LET closed == {S \in SUBSET NodeId : roots \subseteq S /\ ClosedUnder(edges, S)}
    IN  {n \in NodeId : \A S \in closed : n \in S}

\* hasPath: the work-list search from src visits target.
HasPath(src, target, edges) == target \in Reach(edges, {src})

-----------------------------------------------------------------------------
\* addNode.
AddNode(g, id, type) ==
    IF id \in Nodes(g)
    THEN [code |-> "NODE_ALREADY_EXISTS", graph |-> g]
    ELSE [code |-> "OK", graph |-> [g EXCEPT !.type[id] = type]]

\* Wrong variant: the search for a path starts at the wrong end.
DependencyCode_WrongWay(g, id, dependency, skipCycleCheck) ==
    IF dependency \notin Nodes(g) THEN "DEPENDENCY_DOESNT_EXIST"
    ELSE IF dependency = id THEN "SELF_REFERENCE"
    ELSE IF ~skipCycleCheck /\ HasPath(id, dependency, g.dependencies) THEN "DEPENDENCY_LOOP"
    ELSE "OK"

\* The checks setNodeDependencies makes on one entry of the vector, in order.
DependencyCode(g, id, dependency, skipCycleCheck) ==
    IF dependency \notin Nodes(g) THEN "DEPENDENCY_DOESNT_EXIST"
    ELSE IF dependency = id THEN "SELF_REFERENCE"
    ELSE IF ~skipCycleCheck /\ HasPath(dependency, id, g.dependencies) THEN "DEPENDENCY_LOOP"
    ELSE "OK"

\* The code of setNodeDependencies: the first entry that fails a check decides,
\* and the search for duplicates comes after all of them.
DependenciesCode(g, id, newDeps, skipCycleCheck) ==
    LET codeOf(i) == DependencyCode(g, id, newDeps[i], skipCycleCheck)
        bad == {i \in DOMAIN newDeps : codeOf(i) # "OK"}
    IN  IF id \notin Nodes(g) THEN "NODE_NOT_FOUND"
        ELSE IF bad # {} THEN codeOf(CHOOSE i \in bad : \A j \in bad : i <= j)
        ELSE IF ~IsInjective(newDeps) THEN "DUPLICATE_DEPENDENCY"
        ELSE "OK"

\* The update at the end of setNodeDependencies: id enters the dependents of
\* what it newly reads and leaves the dependents of what it no longer reads.
WithDependencies(g, id, deps) ==
    LET current == g.dependencies[id]
    IN  [type |-> g.type,
         dependencies |-> [g.dependencies EXCEPT ![id] = deps],
         dependents |-> [n \in NodeId |->
             IF n \in deps \ current THEN g.dependents[n] \cup {id}
             ELSE IF n \in current \ deps THEN g.dependents[n] \ {id}
             ELSE g.dependents[n]]]

\* setNodeDependencies.
SetNodeDependencies(g, id, newDeps, skipCycleCheck) ==
    LET code == DependenciesCode(g, id, newDeps, skipCycleCheck)
    IN  [code |-> code,
         graph |-> IF code = "OK" THEN WithDependencies(g, id, Range(newDeps)) ELSE g]

\* Wrong variant: what the node read still lists it as a dependent.
WithoutNode_KeepsDependents(g, id) ==
    [type |-> [g.type EXCEPT ![id] = Absent],
     dependencies |-> [n \in NodeId |-> IF n = id THEN {} ELSE g.dependencies[n] \ {id}],
     dependents |-> [g.dependents EXCEPT ![id] = {}]]

\* The edges removeNode erases: id leaves the dependencies of its dependents
\* and the dependents of its dependencies, and loses both entries of its own.
WithoutNode(g, id) ==
    [type |-> [g.type EXCEPT ![id] = Absent],
     dependencies |-> [n \in NodeId |->
         IF n = id THEN {}
         ELSE IF n \in g.dependents[id] THEN g.dependencies[n] \ {id}
         ELSE g.dependencies[n]],
     dependents |-> [n \in NodeId |->
         IF n = id THEN {}
         ELSE IF n \in g.dependencies[id] THEN g.dependents[n] \ {id}
         ELSE g.dependents[n]]]

\* removeNode: a node some formula still reads stays.
RemoveNodeCode(g, id) ==
    IF id \notin Nodes(g) THEN "NODE_NOT_FOUND"
    ELSE IF \E n \in g.dependents[id] : g.type[n] = "Formula" THEN "DEPENDENT_FORMULA_NODE"
    ELSE "OK"

RemoveNode(g, id) ==
    LET code == RemoveNodeCode(g, id)
    IN  [code |-> code, graph |-> IF code = "OK" THEN WithoutNode(g, id) ELSE g]

-----------------------------------------------------------------------------
(***************************************************************************)
(* What makes a graph well formed.                                         *)
(***************************************************************************)

\* The two adjacency maps, kept by separate pieces of code, are each other's
\* inverse: who reads n is exactly who lists n as a dependency.
MirroredEdges(g) ==
    \A m, n \in NodeId : m \in g.dependencies[n] <=> n \in g.dependents[m]

\* An edge starts and ends at a node of the graph: nothing names a removed node.
DependenciesExist(g) ==
    \A n \in NodeId : g.dependencies[n] # {} =>
        n \in Nodes(g) /\ g.dependencies[n] \subseteq Nodes(g)

\* No node reads itself, directly or through other nodes.
Acyclic(g) ==
    \A n \in NodeId : n \notin Reach(g.dependencies, g.dependencies[n])

\* The same, without reachability: the nodes can be put in an order in which
\* each comes after what it reads.
Orderable(edges) ==
    \E rank \in [NodeId -> 1 .. Cardinality(NodeId)] :
        \A n \in NodeId : \A d \in edges[n] : rank[d] < rank[n]

WellFormed(g) == MirroredEdges(g) /\ DependenciesExist(g) /\ Acyclic(g)
=============================================================================
