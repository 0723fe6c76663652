----------------------- MODULE DependencyGraphProofs ------------------------
(***************************************************************************)
(* What the graph operations preserve and what marking reaches, for every  *)
(* set of names.                                                           *)
(*                                                                         *)
(* Reachability is the least closed set, so every argument about paths is  *)
(* an argument about closed sets: to show that a walk does not get         *)
(* somewhere, exhibit a set that holds its start, that no edge leaves, and *)
(* that the place is not in.                                               *)
(***************************************************************************)
EXTENDS Marking, WellFoundedInduction, SequenceTheorems, FiniteSetTheorems, TLAPS

Edges == [NodeId -> SUBSET NodeId]

-----------------------------------------------------------------------------
(***************************************************************************)
(* Reach.                                                                  *)
(***************************************************************************)

\* Reach(edges, roots) holds its roots.
LEMMA ReachHoldsRoots ==
    ASSUME NEW edges, NEW roots \in SUBSET NodeId
    PROVE  roots \subseteq Reach(edges, roots)
BY DEF Reach

\* It lies in every closed set that holds the roots.
LEMMA ReachLeast ==
    ASSUME NEW edges, NEW roots, NEW S \in SUBSET NodeId,
           roots \subseteq S, ClosedUnder(edges, S)
    PROVE  Reach(edges, roots) \subseteq S
BY DEF Reach

\* It is closed itself.
LEMMA ReachClosed ==
    ASSUME NEW edges \in Edges, NEW roots
    PROVE  /\ Reach(edges, roots) \in SUBSET NodeId
           /\ ClosedUnder(edges, Reach(edges, roots))
BY DEF Reach, ClosedUnder, Edges

\* Fewer edges and fewer roots reach less.
LEMMA ReachMonotonic ==
    ASSUME NEW edges \in Edges, NEW fewer \in Edges,
           \A n \in NodeId : fewer[n] \subseteq edges[n],
           NEW roots \in SUBSET NodeId, NEW fewerRoots \in SUBSET roots
    PROVE  Reach(fewer, fewerRoots) \subseteq Reach(edges, roots)
<1>1. Reach(edges, roots) \in SUBSET NodeId /\ ClosedUnder(edges, Reach(edges, roots))
  BY ReachClosed
<1>2. ClosedUnder(fewer, Reach(edges, roots))
  BY <1>1 DEF ClosedUnder
<1>3. fewerRoots \subseteq Reach(edges, roots)
  BY ReachHoldsRoots
<1> QED
  BY <1>1, <1>2, <1>3, ReachLeast

-----------------------------------------------------------------------------
(***************************************************************************)
(* No cycles.                                                              *)
(***************************************************************************)

NoCycle(edges) == \A n \in NodeId : n \notin Reach(edges, edges[n])

\* Giving id new edges makes no cycle when none of their ends had a path to id:
\* the check of setNodeDependencies, made on the old edges, is enough for the
\* new ones.
LEMMA NewEdgesAcyclic ==
    ASSUME NEW edges \in Edges, NoCycle(edges),
           NEW id \in NodeId, NEW deps \in SUBSET NodeId,
           \A d \in deps : ~HasPath(d, id, edges)
    PROVE  NoCycle([edges EXCEPT ![id] = deps])
<1> DEFINE new == [edges EXCEPT ![id] = deps]
           below == UNION {Reach(edges, {d}) : d \in deps}
<1>1. new \in Edges
  BY DEF Edges
<1>2. /\ below \in SUBSET NodeId
      /\ deps \subseteq below
      /\ ClosedUnder(edges, below)
  <2>1. \A d \in deps : /\ d \in Reach(edges, {d})
                        /\ Reach(edges, {d}) \in SUBSET NodeId
                        /\ ClosedUnder(edges, Reach(edges, {d}))
    BY ReachHoldsRoots, ReachClosed
  <2> QED
    BY <2>1 DEF ClosedUnder
<1>3. id \notin below
  BY DEF HasPath
<1>4. ClosedUnder(new, below)
  BY <1>2, <1>3 DEF ClosedUnder, Edges
<1>5. ASSUME NEW n \in NodeId
      PROVE  n \notin Reach(new, new[n])
  <2>1. CASE n = id
    <3>1. Reach(new, deps) \subseteq below
      BY <1>2, <1>4, ReachLeast
    <3> QED
      BY <2>1, <3>1, <1>3 DEF Edges
  <2>2. CASE n # id
    <3> DEFINE old == Reach(edges, edges[n])
    <3>1. edges[n] \in SUBSET NodeId /\ new[n] = edges[n]
      BY <2>2 DEF Edges
    <3>2. /\ old \in SUBSET NodeId
          /\ edges[n] \subseteq old
          /\ ClosedUnder(edges, old)
          /\ n \notin old
      BY <3>1, ReachHoldsRoots, ReachClosed DEF NoCycle
    <3>3. CASE id \notin old
      <4>1. ClosedUnder(new, old)
        BY <3>2, <3>3 DEF ClosedUnder, Edges
      <4> QED
        BY <3>1, <3>2, <4>1, ReachLeast
    <3>4. CASE id \in old
      <4>1. n \notin below
        <5> SUFFICES ASSUME NEW d \in deps, n \in Reach(edges, {d})
                     PROVE  FALSE
          OBVIOUS
        <5>1. /\ Reach(edges, {d}) \in SUBSET NodeId
              /\ ClosedUnder(edges, Reach(edges, {d}))
          BY ReachClosed
        <5>2. edges[n] \subseteq Reach(edges, {d})
          BY <5>1 DEF ClosedUnder
        <5>3. old \subseteq Reach(edges, {d})
          BY <5>1, <5>2, ReachLeast
        <5> QED
          BY <5>3, <3>4 DEF HasPath
      <4>2. ClosedUnder(new, old \cup below)
        BY <1>2, <3>2 DEF ClosedUnder, Edges
      <4>3. Reach(new, new[n]) \subseteq old \cup below
        <5>1. old \cup below \in SUBSET NodeId /\ new[n] \subseteq old \cup below
          BY <1>2, <3>1, <3>2
        <5> HIDE DEF new, old, below
        <5> QED
          BY <5>1, <4>2, ReachLeast
      <4> QED
        BY <4>1, <4>3, <3>2
    <3> QED
      BY <3>3, <3>4
  <2> QED
    BY <2>1, <2>2
<1> QED
  BY <1>5 DEF NoCycle

\* Losing edges makes no cycle.
LEMMA FewerEdgesAcyclic ==
    ASSUME NEW edges \in Edges, NoCycle(edges), NEW fewer \in Edges,
           \A n \in NodeId : fewer[n] \subseteq edges[n]
    PROVE  NoCycle(fewer)
<1> SUFFICES ASSUME NEW n \in NodeId
             PROVE  n \notin Reach(fewer, fewer[n])
  BY DEF NoCycle
<1>1. edges[n] \in SUBSET NodeId /\ fewer[n] \in SUBSET edges[n]
  BY DEF Edges
<1>2. Reach(fewer, fewer[n]) \subseteq Reach(edges, edges[n])
  BY <1>1, ReachMonotonic
<1> QED
  BY <1>2 DEF NoCycle
-----------------------------------------------------------------------------
(***************************************************************************)
(* The operations.                                                         *)
(***************************************************************************)

LEMMA EmptyGraphWellFormed ==
    EmptyGraph \in Graphs /\ WellFormed(EmptyGraph)
<1>1. EmptyGraph \in Graphs
  BY DEF EmptyGraph, Graphs
<1>2. MirroredEdges(EmptyGraph) /\ DependenciesExist(EmptyGraph)
  BY DEF EmptyGraph, MirroredEdges, DependenciesExist
<1>3. Acyclic(EmptyGraph)
  <2> DEFINE none == [n \in NodeId |-> {}]
  <2>1. ASSUME NEW n \in NodeId
        PROVE  n \notin Reach(none, none[n])
    <3>1. ClosedUnder(none, {}) /\ none[n] \subseteq {}
      BY DEF ClosedUnder
    <3>2. Reach(none, none[n]) \subseteq {}
      BY <3>1, ReachLeast
    <3> QED
      BY <3>2
  <2> QED
    BY <2>1 DEF Acyclic, EmptyGraph
<1> QED
  BY <1>1, <1>2, <1>3 DEF WellFormed

\* addNode changes no edge.
LEMMA AddNodePreserves ==
    ASSUME NEW g \in Graphs, WellFormed(g), NEW id \in NodeId, NEW type \in NodeType
    PROVE  LET added == AddNode(g, id, type)
           IN  /\ added.graph \in Graphs
               /\ WellFormed(added.graph)
               /\ added.code # "OK" => added.graph = g
               /\ added.code = "OK" =>
                    /\ id \notin Nodes(g)
                    /\ added.graph.type = [g.type EXCEPT ![id] = type]
                    /\ added.graph.dependencies = g.dependencies
                    /\ added.graph.dependents = g.dependents
<1> DEFINE h == [g EXCEPT !.type[id] = type]
<1>1. /\ h \in Graphs
      /\ h.type = [g.type EXCEPT ![id] = type]
      /\ h.dependencies = g.dependencies
      /\ h.dependents = g.dependents
  BY DEF Graphs
<1>2. type # Absent
  BY DEF NodeType, Absent
<1>3. Nodes(g) \subseteq Nodes(h)
  BY <1>1, <1>2 DEF Nodes, Graphs
<1>4. WellFormed(h)
  BY <1>1, <1>3 DEF WellFormed, MirroredEdges, DependenciesExist, Acyclic
<1> QED
  BY <1>1, <1>4 DEF AddNode

\* What the update of setNodeDependencies leaves in the two maps.
LEMMA WithDependenciesMaps ==
    ASSUME NEW g \in Graphs, NEW id \in NodeId, NEW deps \in SUBSET NodeId
    PROVE  LET h == WithDependencies(g, id, deps)
           IN  /\ h \in Graphs
               /\ h.type = g.type
               /\ h.dependencies = [g.dependencies EXCEPT ![id] = deps]
               /\ \A n \in NodeId : h.dependents[n] =
                     IF n \in deps \ g.dependencies[id] THEN g.dependents[n] \cup {id}
                     ELSE IF n \in g.dependencies[id] \ deps THEN g.dependents[n] \ {id}
                     ELSE g.dependents[n]
BY DEF WithDependencies, Graphs

LEMMA WithDependenciesPreserves ==
    ASSUME NEW g \in Graphs, WellFormed(g),
           NEW id \in Nodes(g), NEW deps \in SUBSET Nodes(g),
           \A d \in deps : ~HasPath(d, id, g.dependencies)
    PROVE  WithDependencies(g, id, deps) \in Graphs /\ WellFormed(WithDependencies(g, id, deps))
<1> DEFINE h == WithDependencies(g, id, deps)
<1>1. id \in NodeId /\ deps \in SUBSET NodeId
  BY DEF Nodes
<1>2. /\ h \in Graphs
      /\ h.type = g.type
      /\ h.dependencies = [g.dependencies EXCEPT ![id] = deps]
      /\ \A n \in NodeId : h.dependents[n] =
            IF n \in deps \ g.dependencies[id] THEN g.dependents[n] \cup {id}
            ELSE IF n \in g.dependencies[id] \ deps THEN g.dependents[n] \ {id}
            ELSE g.dependents[n]
  BY <1>1, WithDependenciesMaps
<1> HIDE DEF h
<1>3. MirroredEdges(h)
  <2> SUFFICES ASSUME NEW m \in NodeId, NEW n \in NodeId
               PROVE  m \in h.dependencies[n] <=> n \in h.dependents[m]
    BY DEF MirroredEdges
  <2>1. m \in g.dependencies[n] <=> n \in g.dependents[m]
    BY DEF WellFormed, MirroredEdges
  <2>2. h.dependents[m] =
            IF m \in deps \ g.dependencies[id] THEN g.dependents[m] \cup {id}
            ELSE IF m \in g.dependencies[id] \ deps THEN g.dependents[m] \ {id}
            ELSE g.dependents[m]
    BY <1>2
  <2>3. CASE n = id
    <3>1. h.dependencies[n] = deps
      BY <1>1, <1>2, <2>3 DEF Graphs
    <3> QED
      BY <2>1, <2>2, <2>3, <3>1
  <2>4. CASE n # id
    <3>1. h.dependencies[n] = g.dependencies[n]
      BY <1>1, <1>2, <2>4 DEF Graphs
    <3> QED
      BY <2>1, <2>2, <2>4, <3>1
  <2> QED
    BY <2>3, <2>4
<1>4. DependenciesExist(h)
  <2>1. Nodes(h) = Nodes(g)
    BY <1>2 DEF Nodes
  <2> QED
    BY <1>1, <1>2, <2>1 DEF WellFormed, DependenciesExist, Graphs
<1>5. Acyclic(h)
  <2>1. g.dependencies \in Edges /\ NoCycle(g.dependencies)
    BY DEF Graphs, Edges, WellFormed, Acyclic, NoCycle
  <2>2. NoCycle([g.dependencies EXCEPT ![id] = deps])
    BY <1>1, <2>1, NewEdgesAcyclic
  <2> QED
    BY <1>2, <2>2 DEF Acyclic, NoCycle
<1> QED
  BY <1>2, <1>3, <1>4, <1>5 DEF WellFormed, h

\* Every set of natural numbers that is not empty has a least element.
LEMMA LeastNatural ==
    ASSUME NEW S \in SUBSET Nat, S # {}
    PROVE  \E i \in S : \A j \in S : i <= j
<1> DEFINE lt == {p \in Nat \X Nat : p[1] < p[2]}
<1>1. lt = OpToRel(<, Nat)
  BY Zenon DEF OpToRel
<1>2. IsWellFoundedOn(lt, Nat)
  BY <1>1, NatLessThanWellFounded, Zenon
<1>3. \E i \in S : \A j \in S : ~ (<<j, i>> \in lt)
  <2> HIDE DEF lt
  <2> QED
    BY <1>2, WFMin
<1>4. \A i, j \in Nat : ~ (<<j, i>> \in lt) => i <= j
  OBVIOUS
<1> HIDE DEF lt
<1> QED
  BY <1>3, <1>4

\* When setNodeDependencies reports no error, every check it makes passed.
LEMMA AcceptedDependencies ==
    ASSUME NEW g, NEW id, NEW newDeps \in Seq(NodeId), NEW skip \in BOOLEAN,
           DependenciesCode(g, id, newDeps, skip) = "OK"
    PROVE  /\ id \in Nodes(g)
           /\ \A d \in Range(newDeps) : DependencyCode(g, id, d, skip) = "OK"
<1> DEFINE codeOf(i) == DependencyCode(g, id, newDeps[i], skip)
           bad == {i \in DOMAIN newDeps : codeOf(i) # "OK"}
<1>1. DOMAIN newDeps \subseteq Nat
  OBVIOUS
<1>2. id \in Nodes(g)
  BY DEF DependenciesCode
<1>3. bad = {}
  <2> SUFFICES ASSUME bad # {} PROVE FALSE
    OBVIOUS
  <2> DEFINE first == CHOOSE i \in bad : \A j \in bad : i <= j
  <2>1. first \in bad
    <3>1. bad \in SUBSET Nat
      BY <1>1
    <3>2. \E i \in bad : \A j \in bad : i <= j
      <4> HIDE DEF bad
      <4> QED
        BY <3>1, LeastNatural
    <3> HIDE DEF bad
    <3> QED
      BY <3>2
  <2>2. DependenciesCode(g, id, newDeps, skip) = codeOf(first)
    BY <1>2 DEF DependenciesCode
  <2> QED
    BY <2>1, <2>2
<1> QED
  BY <1>2, <1>3 DEF Range

\* setNodeDependencies keeps a well-formed graph well formed, and with an error
\* changes nothing.  Without the cycle check that takes a node nobody reads, as
\* a node that was just added is.
LEMMA SetNodeDependenciesPreserves ==
    ASSUME NEW g \in Graphs, WellFormed(g), NEW id \in NodeId,
           NEW newDeps \in Seq(NodeId), NEW skip \in BOOLEAN,
           skip => g.dependents[id] = {}
    PROVE  LET linked == SetNodeDependencies(g, id, newDeps, skip)
           IN  /\ linked.graph \in Graphs
               /\ WellFormed(linked.graph)
               /\ linked.graph.type = g.type
               /\ linked.code # "OK" => linked.graph = g
               /\ linked.code = "OK" =>
                    /\ linked.graph = WithDependencies(g, id, Range(newDeps))
                    /\ linked.graph.dependencies =
                          [g.dependencies EXCEPT ![id] = Range(newDeps)]
                    /\ Range(newDeps) \subseteq Nodes(g)
<1> DEFINE code == DependenciesCode(g, id, newDeps, skip)
           deps == Range(newDeps)
<1>1. CASE code # "OK"
  BY <1>1 DEF SetNodeDependencies
<1>2. CASE code = "OK"
  <2>1. /\ id \in Nodes(g)
        /\ \A d \in deps : DependencyCode(g, id, d, skip) = "OK"
    BY <1>2, AcceptedDependencies
  <2>2. deps \in SUBSET Nodes(g) /\ deps \in SUBSET NodeId
    BY <2>1 DEF DependencyCode, Nodes
  <2>3. ASSUME NEW d \in deps
        PROVE  ~HasPath(d, id, g.dependencies)
    <3>1. CASE ~skip
      BY <2>1, <3>1 DEF DependencyCode
    <3>2. CASE skip
      <4>1. d # id /\ d \in NodeId
        BY <2>1, <2>2 DEF DependencyCode
      <4>2. ClosedUnder(g.dependencies, NodeId \ {id})
        BY <3>2 DEF ClosedUnder, WellFormed, MirroredEdges, Graphs
      <4>3. Reach(g.dependencies, {d}) \subseteq NodeId \ {id}
        BY <4>1, <4>2, ReachLeast
      <4> QED
        BY <4>3 DEF HasPath
    <3> QED
      BY <3>1, <3>2
  <2>4. WithDependencies(g, id, deps) \in Graphs /\ WellFormed(WithDependencies(g, id, deps))
    BY <2>1, <2>2, <2>3, WithDependenciesPreserves
  <2>5. /\ WithDependencies(g, id, deps).type = g.type
        /\ WithDependencies(g, id, deps).dependencies = [g.dependencies EXCEPT ![id] = deps]
    BY <2>2, WithDependenciesMaps
  <2> QED
    BY <1>2, <2>2, <2>4, <2>5 DEF SetNodeDependencies
<1> QED
  BY <1>1, <1>2

\* setNodeDependencies for a node nobody reads needs no cycle check.
LEMMA LinkNewNode ==
    ASSUME NEW g \in Graphs, WellFormed(g), NEW id \in NodeId, g.dependents[id] = {},
           NEW deps \in Seq(NodeId)
    PROVE  LET linked == SetNodeDependencies(g, id, deps, TRUE)
           IN  /\ linked.graph \in Graphs
               /\ WellFormed(linked.graph)
               /\ linked.graph.type = g.type
               /\ linked.code # "OK" => linked.graph = g
               /\ linked.code = "OK" => linked.graph.dependencies =
                                          [g.dependencies EXCEPT ![id] = Range(deps)]
<1> DEFINE Linked(r) == /\ r.graph \in Graphs
                        /\ WellFormed(r.graph)
                        /\ r.graph.type = g.type
                        /\ r.code # "OK" => r.graph = g
                        /\ r.code = "OK" => r.graph.dependencies =
                                             [g.dependencies EXCEPT ![id] = Range(deps)]
<1>1. \A skip \in BOOLEAN : Linked(SetNodeDependencies(g, id, deps, skip))
  BY SetNodeDependenciesPreserves
<1> HIDE DEF Linked
<1>2. Linked(SetNodeDependencies(g, id, deps, TRUE))
  BY <1>1, Zenon
<1> QED
  BY <1>2 DEF Linked

\* The two maps once removeNode has erased a node.
LEMMA WithoutNodeMaps ==
    ASSUME NEW g \in Graphs, WellFormed(g), NEW id \in NodeId
    PROVE  LET h == WithoutNode(g, id)
           IN  /\ h \in Graphs
               /\ h.type = [g.type EXCEPT ![id] = Absent]
               /\ \A n \in NodeId :
                     /\ h.dependencies[n] = IF n = id THEN {} ELSE g.dependencies[n] \ {id}
                     /\ h.dependents[n] = IF n = id THEN {} ELSE g.dependents[n] \ {id}
<1>1. \A n \in NodeId : /\ n \notin g.dependents[id] => id \notin g.dependencies[n]
                        /\ n \notin g.dependencies[id] => id \notin g.dependents[n]
  BY DEF WellFormed, MirroredEdges
<1> DEFINE h == WithoutNode(g, id)
<1>2. h.type = [g.type EXCEPT ![id] = Absent]
  BY DEF WithoutNode
<1>3. ASSUME NEW n \in NodeId
      PROVE  /\ h.dependencies[n] = IF n = id THEN {} ELSE g.dependencies[n] \ {id}
             /\ h.dependents[n] = IF n = id THEN {} ELSE g.dependents[n] \ {id}
  <2>1. h.dependencies[n] = IF n = id THEN {}
                            ELSE IF n \in g.dependents[id] THEN g.dependencies[n] \ {id}
                            ELSE g.dependencies[n]
    BY DEF WithoutNode
  <2>2. h.dependents[n] = IF n = id THEN {}
                          ELSE IF n \in g.dependencies[id] THEN g.dependents[n] \ {id}
                          ELSE g.dependents[n]
    BY DEF WithoutNode
  <2> QED
    BY <1>1, <2>1, <2>2
<1>4. h \in Graphs
  BY DEF WithoutNode, Graphs
<1> QED
  BY <1>2, <1>3, <1>4

\* removeNode keeps a well-formed graph well formed, and with an error changes
\* nothing.
LEMMA RemoveNodePreserves ==
    ASSUME NEW g \in Graphs, WellFormed(g), NEW id \in NodeId
    PROVE  LET removed == RemoveNode(g, id)
           IN  /\ removed.graph \in Graphs
               /\ WellFormed(removed.graph)
               /\ removed.code # "OK" => removed.graph = g
               /\ removed.code = "OK" =>
                    /\ removed.graph = WithoutNode(g, id)
                    /\ id \in Nodes(g)
                    /\ \A n \in g.dependents[id] : g.type[n] # "Formula"
<1> DEFINE h == WithoutNode(g, id)
<1>1. /\ h \in Graphs
      /\ h.type = [g.type EXCEPT ![id] = Absent]
      /\ \A n \in NodeId :
            /\ h.dependencies[n] = IF n = id THEN {} ELSE g.dependencies[n] \ {id}
            /\ h.dependents[n] = IF n = id THEN {} ELSE g.dependents[n] \ {id}
  BY WithoutNodeMaps
<1> HIDE DEF h
<1>2. MirroredEdges(h)
  <2> SUFFICES ASSUME NEW m \in NodeId, NEW n \in NodeId
               PROVE  m \in h.dependencies[n] <=> n \in h.dependents[m]
    BY DEF MirroredEdges
  <2>1. m \in g.dependencies[n] <=> n \in g.dependents[m]
    BY DEF WellFormed, MirroredEdges
  <2> QED
    BY <1>1, <2>1
<1>3. DependenciesExist(h)
  <2>1. Nodes(h) = Nodes(g) \ {id}
    BY <1>1 DEF Nodes, Graphs
  <2> QED
    BY <1>1, <2>1 DEF WellFormed, DependenciesExist
<1>4. Acyclic(h)
  <2>1. /\ g.dependencies \in Edges /\ NoCycle(g.dependencies)
        /\ h.dependencies \in Edges
    BY <1>1 DEF Graphs, Edges, WellFormed, Acyclic, NoCycle
  <2>2. \A n \in NodeId : h.dependencies[n] \subseteq g.dependencies[n]
    BY <1>1
  <2> QED
    BY <2>1, <2>2, FewerEdgesAcyclic DEF Acyclic, NoCycle
<1>5. WellFormed(h)
  BY <1>2, <1>3, <1>4 DEF WellFormed
<1> QED
  BY <1>1, <1>5 DEF RemoveNode, RemoveNodeCode, h
-----------------------------------------------------------------------------
(***************************************************************************)
(* Sequences of names.                                                     *)
(***************************************************************************)

\* An order of a set of names is a sequence of names.
LEMMA OrdersType ==
    ASSUME NEW T \in SUBSET NodeId
    PROVE  Orders(T) \subseteq Seq(NodeId)
<1>1. Cardinality(T) \in Nat
  BY FiniteNodeIds, FS_Subset, FS_CardinalityType
<1>2. \A f \in [1 .. Cardinality(T) -> T] : f \in Seq(NodeId)
  BY <1>1
<1> QED
  BY <1>2 DEF Orders, SetToSeqs

\* An order of a set of names lists exactly that set.
LEMMA OrdersRange ==
    ASSUME NEW T \in SUBSET NodeId, NEW order \in Orders(T)
    PROVE  order \in Seq(NodeId) /\ Range(order) = T
<1> DEFINE n == Cardinality(T)
<1>1. IsFiniteSet(T) /\ n \in Nat
  BY FiniteNodeIds, FS_Subset, FS_CardinalityType
<1>2. order \in [1 .. n -> T] /\ \A i, j \in 1 .. n : i # j => order[i] # order[j]
  BY DEF Orders, SetToSeqs
<1>3. order \in Injection(1 .. n, T)
  BY <1>2 DEF Injection, IsInjective
<1> HIDE DEF n
<1>4. Cardinality(1 .. n) = n
  BY <1>1, FS_Interval
<1>5. order \in Surjection(1 .. n, T)
  BY <1>1, <1>3, <1>4, FS_Injection DEF n
<1>6. Range(order) = T
  BY <1>2, <1>5 DEF Surjection, Range
<1> QED
  BY <1>6, OrdersType

\* All but the last element.
LEMMA FrontType ==
    ASSUME NEW S, NEW s \in Seq(S), s # << >>
    PROVE  Front(s) \in Seq(S) /\ Last(s) \in S /\ Len(Front(s)) = Len(s) - 1
<1>1. Len(s) \in Nat /\ Len(s) > 0
  BY EmptySeq
<1>2. \A i \in 1 .. Len(s) - 1 : s[i] \in S
  BY <1>1
<1>3. Front(s) \in Seq(S) /\ Len(Front(s)) = Len(s) - 1
  <2> DEFINE n == Len(s) - 1
  <2>1. n \in Int /\ 1 \in Int /\ \A i \in 1 .. n : s[i] \in S
    BY <1>1, <1>2
  <2>2. n \in Nat
    BY <1>1
  <2> HIDE DEF n
  <2>3. /\ SubSeq(s, 1, n) \in Seq(S)
        /\ Len(SubSeq(s, 1, n)) = IF 1 <= n THEN n - 1 + 1 ELSE 0
    BY <2>1, SubSeqProperties
  <2>4. \A k \in Nat : (IF 1 <= k THEN k - 1 + 1 ELSE 0) = k
    OBVIOUS
  <2>5. SubSeq(s, 1, n) \in Seq(S) /\ Len(SubSeq(s, 1, n)) = n
    BY <2>2, <2>3, <2>4
  <2> QED
    BY <2>5, Zenon DEF n, Front
<1>4. Last(s) \in S
  BY <1>1 DEF Last
<1> QED
  BY <1>3, <1>4

\* The elements of a sequence but its last.
LEMMA FrontElements ==
    ASSUME NEW S, NEW s \in Seq(S), s # << >>
    PROVE  /\ Len(s) \in Nat /\ Len(s) > 0
           /\ Last(s) = s[Len(s)]
           /\ Len(Front(s)) = Len(s) - 1
           /\ \A i \in 1 .. Len(s) - 1 : Front(s)[i] = s[i]
<1>1. Len(s) \in Nat /\ Len(s) > 0
  BY EmptySeq
<1>2. Len(Front(s)) = Len(s) - 1
  BY FrontType
<1>3. \A i \in 1 .. Len(s) - 1 : Front(s)[i] = s[i]
  BY <1>1 DEF Front
<1> QED
  BY <1>1, <1>2, <1>3 DEF Last

\* Where the elements of two sequences are when they are joined.
LEMMA ConcatElements ==
    ASSUME NEW S, NEW s \in Seq(S), NEW r \in Seq(S)
    PROVE  /\ Len(s \o r) = Len(s) + Len(r)
           /\ \A i \in 1 .. Len(s) : (s \o r)[i] = s[i]
           /\ \A i \in 1 .. Len(r) : (s \o r)[Len(s) + i] = r[i]
BY ConcatProperties

-----------------------------------------------------------------------------
(***************************************************************************)
(* Marking.                                                                *)
(***************************************************************************)

\* markDirty marks nodes of the graph that are computed, and nothing else.
LEMMA MarkedAreComputed ==
    ASSUME NEW g \in Graphs, WellFormed(g), NEW D \in SUBSET NodeId,
           NEW roots \in SUBSET Nodes(g)
    PROVE  \A n \in Marked(g, D, roots) : g.type[n] \in {"Formula", "Collection"}
<1> DEFINE onward == [n \in NodeId |-> IF n \in D THEN {} ELSE g.dependents[n]]
<1>1. ClosedUnder(onward, Nodes(g))
  BY DEF ClosedUnder, WellFormed, MirroredEdges, DependenciesExist, Graphs, Nodes
<1>2. Nodes(g) \in SUBSET NodeId
  BY DEF Nodes
<1>3. Reach(onward, roots) \subseteq Nodes(g)
  BY <1>1, <1>2, ReachLeast
<1>4. \A n \in Marked(g, D, roots) : n \in Reach(onward, roots) /\ g.type[n] # "Value"
  BY DEF Marked
<1> QED
  BY <1>3, <1>4 DEF Nodes, Graphs, NodeType

\* It marks nothing outside a set that holds its roots and what reads them.
LEMMA MarkedStaysIn ==
    ASSUME NEW g, NEW D, NEW roots, NEW S \in SUBSET NodeId,
           roots \subseteq S, \A n \in S : g.dependents[n] \subseteq S
    PROVE  Marked(g, D, roots) \subseteq S
<1> DEFINE onward == [n \in NodeId |-> IF n \in D THEN {} ELSE g.dependents[n]]
<1>1. ClosedUnder(onward, S)
  BY DEF ClosedUnder
<1>2. Reach(onward, roots) \subseteq S
  BY <1>1, ReachLeast
<1> QED
  BY <1>2 DEF Marked

\* Who reads a dirty node is dirty.
Propagated(g, D) == \A m, n \in NodeId : n \in g.dependencies[m] /\ n \in D => m \in D

\* Only nodes that read something are ever marked for reading something.
ValuesReadNothing(g) == \A n \in NodeId : g.type[n] = "Value" => g.dependencies[n] = {}

\* Who reads a node of D is in D, or among the roots.
PropagatedBut(g, D, roots) ==
    \A m, n \in NodeId : n \in g.dependencies[m] /\ n \in D => m \in D \/ m \in roots

\* What is dirty once markDirty has been called for each of the roots.
WithMarked(g, D, roots) == D \cup Marked(g, D, roots)

\* markDirty stops at dirty nodes, and yet, when at most its roots read a dirty
\* node without being dirty, all that reads a dirty node is dirty in the end;
\* the roots are dirty, unless they are numbers, and so is who reads a root.
LEMMA MarkingPropagates ==
    ASSUME NEW g \in Graphs, MirroredEdges(g), ValuesReadNothing(g),
           NEW D \in SUBSET NodeId, NEW roots \in SUBSET NodeId, PropagatedBut(g, D, roots)
    PROVE  /\ Propagated(g, WithMarked(g, D, roots))
           /\ \A n \in roots : n \in WithMarked(g, D, roots) \/ g.type[n] = "Value"
           /\ \A m, n \in NodeId :
                 n \in g.dependencies[m] /\ n \in roots => m \in WithMarked(g, D, roots)
<1> DEFINE E == WithMarked(g, D, roots)
<1> DEFINE onward == [n \in NodeId |-> IF n \in D THEN {} ELSE g.dependents[n]]
           R == Reach(onward, roots)
<1>1. onward \in Edges
  BY DEF Graphs, Edges
<1>2. R \in SUBSET NodeId /\ ClosedUnder(onward, R) /\ roots \subseteq R
  BY <1>1, ReachClosed, ReachHoldsRoots
<1>3. E = D \cup {n \in R : n \notin D /\ g.type[n] # "Value"}
  BY DEF Marked, WithMarked
<1>4. \A n \in NodeId : n \notin D => onward[n] = g.dependents[n]
  OBVIOUS
<1> HIDE DEF R, onward, E
<1>5. ASSUME NEW m \in NodeId, NEW n \in NodeId, n \in g.dependencies[m]
      PROVE  g.type[m] # "Value" /\ m \in g.dependents[n]
  BY <1>5 DEF ValuesReadNothing, MirroredEdges
<1>6. \A m, n \in NodeId : n \in g.dependencies[m] /\ n \in R /\ n \notin D => m \in E
  BY <1>2, <1>3, <1>4, <1>5 DEF ClosedUnder
<1>7. \A m, n \in NodeId : n \in g.dependencies[m] /\ n \in D => m \in E
  BY <1>2, <1>3, <1>5 DEF PropagatedBut
<1>8. Propagated(g, E)
  BY <1>3, <1>6, <1>7 DEF Propagated
<1>9. \A n \in roots : n \in E \/ g.type[n] = "Value"
  BY <1>2, <1>3
<1>10. \A m, n \in NodeId : n \in g.dependencies[m] /\ n \in roots => m \in E
  BY <1>2, <1>6, <1>7
<1> QED
  BY <1>8, <1>9, <1>10 DEF E
=============================================================================
