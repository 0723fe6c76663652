--------------------------- MODULE WorkListsProofs ---------------------------
(***************************************************************************)
(* The two loops of WorkLists do what the kernel model takes as done, for  *)
(* every set of names, every settled graph and every order of the vectors. *)
(*                                                                         *)
(* Both arguments are about the boundary of what a loop has handled: no    *)
(* edge leaves it, except to names that are still on the stack.  When the  *)
(* stack is empty it is closed, and so holds all that can be reached.      *)
(***************************************************************************)
EXTENDS WorkLists, DependencyGraphProofs

\* The edges markDirty goes along.
Onward(g, D) == [n \in NodeId |-> IF n \in D THEN {} ELSE g.dependents[n]]

\* What is known of the graph and of the dirty nodes between calls (without
\* roots), and of those markDirty has started with.
Base(g, D, R) == g \in Graphs /\ D \in SUBSET NodeId /\ SettledBut(g, D, R)

\* Names the loop will still come to.
Pending == Range(work) \cup Range(todo)

\* markDirty has marked nothing that it should not, what it has marked has its
\* dependents marked or pending, and so has a root that is a value.
MarkSound ==
    LET D == before.dirty R == before.roots
    IN  /\ Base(graph, D, R)
        /\ R \in SUBSET Nodes(graph)
        /\ D \subseteq dirty /\ dirty \subseteq D \cup Marked(graph, D, R)
        /\ Pending \subseteq Reach(Onward(graph, D), R)
        /\ \A n \in dirty \ D : graph.dependents[n] \subseteq dirty \cup Range(work)
        /\ \A r \in R : \/ r \in Pending \/ r \in dirty
                        \/ /\ graph.type[r] = "Value"
                           /\ graph.dependents[r] \subseteq dirty \cup Range(work)
        /\ IsInjective(listed)
        /\ Range(listed) = {n \in dirty \ D : graph.dependents[n] = {}}

\* hasPath has visited nothing that it should not, and what it has visited has
\* its dependencies visited or pending.
SearchSound ==
    LET E == graph.dependencies
    IN  /\ Base(graph, dirty, {})
        /\ edge \in Nodes(graph) \X Nodes(graph)
        /\ visited \cup Range(searched) \subseteq Reach(E, {edge[1]})
        /\ edge[1] \in visited \cup Range(searched)
        /\ edge[2] \notin visited
        /\ \A n \in visited : E[n] \subseteq visited \cup Range(searched)

Types ==
    /\ graph \in Graphs
    /\ dirty \in SUBSET NodeId
    /\ call \in {"none", "markDirty", "hasPath"}
    /\ todo \in Seq(NodeId) /\ work \in Seq(NodeId) /\ listed \in Seq(NodeId)
    /\ before \in [dirty: SUBSET NodeId, roots: SUBSET NodeId]
    /\ searched \in Seq(NodeId)
    /\ visited \in SUBSET NodeId

\* The inductive invariant.
WInv ==
    /\ Types
    /\ call = "markDirty" => MarkSound
    /\ call = "hasPath" => SearchSound
    /\ call # "markDirty" => Settled(graph, dirty) /\ work = << >> /\ todo = << >>

-----------------------------------------------------------------------------
(***************************************************************************)
(* What is on a stack.                                                     *)
(***************************************************************************)

\* A stack holds its top and what is below it.
LEMMA FrontRange ==
    ASSUME NEW s \in Seq(NodeId), s # << >>
    PROVE  /\ Front(s) \in Seq(NodeId) /\ Last(s) \in NodeId
           /\ Range(s) = Range(Front(s)) \cup {Last(s)}
<1>1. /\ Len(s) \in Nat /\ Len(s) > 0 /\ Last(s) = s[Len(s)]
      /\ Len(Front(s)) = Len(s) - 1
      /\ \A i \in 1 .. Len(s) - 1 : Front(s)[i] = s[i]
  BY FrontElements
<1>2. Front(s) \in Seq(NodeId) /\ Last(s) \in NodeId
  BY FrontType
<1>3. DOMAIN s = 1 .. Len(s) /\ DOMAIN Front(s) = 1 .. Len(s) - 1
  BY <1>1, <1>2
<1>4. \A i \in 1 .. Len(s) : i = Len(s) \/ i \in 1 .. Len(s) - 1
  BY <1>1
<1>5. Range(s) \subseteq Range(Front(s)) \cup {Last(s)}
  BY <1>1, <1>3, <1>4 DEF Range
<1>6. Range(Front(s)) \cup {Last(s)} \subseteq Range(s)
  <2>1. \A i \in 1 .. Len(s) - 1 : i \in 1 .. Len(s)
    BY <1>1
  <2>2. Len(s) \in 1 .. Len(s)
    BY <1>1
  <2> QED
    BY <1>1, <1>3, <2>1, <2>2 DEF Range
<1> QED
  BY <1>2, <1>5, <1>6

\* Two stacks on top of each other hold what each of them holds.
LEMMA ConcatRange ==
    ASSUME NEW s \in Seq(NodeId), NEW r \in Seq(NodeId)
    PROVE  s \o r \in Seq(NodeId) /\ Range(s \o r) = Range(s) \cup Range(r)
<1>1. /\ Len(s \o r) = Len(s) + Len(r)
      /\ \A i \in 1 .. Len(s) : (s \o r)[i] = s[i]
      /\ \A i \in 1 .. Len(r) : (s \o r)[Len(s) + i] = r[i]
  BY ConcatElements
<1>2. s \o r \in Seq(NodeId) /\ Len(s) \in Nat /\ Len(r) \in Nat
  OBVIOUS
<1>3. /\ DOMAIN s = 1 .. Len(s) /\ DOMAIN r = 1 .. Len(r)
      /\ DOMAIN (s \o r) = 1 .. Len(s) + Len(r)
  BY <1>1, <1>2
<1> DEFINE t == s \o r
<1>4. ASSUME NEW x \in Range(t) PROVE x \in Range(s) \cup Range(r)
  <2>1. PICK i \in 1 .. Len(s) + Len(r) : x = t[i]
    BY <1>3, <1>4 DEF Range
  <2>2. CASE i <= Len(s)
    BY <1>1, <1>2, <1>3, <2>1, <2>2 DEF Range
  <2>3. CASE i > Len(s)
    <3>1. i - Len(s) \in 1 .. Len(r) /\ Len(s) + (i - Len(s)) = i
      BY <1>2, <2>3
    <3> QED
      BY <1>1, <1>3, <2>1, <3>1 DEF Range
  <2> QED
    BY <1>2, <2>2, <2>3
<1>5. ASSUME NEW x \in Range(s) PROVE x \in Range(t)
  <2>1. PICK i \in 1 .. Len(s) : x = s[i]
    BY <1>3, <1>5 DEF Range
  <2>2. i \in 1 .. Len(s) + Len(r)
    BY <1>2
  <2> QED
    BY <1>1, <1>3, <2>1, <2>2 DEF Range
<1>6. ASSUME NEW x \in Range(r) PROVE x \in Range(t)
  <2>1. PICK i \in 1 .. Len(r) : x = r[i]
    BY <1>3, <1>6 DEF Range
  <2>2. Len(s) + i \in 1 .. Len(s) + Len(r)
    BY <1>2
  <2> QED
    BY <1>1, <1>3, <2>1, <2>2 DEF Range
<1> QED
  BY <1>2, <1>4, <1>5, <1>6

\* A list holds its first name and the others.
LEMMA HeadRange ==
    ASSUME NEW s \in Seq(NodeId), s # << >>
    PROVE  /\ Tail(s) \in Seq(NodeId) /\ Head(s) \in NodeId
           /\ Range(s) = Range(Tail(s)) \cup {Head(s)}
<1>1. /\ Tail(s) \in Seq(NodeId) /\ Head(s) \in NodeId
      /\ <<Head(s)>> \in Seq(NodeId) /\ s = <<Head(s)>> \o Tail(s)
  OBVIOUS
<1>2. Range(s) = Range(<<Head(s)>>) \cup Range(Tail(s))
  BY <1>1, ConcatRange
<1>3. Range(<<Head(s)>>) = {Head(s)}
  BY DEF Range
<1> QED
  BY <1>1, <1>2, <1>3

LEMMA NothingOnEmpty == Range(<< >>) = {}
BY DEF Range

\* A list without repetitions stays one when a new name is added.
LEMMA AppendNew ==
    ASSUME NEW s \in Seq(NodeId), NEW x \in NodeId, IsInjective(s), x \notin Range(s)
    PROVE  /\ Append(s, x) \in Seq(NodeId) /\ IsInjective(Append(s, x))
           /\ Range(Append(s, x)) = Range(s) \cup {x}
<1> DEFINE t == Append(s, x)
<1>1. /\ t \in Seq(NodeId) /\ Len(s) \in Nat /\ Len(t) = Len(s) + 1
      /\ DOMAIN s = 1 .. Len(s) /\ DOMAIN t = 1 .. Len(s) + 1
      /\ t[Len(s) + 1] = x
      /\ \A i \in 1 .. Len(s) : t[i] = s[i]
  OBVIOUS
<1>2. \A i \in 1 .. Len(s) + 1 : i = Len(s) + 1 \/ i \in 1 .. Len(s)
  BY <1>1
<1>3. \A i \in 1 .. Len(s) : s[i] # x
  BY <1>1 DEF Range
<1>4. \A i, j \in 1 .. Len(s) : s[i] = s[j] => i = j
  BY <1>1 DEF IsInjective
<1> HIDE DEF t
<1>5. IsInjective(t)
  BY <1>1, <1>2, <1>3, <1>4 DEF IsInjective
<1>6. Range(t) \subseteq Range(s) \cup {x}
  BY <1>1, <1>2 DEF Range
<1>7. Range(s) \cup {x} \subseteq Range(t)
  <2>1. Len(s) + 1 \in 1 .. Len(s) + 1 /\ \A i \in 1 .. Len(s) : i \in 1 .. Len(s) + 1
    BY <1>1
  <2> QED
    BY <1>1, <2>1 DEF Range
<1> QED
  BY <1>1, <1>5, <1>6, <1>7 DEF t

-----------------------------------------------------------------------------
(***************************************************************************)
(* Settled graphs.                                                         *)
(***************************************************************************)

\* A dependent of a node is in the graph, and is no value.
LEMMA DependentsAreComputed ==
    ASSUME NEW g \in Graphs, NEW D \in SUBSET NodeId, NEW R \in SUBSET NodeId, SettledBut(g, D, R)
    PROVE  /\ g.dependents \in Edges /\ g.dependencies \in Edges
           /\ \A m, n \in NodeId : n \in g.dependents[m] =>
                 n \in Nodes(g) /\ m \in Nodes(g) /\ g.type[n] # "Value" /\ m # n
<1>1. /\ g.dependents \in Edges /\ g.dependencies \in Edges /\ g.type \in [NodeId -> NodeType \cup {Absent}]
      /\ MirroredEdges(g) /\ DependenciesExist(g) /\ Acyclic(g)
      /\ \A n \in NodeId : g.type[n] \in {"Value", Absent} => g.dependencies[n] = {}
  BY DEF Graphs, Edges, SettledBut, WellFormed
<1>2. \A n \in NodeId : n \notin g.dependencies[n]
  BY <1>1, ReachHoldsRoots DEF Acyclic, Edges
<1> QED
  BY <1>1, <1>2 DEF MirroredEdges, DependenciesExist, Nodes

\* Marking what has changed settles a graph again, and marks only nodes that
\* are there.
LEMMA MarkedSettles ==
    ASSUME NEW g \in Graphs, NEW D \in SUBSET NodeId, NEW R \in SUBSET Nodes(g), SettledBut(g, D, R)
    PROVE  Settled(g, D \cup Marked(g, D, R)) /\ Marked(g, D, R) \in SUBSET NodeId
<1> DEFINE M == Marked(g, D, R)
<1>1. R \in SUBSET NodeId /\ WellFormed(g) /\ MirroredEdges(g)
  BY DEF SettledBut, WellFormed, Nodes
<1>2. ValuesReadNothing(g) /\ PropagatedBut(g, D, R)
  BY <1>1 DEF SettledBut, ValuesReadNothing, PropagatedBut, MirroredEdges
<1>3. \A n \in M : n \in NodeId /\ g.type[n] \in {"Formula", "Collection"}
  <2>1. M \in SUBSET NodeId
    BY DEF Marked, Reach
  <2> QED
    BY <1>1, <2>1, MarkedAreComputed
<1>4. Propagated(g, D \cup M)
  BY <1>1, <1>2, MarkingPropagates DEF WithMarked
<1> HIDE DEF M
<1>5. \A n \in D \cup M : g.dependents[n] \subseteq D \cup M
  BY <1>1, <1>3, <1>4 DEF Propagated, MirroredEdges, Graphs
<1>6. \A n \in NodeId : g.type[n] \in {"Value", Absent} =>
          g.dependencies[n] = {} /\ n \notin D \cup M
  BY <1>3 DEF SettledBut, Absent
<1> QED
  BY <1>1, <1>3, <1>5, <1>6 DEF Settled, SettledBut, M

\* A removal leaves a settled graph, in which the former dependents still are.
LEMMA RemovalSettles ==
    ASSUME NEW g \in Graphs, NEW D \in SUBSET NodeId, Settled(g, D),
           NEW id \in NodeId, RemoveNodeCode(g, id) = "OK"
    PROVE  /\ WithoutNode(g, id) \in Graphs
           /\ Settled(WithoutNode(g, id), D \ {id})
           /\ g.dependents[id] \in SUBSET Nodes(WithoutNode(g, id))
<1> DEFINE h == WithoutNode(g, id)
<1>1. WellFormed(g) /\ SettledBut(g, D, {})
  BY DEF Settled, SettledBut
<1>2. h \in Graphs /\ WellFormed(h)
  BY <1>1, RemoveNodePreserves DEF RemoveNode
<1>3. /\ h.type = [g.type EXCEPT ![id] = Absent]
      /\ \A n \in NodeId :
            /\ h.dependencies[n] = IF n = id THEN {} ELSE g.dependencies[n] \ {id}
            /\ h.dependents[n] = IF n = id THEN {} ELSE g.dependents[n] \ {id}
  BY <1>1, WithoutNodeMaps DEF WellFormed
<1>4. g.type \in [NodeId -> NodeType \cup {Absent}]
  BY DEF Graphs
<1> HIDE DEF h
<1>5. \A n \in NodeId : h.type[n] = IF n = id THEN Absent ELSE g.type[n]
  BY <1>3, <1>4
<1>6. \A n \in NodeId : h.type[n] \in {"Value", Absent} => h.dependencies[n] = {} /\ n \notin D \ {id}
  BY <1>3, <1>5 DEF Settled, SettledBut
<1>7. \A n \in D \ {id} : h.dependents[n] \subseteq D \ {id}
  BY <1>3 DEF Settled, SettledBut
<1>8. g.dependents[id] \in SUBSET Nodes(h)
  BY <1>1, <1>5, DependentsAreComputed DEF Nodes, Edges
<1> QED
  BY <1>2, <1>6, <1>7, <1>8 DEF Settled, SettledBut, h

\* New dependencies, each without a path back, leave a graph that is settled
\* but for the node that has them.
LEMMA RelinkingSettles ==
    ASSUME NEW g \in Graphs, NEW D \in SUBSET NodeId, Settled(g, D),
           NEW id \in NodeId, g.type[id] \in {"Formula", "Collection"},
           NEW deps \in SUBSET NodeId, \A d \in deps : DependencyCode(g, id, d, FALSE) = "OK"
    PROVE  /\ WithDependencies(g, id, deps) \in Graphs
           /\ SettledBut(WithDependencies(g, id, deps), D, {id})
           /\ id \in Nodes(WithDependencies(g, id, deps))
<1> DEFINE h == WithDependencies(g, id, deps)
<1>1. WellFormed(g) /\ id \in Nodes(g)
  BY DEF Settled, SettledBut, Nodes, Absent
<1>2. deps \in SUBSET Nodes(g) /\ \A d \in deps : ~HasPath(d, id, g.dependencies)
  BY DEF DependencyCode, Nodes
<1>3. h \in Graphs /\ WellFormed(h)
  BY <1>1, <1>2, WithDependenciesPreserves
<1>4. /\ h.type = g.type
      /\ h.dependencies = [g.dependencies EXCEPT ![id] = deps]
      /\ \A n \in NodeId : h.dependents[n] =
            IF n \in deps \ g.dependencies[id] THEN g.dependents[n] \cup {id}
            ELSE IF n \in g.dependencies[id] \ deps THEN g.dependents[n] \ {id}
            ELSE g.dependents[n]
  BY WithDependenciesMaps
<1> HIDE DEF h
<1>5. \A n \in NodeId : h.type[n] \in {"Value", Absent} => h.dependencies[n] = {} /\ n \notin D
  <2>1. g.dependencies \in [NodeId -> SUBSET NodeId]
    BY DEF Graphs
  <2> QED
    BY <1>4, <2>1 DEF Settled, SettledBut, Absent
<1>6. \A n \in D : h.dependents[n] \subseteq D \cup {id}
  <2>1. \A n \in NodeId : h.dependents[n] \subseteq g.dependents[n] \cup {id}
    BY <1>4
  <2> QED
    BY <2>1 DEF Settled, SettledBut
<1>7. id \in Nodes(h)
  BY <1>1, <1>4 DEF Nodes
<1> QED
  BY <1>3, <1>5, <1>6, <1>7 DEF SettledBut, h

-----------------------------------------------------------------------------
(***************************************************************************)
(* markDirty.                                                              *)
(***************************************************************************)

\* What it can reach is in the graph, and is marked or a value.
LEMMA ReachedFromRoots ==
    ASSUME NEW g \in Graphs, NEW D \in SUBSET NodeId, NEW R \in SUBSET Nodes(g), SettledBut(g, D, R)
    PROVE  LET reached == Reach(Onward(g, D), R)
           IN  /\ R \subseteq reached /\ reached \subseteq Nodes(g)
               /\ Marked(g, D, R) = {n \in reached : n \notin D /\ g.type[n] # "Value"}
               /\ \A n \in reached : n \notin D => g.dependents[n] \subseteq reached
<1>1. g.dependents \in Edges /\ \A m, n \in NodeId : n \in g.dependents[m] => n \in Nodes(g)
  <2>1. R \in SUBSET NodeId
    BY DEF Nodes
  <2> QED
    BY <2>1, DependentsAreComputed
<1>2. Onward(g, D) \in Edges /\ \A n \in NodeId : Onward(g, D)[n] = IF n \in D THEN {} ELSE g.dependents[n]
  BY <1>1 DEF Onward, Edges
<1>3. Nodes(g) \in SUBSET NodeId
  BY DEF Nodes
<1>4. ClosedUnder(Onward(g, D), Nodes(g))
  BY <1>1, <1>2, <1>3 DEF ClosedUnder, Edges
<1>5. Reach(Onward(g, D), R) \subseteq Nodes(g)
  BY <1>3, <1>4, ReachLeast
<1>6. R \subseteq Reach(Onward(g, D), R)
  BY <1>3, ReachHoldsRoots
<1>7. ClosedUnder(Onward(g, D), Reach(Onward(g, D), R))
  BY <1>2, ReachClosed
<1>8. \A n \in Reach(Onward(g, D), R) : n \notin D => g.dependents[n] \subseteq Reach(Onward(g, D), R)
  BY <1>2, <1>3, <1>5, <1>7 DEF ClosedUnder
<1> QED
  BY <1>5, <1>6, <1>8 DEF Marked, Onward

\* When markDirty is done it has reached all there is to reach.
LEMMA MarkingComplete ==
    ASSUME WInv, call = "markDirty", work = << >>, todo = << >>
    PROVE  dirty = before.dirty \cup Marked(graph, before.dirty, before.roots)
<1> DEFINE D == before.dirty
           R == before.roots
           values == {r \in R : graph.type[r] = "Value" /\ graph.dependents[r] \subseteq dirty}
<1>1. /\ graph \in Graphs /\ D \in SUBSET NodeId /\ SettledBut(graph, D, R)
      /\ R \in SUBSET Nodes(graph) /\ dirty \in SUBSET NodeId
      /\ D \subseteq dirty /\ dirty \subseteq D \cup Marked(graph, D, R)
  BY DEF WInv, Types, MarkSound, Base
<1>2. Range(work) = {} /\ Range(todo) = {}
  BY NothingOnEmpty
<1>3. \A n \in dirty \ D : graph.dependents[n] \subseteq dirty
  BY <1>2 DEF WInv, MarkSound
<1>4. \A r \in R : r \in dirty \cup values
  BY <1>2 DEF WInv, MarkSound, Pending
<1>5. \A n \in NodeId : Onward(graph, D)[n] = IF n \in D THEN {} ELSE graph.dependents[n]
  BY DEF Onward
<1>6. values \in SUBSET NodeId /\ \A n \in values : graph.dependents[n] \subseteq dirty
  BY <1>1 DEF Nodes
<1>7. ClosedUnder(Onward(graph, D), dirty \cup values)
  BY <1>1, <1>3, <1>5, <1>6 DEF ClosedUnder
<1>8. Reach(Onward(graph, D), R) \subseteq dirty \cup values
  BY <1>1, <1>4, <1>6, <1>7, ReachLeast
<1>9. Marked(graph, D, R) \subseteq dirty
  BY <1>1, <1>8, ReachedFromRoots
<1> QED
  BY <1>1, <1>9

\* A begin establishes what the loop preserves.
LEMMA BeginMarkingSound ==
    ASSUME WInv, NEW ids \in Seq(NodeId), NEW D \in SUBSET NodeId,
           BeginMarking(ids, D), graph' \in Graphs, SettledBut(graph', D, Range(ids)),
           Range(ids) \in SUBSET Nodes(graph')
    PROVE  WInv'
<1> DEFINE R == Range(ids)
<1>1. /\ call' = "markDirty" /\ dirty' = D /\ todo' = ids /\ work' = << >> /\ listed' = << >>
      /\ before' = [dirty |-> D, roots |-> R]
      /\ UNCHANGED <<searched, visited, edge>>
  BY DEF BeginMarking
<1>2. R \in SUBSET NodeId
  BY DEF Nodes
<1>3. Types'
  BY <1>1, <1>2 DEF WInv, Types
<1>4. R \subseteq Reach(Onward(graph', D), R)
  BY ReachedFromRoots
<1>5. Pending' = R
  BY <1>1, NothingOnEmpty DEF Pending
<1>6. /\ before'.dirty = D /\ before'.roots = R
      /\ Range(listed') = {} /\ IsInjective(listed')
  BY <1>1, NothingOnEmpty DEF IsInjective
<1> HIDE DEF R
<1>7. MarkSound'
  BY <1>1, <1>4, <1>5, <1>6 DEF MarkSound, Base, R
<1> QED
  BY <1>1, <1>3, <1>7 DEF WInv

\* The steps of the loop.
LEMMA MarkNextSound ==
    ASSUME WInv, MarkNext
    PROVE  WInv'
<1>1. /\ call = "markDirty" /\ work = << >> /\ todo # << >>
      /\ work' = <<Head(todo)>> /\ todo' = Tail(todo)
      /\ UNCHANGED <<graph, dirty, call, listed, before, searchVars>>
  BY DEF MarkNext
<1>2. Types /\ MarkSound
  BY <1>1 DEF WInv
<1>3. /\ Tail(todo) \in Seq(NodeId) /\ Head(todo) \in NodeId
      /\ Range(todo) = Range(Tail(todo)) \cup {Head(todo)}
  BY <1>1, <1>2, HeadRange DEF Types
<1>4. Range(work) = {} /\ Range(work') = {Head(todo)}
  BY <1>1, NothingOnEmpty DEF Range
<1>5. Pending' = Pending
  BY <1>1, <1>3, <1>4 DEF Pending
<1>6. Types'
  BY <1>1, <1>2, <1>3 DEF Types, searchVars
<1>7. MarkSound'
  BY <1>1, <1>2, <1>4, <1>5 DEF MarkSound
<1> QED
  BY <1>1, <1>6, <1>7 DEF WInv

LEMMA DropDirtySound ==
    ASSUME WInv, DropDirty
    PROVE  WInv'
<1>1. /\ call = "markDirty" /\ work # << >> /\ Last(work) \in dirty
      /\ work' = Front(work)
      /\ UNCHANGED <<graph, dirty, call, todo, listed, before, searchVars>>
  BY DEF DropDirty
<1>2. Types /\ MarkSound
  BY <1>1 DEF WInv
<1>3. /\ work' \in Seq(NodeId)
      /\ Range(work) = Range(work') \cup {Last(work)}
  BY <1>1, <1>2, FrontRange DEF Types
<1>4. Types'
  BY <1>1, <1>2, <1>3 DEF Types, searchVars
<1>5. Pending' \subseteq Pending /\ Pending \subseteq Pending' \cup dirty
  BY <1>1, <1>3 DEF Pending
<1>6. dirty \cup Range(work) = dirty \cup Range(work')
  BY <1>1, <1>3
<1>7. MarkSound'
  BY <1>1, <1>2, <1>5, <1>6 DEF MarkSound
<1> QED
  BY <1>1, <1>4, <1>7 DEF WInv

LEMMA MarkTopSound ==
    ASSUME WInv, MarkTop
    PROVE  WInv'
<1> DEFINE c == Last(work)
           marking == graph.type[c] # "Value"
           D == before.dirty
           R == before.roots
           reached == Reach(Onward(graph, D), R)
<1>1. PICK order \in Orders(graph.dependents[c]) :
          /\ work' = Front(work) \o order
          /\ dirty' = IF marking THEN dirty \cup {c} ELSE dirty
          /\ listed' = IF marking /\ order = << >> THEN Append(listed, c) ELSE listed
  BY DEF MarkTop
<1>2. /\ call = "markDirty" /\ work # << >> /\ c \notin dirty
      /\ UNCHANGED <<graph, call, todo, before, searchVars>>
  BY DEF MarkTop
<1>3. Types /\ MarkSound
  BY <1>2 DEF WInv
<1>4. /\ graph \in Graphs /\ D \in SUBSET NodeId /\ SettledBut(graph, D, R)
      /\ R \in SUBSET Nodes(graph) /\ R \in SUBSET NodeId
      /\ D \subseteq dirty /\ dirty \subseteq D \cup Marked(graph, D, R)
  BY <1>3 DEF Types, MarkSound, Base, Nodes
<1>5. /\ Front(work) \in Seq(NodeId) /\ c \in NodeId
      /\ Range(work) = Range(Front(work)) \cup {c}
  BY <1>2, <1>3, FrontRange DEF Types
<1>6. graph.dependents[c] \in SUBSET NodeId
  BY <1>4, <1>5 DEF Graphs
<1>7. order \in Seq(NodeId) /\ Range(order) = graph.dependents[c]
  BY <1>6, OrdersRange
<1>8. work' \in Seq(NodeId) /\ Range(work') = Range(Front(work)) \cup graph.dependents[c]
  BY <1>1, <1>5, <1>7, ConcatRange
<1>9. order = << >> <=> graph.dependents[c] = {}
  <2>1. order = << >> => graph.dependents[c] = {}
    BY <1>7, NothingOnEmpty
  <2>2. order # << >> => Head(order) \in Range(order)
    BY <1>7, HeadRange
  <2> QED
    BY <1>7, <2>1, <2>2
<1>10. /\ reached \subseteq Nodes(graph)
       /\ Marked(graph, D, R) = {n \in reached : n \notin D /\ graph.type[n] # "Value"}
       /\ \A n \in reached : n \notin D => graph.dependents[n] \subseteq reached
  BY <1>4, ReachedFromRoots
<1>11. Pending \subseteq reached
  BY <1>3 DEF MarkSound
<1>12. c \in reached /\ c \notin D /\ graph.dependents[c] \subseteq reached
  BY <1>2, <1>4, <1>5, <1>10, <1>11 DEF Pending
<1>13. Pending' = (Pending \ {c}) \cup Range(work') \cup Range(todo)
  BY <1>2, <1>5, <1>8 DEF Pending
<1>14. c \notin Range(listed) /\ listed \in Seq(NodeId) /\ IsInjective(listed)
       /\ Range(listed) = {n \in dirty \ D : graph.dependents[n] = {}}
  BY <1>2, <1>3 DEF MarkSound, Types
<1>15. /\ listed' \in Seq(NodeId) /\ IsInjective(listed')
       /\ Range(listed') = {n \in dirty' \ D : graph.dependents[n] = {}}
  <2>1. CASE marking /\ order = << >>
    BY <1>1, <1>5, <1>9, <1>12, <1>14, <2>1, AppendNew
  <2>2. CASE ~(marking /\ order = << >>)
    <3>1. listed' = listed
      BY <1>1, <2>2
    <3>2. {n \in dirty' \ D : graph.dependents[n] = {}} = {n \in dirty \ D : graph.dependents[n] = {}}
      BY <1>1, <1>9, <2>2
    <3> QED
      BY <1>14, <3>1, <3>2
  <2> QED
    BY <2>1, <2>2
<1>16. dirty' \in SUBSET NodeId
  BY <1>1, <1>3, <1>5 DEF Types
<1>17. Types'
  BY <1>2, <1>3, <1>8, <1>15, <1>16 DEF Types, searchVars
<1>18. D \subseteq dirty' /\ dirty' \subseteq D \cup Marked(graph, D, R)
  BY <1>1, <1>4, <1>10, <1>12
<1>19. Pending' \subseteq reached
  BY <1>5, <1>8, <1>11, <1>12, <1>13 DEF Pending
<1>20. \A n \in dirty \ D : graph.dependents[n] \subseteq dirty' \cup Range(work')
  <2>1. SUFFICES ASSUME NEW n \in dirty \ D, NEW m \in graph.dependents[n]
                 PROVE  m \in dirty' \cup Range(work')
    OBVIOUS
  <2>2. m \in dirty \cup Range(work)
    BY <1>3 DEF MarkSound
  <2>3. n \in NodeId /\ m \in NodeId
    BY <1>3, <1>4 DEF Types, Graphs
  <2>4. graph.type[m] # "Value"
    BY <1>4, <2>3, DependentsAreComputed
  <2> QED
    BY <1>1, <1>5, <1>8, <2>2, <2>4
<1>21. \A n \in dirty' \ D : graph.dependents[n] \subseteq dirty' \cup Range(work')
  BY <1>1, <1>8, <1>20
<1>22. ASSUME NEW r \in R
       PROVE  \/ r \in Pending' \/ r \in dirty'
              \/ graph.type[r] = "Value" /\ graph.dependents[r] \subseteq dirty' \cup Range(work')
  <2>1. r \in NodeId
    BY <1>4 DEF Nodes
  <2>2. \/ r \in Pending \/ r \in dirty
        \/ graph.type[r] = "Value" /\ graph.dependents[r] \subseteq dirty \cup Range(work)
    BY <1>3 DEF MarkSound
  <2>3. CASE r = c
    BY <1>1, <1>8, <2>3
  <2>4. CASE r # c /\ (r \in Pending \/ r \in dirty)
    BY <1>1, <1>13, <2>4
  <2>5. CASE r # c /\ graph.type[r] = "Value" /\ graph.dependents[r] \subseteq dirty \cup Range(work)
    <3>1. SUFFICES ASSUME NEW m \in graph.dependents[r] PROVE m \in dirty' \cup Range(work')
      BY <2>5
    <3>2. m \in NodeId
      BY <1>4, <2>1 DEF Graphs
    <3>3. graph.type[m] # "Value"
      BY <1>4, <2>1, <3>2, DependentsAreComputed
    <3> QED
      BY <1>1, <1>5, <1>8, <2>5, <3>3
  <2> QED
    BY <2>2, <2>3, <2>4, <2>5
<1>23. Base(graph, D, R)
  BY <1>4 DEF Base
<1> HIDE DEF reached
<1>24. MarkSound'
  BY <1>2, <1>4, <1>15, <1>18, <1>19, <1>21, <1>22, <1>23 DEF MarkSound, reached
<1> QED
  BY <1>2, <1>17, <1>24 DEF WInv

LEMMA MarkingReturnsSound ==
    ASSUME WInv, MarkingReturns
    PROVE  /\ WInv'
           /\ dirty = before.dirty \cup Marked(graph, before.dirty, before.roots)
           /\ IsInjective(listed)
           /\ Range(listed) = {n \in Marked(graph, before.dirty, before.roots) :
                                  graph.dependents[n] = {}}
           /\ Settled(graph, dirty)
<1> DEFINE D == before.dirty
           M == Marked(graph, D, before.roots)
<1>1. /\ call = "markDirty" /\ work = << >> /\ todo = << >>
      /\ call' = "none" /\ listed' = << >> /\ before' = NoMarking
      /\ UNCHANGED <<graph, dirty, todo, work, searchVars>>
  BY DEF MarkingReturns
<1>2. Types /\ MarkSound
  BY <1>1 DEF WInv
<1>3. dirty = D \cup M
  BY <1>1, MarkingComplete
<1>4. Settled(graph, D \cup M)
  BY <1>2, MarkedSettles DEF MarkSound, Base
<1>5. \A n \in M : n \notin D
  BY DEF Marked
<1>6. IsInjective(listed) /\ Range(listed) = {n \in dirty \ D : graph.dependents[n] = {}}
  BY <1>2 DEF MarkSound
<1>7. Types'
  BY <1>1, <1>2 DEF Types, NoMarking, searchVars
<1> HIDE DEF M
<1>8. Settled(graph, dirty)
  BY <1>3, <1>4
<1>9. WInv'
  BY <1>1, <1>7, <1>8 DEF WInv
<1> QED
  BY <1>3, <1>5, <1>6, <1>8, <1>9 DEF M

-----------------------------------------------------------------------------
(***************************************************************************)
(* hasPath.                                                                *)
(***************************************************************************)

\* The search begins with what it is to search from, and with nothing visited.
LEMMA BeginSearchSound ==
    ASSUME WInv, NEW src \in Nodes(graph), NEW target \in Nodes(graph),
           BeginSearch(src, target)
    PROVE  WInv'
<1>1. /\ call = "none" /\ call' = "hasPath" /\ edge' = <<src, target>>
      /\ searched' = <<src>> /\ visited' = {}
      /\ UNCHANGED <<graph, dirty, markVars>>
  BY DEF BeginSearch
<1>2. Types /\ Settled(graph, dirty) /\ work = << >> /\ todo = << >>
  BY <1>1 DEF WInv
<1>3. src \in NodeId
  BY DEF Nodes
<1>4. Types'
  BY <1>1, <1>2, <1>3 DEF Types, markVars
<1>5. Range(searched') = {src} /\ edge'[1] = src /\ edge'[2] = target
  BY <1>1 DEF Range
<1>6. src \in Reach(graph.dependencies, {src})
  BY <1>3, ReachHoldsRoots
<1>7. SearchSound'
  BY <1>1, <1>2, <1>5, <1>6 DEF SearchSound, Base, Types, Settled
<1> QED
  BY <1>1, <1>2, <1>4, <1>7 DEF WInv, markVars

\* What the steps of the search share.
LEMMA Searching ==
    ASSUME WInv, call = "hasPath", searched # << >>
    PROVE  /\ Types /\ SearchSound
           /\ Front(searched) \in Seq(NodeId) /\ Last(searched) \in NodeId
           /\ Range(searched) = Range(Front(searched)) \cup {Last(searched)}
           /\ Settled(graph, dirty) /\ work = << >> /\ todo = << >>
BY FrontRange DEF WInv, Types

LEMMA DropVisitedSound ==
    ASSUME WInv, DropVisited
    PROVE  WInv'
<1>1. /\ call = "hasPath" /\ searched # << >> /\ Last(searched) \in visited
      /\ searched' = Front(searched)
      /\ UNCHANGED <<graph, dirty, call, markVars, visited, edge, answer>>
  BY DEF DropVisited
<1>2. /\ Types /\ SearchSound
      /\ searched' \in Seq(NodeId)
      /\ visited \cup Range(searched') = visited \cup Range(searched)
      /\ Settled(graph, dirty) /\ work = << >> /\ todo = << >>
  BY <1>1, Searching
<1>3. Types'
  BY <1>1, <1>2 DEF Types, markVars
<1>4. SearchSound'
  BY <1>1, <1>2 DEF SearchSound
<1> QED
  BY <1>1, <1>2, <1>3, <1>4 DEF WInv, markVars

LEMMA VisitTopSound ==
    ASSUME WInv, VisitTop
    PROVE  WInv'
<1> DEFINE c == Last(searched)
           E == graph.dependencies
           reached == Reach(E, {edge[1]})
<1>1. PICK order \in Orders(E[c]) : searched' = Front(searched) \o order
  BY DEF VisitTop
<1>2. /\ call = "hasPath" /\ searched # << >> /\ c # edge[2] /\ visited' = visited \cup {c}
      /\ UNCHANGED <<graph, dirty, call, markVars, edge, answer>>
  BY DEF VisitTop
<1>3. /\ Types /\ SearchSound
      /\ Front(searched) \in Seq(NodeId) /\ c \in NodeId
      /\ Range(searched) = Range(Front(searched)) \cup {c}
      /\ Settled(graph, dirty) /\ work = << >> /\ todo = << >>
  BY <1>2, Searching
<1>4. E \in Edges /\ E[c] \in SUBSET NodeId
  BY <1>3 DEF Types, Graphs, Edges
<1>5. order \in Seq(NodeId) /\ Range(order) = E[c]
  BY <1>4, OrdersRange
<1>6. searched' \in Seq(NodeId) /\ Range(searched') = Range(Front(searched)) \cup E[c]
  BY <1>1, <1>3, <1>5, ConcatRange
<1>7. Types'
  BY <1>2, <1>3, <1>6 DEF Types, markVars
<1>8. /\ edge \in Nodes(graph) \X Nodes(graph)
      /\ visited \cup Range(searched) \subseteq reached
      /\ edge[1] \in visited \cup Range(searched)
      /\ edge[2] \notin visited
      /\ \A n \in visited : E[n] \subseteq visited \cup Range(searched)
  BY <1>3 DEF SearchSound
<1>9. E[c] \subseteq reached
  <2>1. ClosedUnder(E, reached)
    BY <1>4, ReachClosed
  <2> QED
    BY <1>3, <1>8, <2>1 DEF ClosedUnder
<1> HIDE DEF reached
<1>10. visited' \cup Range(searched') = visited \cup Range(searched) \cup E[c]
  BY <1>2, <1>3, <1>6
<1>11. \A n \in visited' : E[n] \subseteq visited' \cup Range(searched')
  BY <1>2, <1>8, <1>10
<1>12. /\ visited' \cup Range(searched') \subseteq reached
       /\ edge[1] \in visited' \cup Range(searched')
       /\ edge[2] \notin visited'
  BY <1>2, <1>8, <1>9, <1>10
<1>13. SearchSound'
  BY <1>2, <1>3, <1>8, <1>11, <1>12 DEF SearchSound, Base, Types, reached
<1> QED
  BY <1>2, <1>3, <1>7, <1>13 DEF WInv, markVars

\* The target was reached when it is popped.
LEMMA PopTargetSound ==
    ASSUME WInv, PopTarget
    PROVE  WInv' /\ answer' = HasPath(edge[1], edge[2], graph.dependencies)
<1>1. /\ call = "hasPath" /\ searched # << >> /\ Last(searched) = edge[2]
      /\ searched' = Front(searched) /\ call' = "none" /\ answer' = TRUE
      /\ UNCHANGED <<graph, dirty, markVars, visited>>
  BY DEF PopTarget
<1>2. /\ Types /\ SearchSound
      /\ searched' \in Seq(NodeId) /\ edge[2] \in Range(searched)
      /\ Settled(graph, dirty) /\ work = << >> /\ todo = << >>
  BY <1>1, Searching
<1>3. edge[2] \in Reach(graph.dependencies, {edge[1]})
  BY <1>2 DEF SearchSound
<1>4. Types'
  BY <1>1, <1>2 DEF Types, markVars
<1>5. WInv'
  BY <1>1, <1>2, <1>4 DEF WInv, markVars
<1> QED
  BY <1>1, <1>3, <1>5 DEF HasPath

\* When the stack is empty, what was visited is all that can be reached.
LEMMA SearchReturnsSound ==
    ASSUME WInv, SearchReturns
    PROVE  WInv' /\ answer' = HasPath(edge[1], edge[2], graph.dependencies)
<1>1. /\ call = "hasPath" /\ searched = << >> /\ call' = "none" /\ answer' = FALSE
      /\ UNCHANGED <<graph, dirty, markVars, searched, visited>>
  BY DEF SearchReturns
<1>2. /\ Types /\ SearchSound /\ Settled(graph, dirty) /\ work = << >> /\ todo = << >>
      /\ Range(searched) = {}
  BY <1>1, NothingOnEmpty DEF WInv
<1>3. /\ visited \in SUBSET NodeId /\ {edge[1]} \subseteq visited /\ edge[2] \notin visited
      /\ ClosedUnder(graph.dependencies, visited)
  BY <1>2 DEF SearchSound, Types, ClosedUnder
<1>4. edge[2] \notin Reach(graph.dependencies, {edge[1]})
  BY <1>3, ReachLeast
<1>5. Types'
  BY <1>1, <1>2 DEF Types, markVars
<1>6. WInv'
  BY <1>1, <1>2, <1>5 DEF WInv, markVars
<1> DEFINE connected == HasPath(edge[1], edge[2], graph.dependencies)
<1>7. ~connected /\ connected \in BOOLEAN
  BY <1>4 DEF HasPath
<1> HIDE DEF connected
<1>8. answer' = connected
  BY <1>1, <1>7
<1> QED
  BY <1>6, <1>8 DEF connected

-----------------------------------------------------------------------------
(***************************************************************************)
(* The theorems.                                                           *)
(***************************************************************************)

\* The loops begin between calls, in a settled graph.
LEMMA InitSound == Init => WInv
<1> SUFFICES ASSUME Init PROVE WInv
  OBVIOUS
<1>1. PICK types \in Typings, edges \in [NodeId -> SUBSET NodeId] : graph = Linked(types, edges)
  BY DEF Init
<1>2. graph \in Graphs
  BY <1>1, TypingsAreTypes DEF Linked, Graphs
<1>3. Types
  BY <1>2 DEF Init, Types, NoMarking
<1> QED
  BY <1>3 DEF Init, WInv

\* A settled graph is one with whatever roots.
LEMMA SettledMakesBase ==
    ASSUME NEW g \in Graphs, NEW D \in SUBSET NodeId, NEW R \in SUBSET NodeId, Settled(g, D)
    PROVE  SettledBut(g, D, R)
BY DEF Settled, SettledBut

\* A change, new dependencies and a removal give markDirty a graph that is
\* settled but for the names it is called for.
LEMMA BeginSound ==
    ASSUME WInv, Begin
    PROVE  WInv'
<1>1. ASSUME NEW id \in NodeId, Change(id) PROVE WInv'
  <2>1. /\ call = "none" /\ graph.type[id] = "Value" /\ graph' = graph
        /\ BeginMarking(<<id>>, dirty)
    BY <1>1 DEF Change, BeginMarking
  <2>2. Types /\ Settled(graph, dirty)
    BY <2>1 DEF WInv
  <2>3. <<id>> \in Seq(NodeId) /\ Range(<<id>>) = {id}
    BY DEF Range
  <2>4. dirty \in SUBSET NodeId /\ graph' \in Graphs /\ Settled(graph', dirty)
    BY <2>1, <2>2 DEF Types
  <2>5. Range(<<id>>) \in SUBSET Nodes(graph') /\ Range(<<id>>) \in SUBSET NodeId
    BY <2>1, <2>3 DEF Nodes, Absent
  <2>6. SettledBut(graph', dirty, Range(<<id>>))
    BY <2>4, <2>5, SettledMakesBase
  <2> QED
    BY <2>1, <2>3, <2>4, <2>5, <2>6, BeginMarkingSound
<1>2. ASSUME NEW id \in NodeId, Relink(id) PROVE WInv'
  <2>1. /\ call = "none" /\ graph.type[id] \in {"Formula", "Collection"}
        /\ BeginMarking(<<id>>, dirty)
    BY <1>2 DEF Relink, BeginMarking
  <2>2. PICK deps \in SUBSET {d \in NodeId : DependencyCode(graph, id, d, FALSE) = "OK"} :
            graph' = WithDependencies(graph, id, deps)
    BY <1>2 DEF Relink
  <2>3. graph \in Graphs /\ dirty \in SUBSET NodeId /\ Settled(graph, dirty)
    BY <2>1 DEF WInv, Types
  <2>4. deps \in SUBSET NodeId /\ \A d \in deps : DependencyCode(graph, id, d, FALSE) = "OK"
    OBVIOUS
  <2>5. graph' \in Graphs /\ SettledBut(graph', dirty, {id}) /\ id \in Nodes(graph')
    BY <2>1, <2>2, <2>3, <2>4, RelinkingSettles
  <2>6. <<id>> \in Seq(NodeId) /\ Range(<<id>>) = {id}
    BY DEF Range
  <2>7. SettledBut(graph', dirty, Range(<<id>>)) /\ Range(<<id>>) \in SUBSET Nodes(graph')
    BY <2>5, <2>6
  <2> QED
    BY <2>1, <2>3, <2>5, <2>6, <2>7, BeginMarkingSound
<1>3. ASSUME NEW id \in NodeId, Delete(id) PROVE WInv'
  <2>1. /\ RemoveNodeCode(graph, id) = "OK" /\ graph' = WithoutNode(graph, id)
        /\ \E ids \in Orders(graph.dependents[id]) : BeginMarking(ids, dirty \ {id})
    BY <1>3 DEF Delete
  <2>2. PICK ids \in Orders(graph.dependents[id]) : BeginMarking(ids, dirty \ {id})
    BY <2>1
  <2>3. call = "none"
    BY <2>2 DEF BeginMarking
  <2>4. graph \in Graphs /\ dirty \in SUBSET NodeId /\ Settled(graph, dirty)
    BY <2>3 DEF WInv, Types
  <2>5. /\ graph' \in Graphs /\ Settled(graph', dirty \ {id})
        /\ graph.dependents[id] \in SUBSET Nodes(graph')
    BY <2>1, <2>4, RemovalSettles
  <2>6. graph.dependents[id] \in SUBSET NodeId
    BY <2>4 DEF Graphs
  <2>7. ids \in Seq(NodeId) /\ Range(ids) = graph.dependents[id]
    BY <2>6, OrdersRange
  <2>8. dirty \ {id} \in SUBSET NodeId /\ Range(ids) \in SUBSET Nodes(graph')
    BY <2>4, <2>5, <2>7
  <2>9. SettledBut(graph', dirty \ {id}, Range(ids))
    BY <2>5, <2>6, <2>7, <2>8, SettledMakesBase
  <2> QED
    BY <2>2, <2>5, <2>7, <2>8, <2>9, BeginMarkingSound
<1>4. ASSUME NEW src \in Nodes(graph), NEW target \in Nodes(graph), BeginSearch(src, target)
      PROVE  WInv'
  BY <1>4, BeginSearchSound
<1> QED
  BY <1>1, <1>2, <1>3, <1>4 DEF Begin

LEMMA StepSound == WInv /\ [Next]_vars => WInv'
<1> SUFFICES ASSUME WInv, [Next]_vars PROVE WInv'
  OBVIOUS
<1>1. CASE Begin
  BY <1>1, BeginSound
<1>2. CASE LoopStep
  BY <1>2, MarkNextSound, DropDirtySound, MarkTopSound, MarkingReturnsSound,
     PopTargetSound, DropVisitedSound, VisitTopSound, SearchReturnsSound DEF LoopStep
<1>3. CASE UNCHANGED vars
  <2>1. /\ graph' = graph /\ dirty' = dirty /\ call' = call /\ todo' = todo /\ work' = work
        /\ listed' = listed /\ before' = before /\ searched' = searched
        /\ visited' = visited /\ edge' = edge
    BY <1>3 DEF vars, markVars, searchVars
  <2>2. Types <=> Types'
    BY <2>1 DEF Types
  <2>3. MarkSound => MarkSound'
    BY <2>1 DEF MarkSound, Pending
  <2>4. SearchSound => SearchSound'
    BY <2>1 DEF SearchSound
  <2> QED
    BY <2>1, <2>2, <2>3, <2>4 DEF WInv
<1> QED
  BY <1>1, <1>2, <1>3 DEF Next

\* In every state the running loop is sound.
THEOREM LoopsAreSound == Spec => []WInv
BY InitSound, StepSound, PTL DEF Spec

\* markDirty, called after a change of any node or of its edges or for the former
\* dependents of a removed one, marks exactly what Marked says, lists each new
\* leaf once and leaves the graph settled.  What the kernel model takes as one
\* step is what the loop does.
THEOREM MarkingMarksOnce == Spec => MarkDirtyMarksOnce
<1> DEFINE marksOnce ==
        call = "markDirty" /\ call' = "none" =>
            LET marked == Marked(graph, before.dirty, before.roots)
            IN  /\ dirty = before.dirty \cup marked
                /\ IsInjective(listed)
                /\ Range(listed) = {n \in marked : graph.dependents[n] = {}}
                /\ Settled(graph, dirty)
<1>1. WInv /\ [Next]_vars => [marksOnce]_vars
  <2> SUFFICES ASSUME WInv, Next, call = "markDirty", call' = "none" PROVE marksOnce
    BY DEF marksOnce
  <2>1. MarkingReturns
    BY DEF Next, Begin, LoopStep, Change, Relink, Delete, BeginMarking, BeginSearch, MarkNext,
           DropDirty, MarkTop, PopTarget, DropVisited, VisitTop, SearchReturns
  <2> QED
    BY <2>1, MarkingReturnsSound
<1> QED
  BY <1>1, LoopsAreSound, PTL DEF Spec, MarkDirtyMarksOnce

\* No name markDirty comes to is missing from the graph.
THEOREM MarkingNeverMisses == Spec => []MarkingFindsNodes
<1>1. WInv => MarkingFindsNodes
  <2> SUFFICES ASSUME WInv PROVE MarkingFindsNodes
    OBVIOUS
  <2>1. CASE call = "markDirty"
    <3>1. Pending \subseteq Reach(Onward(graph, before.dirty), before.roots)
      BY <2>1 DEF WInv, MarkSound
    <3>2. /\ graph \in Graphs /\ before.dirty \in SUBSET NodeId
          /\ SettledBut(graph, before.dirty, before.roots) /\ before.roots \in SUBSET Nodes(graph)
      BY <2>1 DEF WInv, MarkSound, Base
    <3>3. Reach(Onward(graph, before.dirty), before.roots) \subseteq Nodes(graph)
      BY <3>2, ReachedFromRoots
    <3> QED
      BY <3>1, <3>3 DEF MarkingFindsNodes, Pending
  <2>2. CASE call # "markDirty"
    BY <2>2, NothingOnEmpty DEF WInv, MarkingFindsNodes
  <2> QED
    BY <2>1, <2>2
<1> QED
  BY <1>1, LoopsAreSound, PTL

\* hasPath answers exactly whether there is a path, whatever its static stack
\* and set hold when it is called.
THEOREM SearchesForget == Spec => SearchForgetsTheLast
<1> DEFINE answers ==
        call = "hasPath" /\ call' = "none" =>
            answer' = HasPath(edge[1], edge[2], graph.dependencies)
<1>1. WInv /\ [Next]_vars => [answers]_vars
  <2> SUFFICES ASSUME WInv, Next, call = "hasPath", call' = "none" PROVE answers
    BY DEF answers
  <2>1. PopTarget \/ SearchReturns
    BY DEF Next, Begin, LoopStep, Change, Relink, Delete, BeginMarking, BeginSearch, MarkNext,
           DropDirty, MarkTop, MarkingReturns, DropVisited, VisitTop
  <2> QED
    BY <2>1, PopTargetSound, SearchReturnsSound
<1> QED
  BY <1>1, LoopsAreSound, PTL DEF Spec, SearchForgetsTheLast
=============================================================================
