------------------------------ MODULE WorkLists ------------------------------
(***************************************************************************)
(* The two loops over a stack of names that the kernel model takes as done *)
(* (Marked and HasPath say what they reach): markDirty of executor.cpp and *)
(* hasPath of graph.cpp, one iteration at a time.  The order of a vector   *)
(* is any order.  The stack and the set of hasPath are static: a search    *)
(* that returns early leaves them full, and the next one finds them so.    *)
(*                                                                         *)
(* The loops start in any settled graph.  Removals and new dependencies    *)
(* change it before markDirty runs, the latter so that it is settled only  *)
(* when markDirty has returned.                                            *)
(***************************************************************************)
EXTENDS Marking

CONSTANTS Typings,   \* the ways to give the names types (a bound)
          MaxLeft    \* how many visited names an earlier hasPath may have left
                     \* when markDirty is called, which does not use them (a bound)

ASSUME TypingsAreTypes == Typings \subseteq [NodeId -> NodeType \cup {Absent}]

VARIABLES
    graph, dirty,    \* as in Executor
    call,            \* the loop that is running
    todo,            \* the names markDirty is still to be called for
    work,            \* the stack of markDirty
    listed,          \* what the running calls of markDirty have put on _dirtyLeaves
    before,          \* where they began: the dirty nodes, and the names they are for
    searched,        \* the stack of hasPath, static
    visited,         \* its set, static
    edge,            \* the arguments of the running hasPath
    answer           \* what hasPath has returned, until the next call

markVars == <<todo, work, listed, before>>
searchVars == <<searched, visited, edge, answer>>
vars == <<graph, dirty, call, markVars, searchVars>>

NoMarking == [dirty |-> {}, roots |-> {}]

\* The graph with these types, in which n reads edges[n].
Linked(types, edges) ==
    [type |-> types, dependencies |-> edges,
     dependents |-> [n \in NodeId |-> {m \in NodeId : n \in edges[m]}]]

Init ==
    /\ \E types \in Typings, edges \in [NodeId -> SUBSET NodeId] : graph = Linked(types, edges)
    /\ WellFormed(graph)
    /\ dirty \in SUBSET NodeId
    /\ Settled(graph, dirty)
    /\ call = "none"
    /\ todo = << >> /\ work = << >> /\ listed = << >>
    /\ before = NoMarking
    /\ searched = << >> /\ visited = {}
    /\ edge = << >> /\ answer = FALSE

-----------------------------------------------------------------------------
(***************************************************************************)
(* markDirty.                                                              *)
(***************************************************************************)

\* The kernel calls markDirty for the names `ids', one after the other.
BeginMarking(ids, dirtyNodes) ==
    /\ call = "none" /\ Cardinality(visited) <= MaxLeft
    /\ call' = "markDirty"
    /\ dirty' = dirtyNodes
    /\ todo' = ids
    /\ work' = << >>
    /\ listed' = << >>
    /\ before' = [dirty |-> dirtyNodes, roots |-> Range(ids)]
    /\ answer' = FALSE
    /\ UNCHANGED <<searched, visited, edge>>

\* The number of id has changed.
Change(id) ==
    /\ graph.type[id] = "Value"
    /\ BeginMarking(<<id>>, dirty)
    /\ UNCHANGED graph

\* id has been given a formula or dependencies: it may now read nodes that are
\* dirty, and be clean itself.
Relink(id) ==
    /\ graph.type[id] \in {"Formula", "Collection"}
    /\ BeginMarking(<<id>>, dirty)
    /\ \E newDeps \in SUBSET {dep \in NodeId : DependencyCode(graph, id, dep, FALSE) = "OK"} :
          graph' = WithDependencies(graph, id, newDeps)

\* id is removed: the names are those that read it until now.
Delete(id) ==
    /\ RemoveNodeCode(graph, id) = "OK"
    /\ \E ids \in Orders(graph.dependents[id]) : BeginMarking(ids, dirty \ {id})
    /\ graph' = WithoutNode(graph, id)

\* markDirty is called for the next name.
MarkNext ==
    /\ call = "markDirty" /\ work = << >> /\ todo # << >>
    /\ work' = <<Head(todo)>>
    /\ todo' = Tail(todo)
    /\ UNCHANGED <<graph, dirty, call, listed, before, searchVars>>

\* Wrong variant: the loop ends where it should go on with the next name.
DropDirty_Breaks ==
    /\ call = "markDirty" /\ work # << >>
    /\ Last(work) \in dirty
    /\ work' = << >>
    /\ UNCHANGED <<graph, dirty, call, todo, listed, before, searchVars>>

\* Wrong variant: the name is looked at, and stays.
DropDirty_Stays ==
    /\ call = "markDirty" /\ work # << >>
    /\ Last(work) \in dirty
    /\ UNCHANGED vars

\* An iteration of the loop.  A name that is dirty already is dropped.
DropDirty ==
    /\ call = "markDirty" /\ work # << >>
    /\ Last(work) \in dirty
    /\ work' = Front(work)
    /\ UNCHANGED <<graph, dirty, call, todo, listed, before, searchVars>>

\* The other names are marked, unless they are values, and make way for their
\* dependents.
MarkTop ==
    /\ call = "markDirty" /\ work # << >>
    /\ Last(work) \notin dirty
    /\ LET current == Last(work)
           marking == graph.type[current] # "Value"
       IN  \E order \in Orders(graph.dependents[current]) :
              /\ work' = Front(work) \o order
              /\ dirty' = IF marking THEN dirty \cup {current} ELSE dirty
              /\ listed' = IF marking /\ order = << >> THEN Append(listed, current) ELSE listed
    /\ UNCHANGED <<graph, call, todo, before, searchVars>>

MarkingReturns ==
    /\ call = "markDirty" /\ work = << >> /\ todo = << >>
    /\ call' = "none"
    /\ listed' = << >>
    /\ before' = NoMarking
    /\ UNCHANGED <<graph, dirty, todo, work, searchVars>>

-----------------------------------------------------------------------------
(***************************************************************************)
(* hasPath.                                                                *)
(***************************************************************************)

\* Wrong variant: the set still holds what the last search visited.
BeginSearch_KeepsVisited(src, target) ==
    /\ call = "none" /\ src # target
    /\ call' = "hasPath"
    /\ edge' = <<src, target>>
    /\ searched' = <<src>>
    /\ answer' = FALSE
    /\ UNCHANGED <<graph, dirty, markVars, visited>>

\* setNodeDependencies, which has looked that both names exist and are two,
\* calls hasPath, which first clears what an earlier search left.
BeginSearch(src, target) ==
    /\ call = "none" /\ src # target
    /\ call' = "hasPath"
    /\ edge' = <<src, target>>
    /\ searched' = <<src>>
    /\ visited' = {}
    /\ answer' = FALSE
    /\ UNCHANGED <<graph, dirty, markVars>>

\* An iteration pops a name.  The search ends when it is the target,
PopTarget ==
    /\ call = "hasPath" /\ searched # << >>
    /\ Last(searched) = edge[2]
    /\ searched' = Front(searched)
    /\ call' = "none" /\ answer' = TRUE
    /\ edge' = << >>
    /\ UNCHANGED <<graph, dirty, markVars, visited>>

\* a name that was visited is dropped,
DropVisited ==
    /\ call = "hasPath" /\ searched # << >>
    /\ Last(searched) # edge[2] /\ Last(searched) \in visited
    /\ searched' = Front(searched)
    /\ UNCHANGED <<graph, dirty, call, markVars, visited, edge, answer>>

\* and another one makes way for its dependencies.
VisitTop ==
    /\ call = "hasPath" /\ searched # << >>
    /\ Last(searched) # edge[2] /\ Last(searched) \notin visited
    /\ visited' = visited \cup {Last(searched)}
    /\ \E order \in Orders(graph.dependencies[Last(searched)]) :
          searched' = Front(searched) \o order
    /\ UNCHANGED <<graph, dirty, call, markVars, edge, answer>>

SearchReturns ==
    /\ call = "hasPath" /\ searched = << >>
    /\ call' = "none" /\ answer' = FALSE
    /\ edge' = << >>
    /\ UNCHANGED <<graph, dirty, markVars, searched, visited>>

-----------------------------------------------------------------------------
Begin ==
    \/ \E id \in NodeId : Change(id) \/ Relink(id) \/ Delete(id)
    \/ \E src, target \in Nodes(graph) : BeginSearch(src, target)

LoopStep ==
    \/ MarkNext \/ DropDirty \/ MarkTop \/ MarkingReturns
    \/ PopTarget \/ DropVisited \/ VisitTop \/ SearchReturns

Next == Begin \/ LoopStep

Spec == Init /\ [][Next]_vars

\* A running loop goes on.
FairSpec == Spec /\ WF_vars(LoopStep)

-----------------------------------------------------------------------------
\* The calls of markDirty after a change of one node, or after a removal, mark
\* each node they should and list each leaf among them once, and leave a
\* settled graph: no order of the vectors, and no node that is pushed twice or
\* marked by an earlier call, makes them miss a node or list one twice.
MarkDirtyMarksOnce ==
    [][call = "markDirty" /\ call' = "none" =>
        LET marked == Marked(graph, before.dirty, before.roots)
        IN  /\ dirty = before.dirty \cup marked
            /\ IsInjective(listed)
            /\ Range(listed) = {n \in marked : graph.dependents[n] = {}}
            /\ Settled(graph, dirty)]_vars

\* markDirty takes nodes by Graph::node, which ends the program when there is
\* none of that name (graph.hpp:13): every name it comes to is there, also
\* right after a removal.
MarkingFindsNodes == Range(work) \cup Range(todo) \subseteq Nodes(graph)

\* hasPath answers whether there is a path, whatever an earlier search has left
\* in its static variables, found or not.
SearchForgetsTheLast ==
    [][call = "hasPath" /\ call' = "none" =>
          answer' = HasPath(edge[1], edge[2], graph.dependencies)]_vars

\* Both loops end, though a name may be pushed many times.
LoopsEnd == call # "none" ~> call = "none"
=============================================================================
