-------------------------------- MODULE Marking --------------------------------
(***************************************************************************)
(* What Executor::markDirty (src/stat_kernel/executor.cpp) achieves, as an *)
(* operator on a graph and a set of dirty nodes.  Executor takes it as one *)
(* step; WorkLists has the loop that gets there.                           *)
(***************************************************************************)
EXTENDS DependencyGraph, SequencesExt

\* Every order a loop over the elements of S may visit them in.
Orders(S) == SetToSeqs(S)

\* Wrong variant: only the roots and their own dependents turn dirty.
Marked_OneLevel(g, dirtyNodes, roots) ==
    {n \in roots \cup UNION {g.dependents[r] : r \in roots} :
        n \notin dirtyNodes /\ g.type[n] # "Value"}

\* Wrong variant: what the changed node reads turns dirty too.
Marked_BothWays(g, dirtyNodes, roots) ==
    LET around == [n \in NodeId |-> g.dependents[n] \cup g.dependencies[n]]
    IN  {n \in Reach(around, roots) : n \notin dirtyNodes /\ g.type[n] # "Value"}

\* The nodes the work-list walk of markDirty sets dirty when it starts in
\* `roots': it goes on to the dependents of every node it finds clean, and
\* stops at the nodes that are dirty already.  Value nodes are never dirty.
Marked(g, dirtyNodes, roots) ==
    LET onward == [n \in NodeId |-> IF n \in dirtyNodes THEN {} ELSE g.dependents[n]]
    IN  {n \in Reach(onward, roots) : n \notin dirtyNodes /\ g.type[n] # "Value"}

\* A graph and the dirty nodes in it: the graph is well formed, a value reads
\* nothing and is never dirty, and who reads a dirty node is dirty, but for the
\* roots that are still to be marked.
SettledBut(g, dirtyNodes, roots) ==
    /\ WellFormed(g)
    /\ \A n \in NodeId : g.type[n] \in {"Value", Absent} =>
                            g.dependencies[n] = {} /\ n \notin dirtyNodes
    /\ \A n \in dirtyNodes : g.dependents[n] \subseteq dirtyNodes \cup roots

\* As they are between two calls of the API.
Settled(g, dirtyNodes) == SettledBut(g, dirtyNodes, {})
=============================================================================
